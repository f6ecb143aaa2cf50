------------------------------ MODULE AraTypes ------------------------------
(***************************************************************************)
(* The enumerations of libara and, for each of its six operations, the    *)
(* statuses its three entry points tell apart.                             *)
(*                                                                         *)
(* src/open.c, close.c, end.c, read.c, write.c and unlink.c have one       *)
(* shape: ara_<op>() checks the status of the session and sends a request, *)
(* on_async_begin() starts the user's worker when the request is           *)
(* delivered, on_done() finishes the request.  What differs is a record    *)
(* of statuses, one per file.                                              *)
(***************************************************************************)

(***************************************************************************)
(* enum ara_status and enum ara_work without their NONE padding values.    *)
(* UNKNOWN is 0, what a zeroed struct holds.                               *)
(***************************************************************************)
Statuses == {"UNKNOWN", "INIT", "OPENING", "OPENED", "CLOSING", "CLOSED"}

OpTypes == {"OPEN", "CLOSE", "END", "READ", "WRITE", "UNLINK"}

WorkTypes == OpTypes \union {"UNKNOWN"}

(***************************************************************************)
(* enum ara_work counts 0, 1, 2, ..., but ara_set() and OP use a value as  *)
(* a mask: WorkBits is the set of bits each value has.                     *)
(***************************************************************************)
WorkBits ==
  [UNKNOWN |-> {},
   OPEN    |-> {0},
   CLOSE   |-> {1},
   END     |-> {0, 1},
   READ    |-> {2},
   WRITE   |-> {0, 2},
   UNLINK  |-> {1, 2}]

(***************************************************************************)
(* enum ara_error_code.  NONE is the largest value, every other code is    *)
(* pending (code < ARA_ENONE); UNKNOWN is 0, so the error of a zeroed      *)
(* struct is pending as well.                                              *)
(***************************************************************************)
ErrorCodes ==
  {"UNKNOWN", "NOMEM", "NOCALLBACK", "NOUVLOOP", "UVASYNCINIT",
   "UVASYNCSEND", "BADSTATE", "BADDATA", "ACCESS", "NONE"}

Pending(e) == e # "NONE"

\* The codes ara_set_error() stores: the other ones leave the error as it was.
Settable == ErrorCodes \ {"BADDATA", "NONE"}

\* Plausible bug: the switch is gone.
SetError_Unfiltered(e, code) == code

SetError(e, code) == IF code \in Settable THEN code ELSE e

(***************************************************************************)
(* One record per operation:                                               *)
(*   callable  the statuses in which ara_<op>() goes on to OP;             *)
(*   starts    the statuses in which on_async_begin() calls the worker,    *)
(*   during    and the status it sets before the call;                     *)
(*   joins     the statuses in which on_async_begin() goes straight to     *)
(*             on_done() without a worker and without an error;            *)
(*   expects   the only status in which on_done() calls the user back,     *)
(*   becomes   and the status it sets before that.                         *)
(***************************************************************************)
\* Plausible bug: on_done() forgets to set the status.
OpenOp_StatusForgotten ==
  [callable |-> Statuses,
   starts   |-> {"INIT"},
   during   |-> "OPENING",
   joins    |-> {"OPENED", "OPENING"},
   expects  |-> "OPENING",
   becomes  |-> "OPENING"]

\* Plausible bug: a closed session can be opened again.
OpenOp_Reopens ==
  [callable |-> Statuses,
   starts   |-> {"INIT", "CLOSED"},
   during   |-> "OPENING",
   joins    |-> {"OPENED", "OPENING"},
   expects  |-> "OPENING",
   becomes  |-> "OPENED"]

OpenOp ==
  [callable |-> Statuses,
   starts   |-> {"INIT"},
   during   |-> "OPENING",
   joins    |-> {"OPENED", "OPENING"},
   expects  |-> "OPENING",
   becomes  |-> "OPENED"]

\* Plausible bug: a second ara_close() starts the worker again.
CloseOp_Restarts ==
  [callable |-> {"OPENING", "OPENED", "CLOSING", "CLOSED"},
   starts   |-> {"OPENING", "OPENED", "CLOSING"},
   during   |-> "CLOSING",
   joins    |-> {"CLOSED"},
   expects  |-> "CLOSING",
   becomes  |-> "CLOSED"]

CloseOp ==
  [callable |-> {"OPENING", "OPENED", "CLOSING", "CLOSED"},
   starts   |-> {"OPENING", "OPENED"},
   during   |-> "CLOSING",
   joins    |-> {"CLOSING", "CLOSED"},
   expects  |-> "CLOSING",
   becomes  |-> "CLOSED"]

EndOp ==
  [callable |-> {"OPENED"},
   starts   |-> {"OPENED"},
   during   |-> "OPENED",
   joins    |-> {},
   expects  |-> "OPENED",
   becomes  |-> "OPENED"]

ReadOp ==
  [callable |-> {"OPENED"},
   starts   |-> {"OPENED"},
   during   |-> "OPENED",
   joins    |-> {},
   expects  |-> "OPENED",
   becomes  |-> "OPENED"]

WriteOp ==
  [callable |-> {"OPENED"},
   starts   |-> {"OPENED"},
   during   |-> "OPENED",
   joins    |-> {},
   expects  |-> "OPENED",
   becomes  |-> "OPENED"]

UnlinkOp ==
  [callable |-> {"OPENING", "OPENED"},
   starts   |-> {"OPENED"},
   during   |-> "OPENED",
   joins    |-> {},
   expects  |-> "OPENED",
   becomes  |-> "OPENED"]

Op ==
  [OPEN   |-> OpenOp,
   CLOSE  |-> CloseOp,
   END    |-> EndOp,
   READ   |-> ReadOp,
   WRITE  |-> WriteOp,
   UNLINK |-> UnlinkOp]
=============================================================================
