------------------------------- MODULE MCAra -------------------------------
(***************************************************************************)
(* Small instances of Ara for TLC, and what the tests of the repository    *)
(* say of every call.                                                      *)
(***************************************************************************)
EXTENDS Ara, TLC

\* Request slots are interchangeable: malloc() returns any free one.
Slots == Permutations(Req)

(***************************************************************************)
(* test/end.c:66 "should return 'ARA_FALSE' when 'ARA_END' bit is not      *)
(* set.": ara_end() accepts no request of a client that has not called     *)
(* ara_set() with ARA_END.                                                 *)
(***************************************************************************)
EndIsRegistered == \A r \in sent : op[r] = "END" => "END" \in work
=============================================================================
