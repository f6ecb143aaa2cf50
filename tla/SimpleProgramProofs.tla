------------------------- MODULE SimpleProgramProofs -------------------------
(***************************************************************************)
(* example/simple prints what it wrote, for a memory and a range of any    *)
(* length, and whichever of its requests are refused.                      *)
(***************************************************************************)
EXTENDS SimpleProgram, AraProofs

(***************************************************************************)
(* Where the program is.  At any time one thing leads on: the code that    *)
(* runs, or the one request it has made.                                   *)
(***************************************************************************)
MainTails ==
  { Tail(Main),
    <<Step("LOOP", "OPEN"), Step("SET", "OPEN"), Step("SET", "CLOSE"), Step("SET", "READ"),
      Step("SET", "WRITE"), Step("MAKE", "OPEN")>>,
    <<Step("SET", "OPEN"), Step("SET", "CLOSE"), Step("SET", "READ"), Step("SET", "WRITE"),
      Step("MAKE", "OPEN")>>,
    <<Step("SET", "CLOSE"), Step("SET", "READ"), Step("SET", "WRITE"), Step("MAKE", "OPEN")>>,
    <<Step("SET", "READ"), Step("SET", "WRITE"), Step("MAKE", "OPEN")>>,
    <<Step("SET", "WRITE"), Step("MAKE", "OPEN")>>,
    <<Step("MAKE", "OPEN")>> }

\* The last call of a worker's code.
LastCall(t) ==
  CASE t = "OPEN"  -> Step("MAKE", "WRITE")
    [] t = "WRITE" -> Step("MAKE", "READ")
    [] t = "READ"  -> Step("MAKE", "CLOSE")
    [] t = "CLOSE" -> Step("DESTROY", "CLOSE")

\* What is left of a worker's code when call f is next in it.
Rest(f, t) ==
  CASE f \in {"FILL", "LOAD"} -> Code(t)
    [] f = "STORE" -> <<Step(f, t), Step("DONE", t), LastCall(t)>>
    [] f = "DONE" -> <<Step(f, t), LastCall(t)>>
    [] f \in {"MAKE", "DESTROY"} -> <<Step(f, t)>>

ScriptsBefore ==
  MainTails \union {Rest("FILL", "OPEN"), Rest("DONE", "OPEN"), Rest("MAKE", "WRITE"),
                    Rest("FILL", "WRITE"), Rest("STORE", "WRITE")}

ScriptsBetween == {Rest("DONE", "WRITE"), Rest("MAKE", "READ"), Rest("LOAD", "READ")}

ScriptsAfter ==
  {Rest("DONE", "READ"), Rest("MAKE", "CLOSE"), Rest("DONE", "CLOSE"), Rest("DESTROY", "CLOSE")}

LeadsOn(scripts, types) ==
  \/ script \in scripts /\ sent = {}
  \/ script = <<>> /\ \E r \in Req : sent = {r} /\ op[r] \in types

(***************************************************************************)
(* The memory once main() has made it, and once onwrite() has filled it.   *)
(***************************************************************************)
Made ==
  /\ {"base", "length"} \subseteq DOMAIN buffer
  /\ buffer.base # "NULL" /\ buffer.base \in DOMAIN heap
  /\ buffer.length = Bufsiz
  /\ DOMAIN heap[buffer.base] = 0..(Bufsiz - 1)

Filled ==
  \A i \in 0..(Bufsiz - 1) :
    range.offset <= i /\ i < range.offset + range.length => heap[buffer.base][i] = "text"

(***************************************************************************)
(* Each part of the program finds in the memory what the parts before it   *)
(* have left there.  When nothing leads on the program is over.            *)
(***************************************************************************)
Start == script = Main /\ sent = {} /\ shown = <<>>
Before == LeadsOn(ScriptsBefore, {"OPEN", "WRITE"}) /\ Made /\ shown = <<>>
Between == LeadsOn(ScriptsBetween, {"READ"}) /\ Made /\ Filled /\ shown = <<>>
After == LeadsOn(ScriptsAfter, {"CLOSE"}) /\ shown = <<Text>>
Over == script = <<>> /\ sent = {} /\ shown \in {<<>>, <<Text>>}

Passing ==
  /\ range \in Ranges
  /\ ~spilled
  /\ Start \/ Before \/ Between \/ After \/ Over

(***************************************************************************)
(* What has been handed on, as far as the next call relies on it: a worker *)
(* that owes a done() still holds its request, the struct of onopen() has  *)
(* the text and the range, that of onwrite() the range, and each request   *)
(* what the struct had.                                                    *)
(***************************************************************************)
Calls(f, t) == script # <<>> /\ Head(script) = Step(f, t)

Serving == stack # <<>> /\ Top.kind = "work" /\ Top.req \in held

Names(data) == data.offset = range.offset /\ data.length = range.length

Carries(data) == Names(data) /\ data.data = "text"

Handed ==
  /\ \A f \in {"FILL", "STORE", "LOAD", "DONE"} : \A t : Calls(f, t) => Serving
  /\ Calls("DONE", "OPEN") \/ Calls("MAKE", "WRITE") => Carries(static["OPEN"])
  /\ Calls("FILL", "WRITE") \/ Calls("STORE", "WRITE") => Carries(posted[Top.req])
  /\ Calls("STORE", "WRITE") \/ Calls("DONE", "WRITE") \/ Calls("MAKE", "READ") =>
       Names(static["WRITE"])
  /\ Calls("LOAD", "READ") => Names(posted[Top.req])
  /\ \A r \in sent : /\ op[r] = "WRITE" => Carries(posted[r])
                     /\ op[r] = "READ" => Names(posted[r])

Datas == [offset : Nat, length : Nat, data : {"text", "null"}]

Structs ==
  /\ static \in [{"OPEN", "WRITE"} -> Datas]
  /\ posted \in [Req -> Datas]

Simple == Ownership /\ Passing /\ Structs /\ Handed

-----------------------------------------------------------------------------
(***************************************************************************)
(* The scripts: what each begins with, and what is left of it then.        *)
(***************************************************************************)
LEMMA MainScript ==
  /\ Main # <<>> /\ Head(Main) = Step("BUFFER", "OPEN")
  /\ Tail(Main) \in MainTails
BY DEF Main, MainTails, Step

\* In main() each call but the last is followed by another one of main().
LEMMA MainTailsLead ==
  ASSUME NEW s \in MainTails
  PROVE  /\ s # <<>>
         /\ \/ Head(s) \in {Step("INIT", "OPEN"), Step("LOOP", "OPEN"), Step("SET", "OPEN"),
                            Step("SET", "CLOSE"), Step("SET", "READ"), Step("SET", "WRITE")}
               /\ Tail(s) \in MainTails
            \/ Head(s) = Step("MAKE", "OPEN") /\ Tail(s) = <<>>
<1>1. CASE s = Tail(Main)
  BY <1>1 DEF Main, MainTails
<1>2. CASE s = <<Step("LOOP", "OPEN"), Step("SET", "OPEN"), Step("SET", "CLOSE"),
                 Step("SET", "READ"), Step("SET", "WRITE"), Step("MAKE", "OPEN")>>
  BY <1>2 DEF MainTails
<1>3. CASE s = <<Step("SET", "OPEN"), Step("SET", "CLOSE"), Step("SET", "READ"),
                 Step("SET", "WRITE"), Step("MAKE", "OPEN")>>
  BY <1>3 DEF MainTails
<1>4. CASE s = <<Step("SET", "CLOSE"), Step("SET", "READ"), Step("SET", "WRITE"),
                 Step("MAKE", "OPEN")>>
  BY <1>4 DEF MainTails
<1>5. CASE s = <<Step("SET", "READ"), Step("SET", "WRITE"), Step("MAKE", "OPEN")>>
  BY <1>5 DEF MainTails
<1>6. CASE s = <<Step("SET", "WRITE"), Step("MAKE", "OPEN")>>
  BY <1>6 DEF MainTails
<1>7. CASE s = <<Step("MAKE", "OPEN")>>
  BY <1>7 DEF MainTails
<1> QED
  BY <1>1, <1>2, <1>3, <1>4, <1>5, <1>6, <1>7 DEF MainTails

\* The code of each worker.
LEMMA WorkerScripts ==
  /\ Code("OPEN") = Rest("FILL", "OPEN")
  /\ Code("WRITE") = Rest("FILL", "WRITE")
  /\ Code("READ") = Rest("LOAD", "READ")
  /\ Code("CLOSE") = Rest("DONE", "CLOSE")
BY DEF Rest, Code, LastCall

Begins(f, t, tail) ==
  Rest(f, t) # <<>> /\ Head(Rest(f, t)) = Step(f, t) /\ Tail(Rest(f, t)) = tail

\* Scripts of one to four calls.
LEMMA OneStep ==
  ASSUME NEW s, NEW a, s = <<a>>
  PROVE  s # <<>> /\ Head(s) = a /\ Tail(s) = <<>>
OBVIOUS

LEMMA TwoSteps ==
  ASSUME NEW s, NEW a, NEW b, s = <<a, b>>, NEW u, u = <<b>>
  PROVE  s # <<>> /\ Head(s) = a /\ Tail(s) = u
OBVIOUS

LEMMA ThreeSteps ==
  ASSUME NEW s, NEW a, NEW b, NEW c, s = <<a, b, c>>, NEW u, u = <<b, c>>
  PROVE  s # <<>> /\ Head(s) = a /\ Tail(s) = u
OBVIOUS

LEMMA FourSteps ==
  ASSUME NEW s, NEW a, NEW b, NEW c, NEW d, s = <<a, b, c, d>>, NEW u, u = <<b, c, d>>
  PROVE  s # <<>> /\ Head(s) = a /\ Tail(s) = u
OBVIOUS

\* The calls of the workers in their order.
LEMMA Rests ==
  /\ Begins("FILL", "OPEN", Rest("DONE", "OPEN"))
  /\ Begins("DONE", "OPEN", Rest("MAKE", "WRITE"))
  /\ Begins("MAKE", "WRITE", <<>>)
  /\ Begins("FILL", "WRITE", Rest("STORE", "WRITE"))
  /\ Begins("STORE", "WRITE", Rest("DONE", "WRITE"))
  /\ Begins("DONE", "WRITE", Rest("MAKE", "READ"))
  /\ Begins("MAKE", "READ", <<>>)
  /\ Begins("LOAD", "READ", Rest("DONE", "READ"))
  /\ Begins("DONE", "READ", Rest("MAKE", "CLOSE"))
  /\ Begins("MAKE", "CLOSE", <<>>)
  /\ Begins("DONE", "CLOSE", Rest("DESTROY", "CLOSE"))
  /\ Begins("DESTROY", "CLOSE", <<>>)
<1>1. \A t : Begins("MAKE", t, <<>>) /\ Begins("DESTROY", t, <<>>)
  <2>1. \A t : Rest("MAKE", t) = <<Step("MAKE", t)>> /\ Rest("DESTROY", t) = <<Step("DESTROY", t)>>
    BY DEF Rest
  <2> QED
    BY <2>1, OneStep, Zenon DEF Begins
<1>2. /\ Begins("FILL", "OPEN", Rest("DONE", "OPEN"))
      /\ Begins("DONE", "OPEN", Rest("MAKE", "WRITE"))
  <2>1. /\ Rest("FILL", "OPEN") =
             <<Step("FILL", "OPEN"), Step("DONE", "OPEN"), Step("MAKE", "WRITE")>>
        /\ Rest("DONE", "OPEN") = <<Step("DONE", "OPEN"), Step("MAKE", "WRITE")>>
        /\ Rest("MAKE", "WRITE") = <<Step("MAKE", "WRITE")>>
    BY DEF Rest, Code, LastCall
  <2>2. Begins("FILL", "OPEN", Rest("DONE", "OPEN"))
    BY <2>1, ThreeSteps, ZenonT(60) DEF Begins
  <2>3. Begins("DONE", "OPEN", Rest("MAKE", "WRITE"))
    BY <2>1, TwoSteps, ZenonT(60) DEF Begins
  <2> QED
    BY <2>2, <2>3
<1>3. /\ Begins("FILL", "WRITE", Rest("STORE", "WRITE"))
      /\ Begins("STORE", "WRITE", Rest("DONE", "WRITE"))
      /\ Begins("DONE", "WRITE", Rest("MAKE", "READ"))
  <2>1. /\ Rest("FILL", "WRITE") =
             <<Step("FILL", "WRITE"), Step("STORE", "WRITE"), Step("DONE", "WRITE"),
               Step("MAKE", "READ")>>
        /\ Rest("STORE", "WRITE") =
             <<Step("STORE", "WRITE"), Step("DONE", "WRITE"), Step("MAKE", "READ")>>
        /\ Rest("DONE", "WRITE") = <<Step("DONE", "WRITE"), Step("MAKE", "READ")>>
        /\ Rest("MAKE", "READ") = <<Step("MAKE", "READ")>>
    BY DEF Rest, Code, LastCall
  <2>2. Begins("FILL", "WRITE", Rest("STORE", "WRITE"))
    <3> DEFINE s == Rest("FILL", "WRITE")
               u == Rest("STORE", "WRITE")
    <3>1. /\ s = <<Step("FILL", "WRITE"), Step("STORE", "WRITE"), Step("DONE", "WRITE"),
                   Step("MAKE", "READ")>>
          /\ u = <<Step("STORE", "WRITE"), Step("DONE", "WRITE"), Step("MAKE", "READ")>>
      BY <2>1
    <3> HIDE DEF s, u
    <3>2. s # <<>> /\ Head(s) = Step("FILL", "WRITE") /\ Tail(s) = u
      BY <3>1, FourSteps
    <3> QED
      BY <3>2, Zenon DEF Begins, s, u
  <2>3. Begins("STORE", "WRITE", Rest("DONE", "WRITE"))
    BY <2>1, ThreeSteps, ZenonT(60) DEF Begins
  <2>4. Begins("DONE", "WRITE", Rest("MAKE", "READ"))
    BY <2>1, TwoSteps, ZenonT(60) DEF Begins
  <2> QED
    BY <2>2, <2>3, <2>4
<1>4. /\ Begins("LOAD", "READ", Rest("DONE", "READ"))
      /\ Begins("DONE", "READ", Rest("MAKE", "CLOSE"))
  <2>1. /\ Rest("LOAD", "READ") =
             <<Step("LOAD", "READ"), Step("DONE", "READ"), Step("MAKE", "CLOSE")>>
        /\ Rest("DONE", "READ") = <<Step("DONE", "READ"), Step("MAKE", "CLOSE")>>
        /\ Rest("MAKE", "CLOSE") = <<Step("MAKE", "CLOSE")>>
    BY DEF Rest, Code, LastCall
  <2>2. Begins("LOAD", "READ", Rest("DONE", "READ"))
    BY <2>1, ThreeSteps, ZenonT(60) DEF Begins
  <2>3. Begins("DONE", "READ", Rest("MAKE", "CLOSE"))
    BY <2>1, TwoSteps, ZenonT(60) DEF Begins
  <2> QED
    BY <2>2, <2>3
<1>5. Begins("DONE", "CLOSE", Rest("DESTROY", "CLOSE"))
  <2>1. /\ Rest("DONE", "CLOSE") = <<Step("DONE", "CLOSE"), Step("DESTROY", "CLOSE")>>
        /\ Rest("DESTROY", "CLOSE") = <<Step("DESTROY", "CLOSE")>>
    BY DEF Rest, LastCall
  <2> QED
    BY <2>1, TwoSteps, ZenonT(60) DEF Begins
<1> QED
  BY <1>1, <1>2, <1>3, <1>4, <1>5

\* The steps of a script are told apart by both their parts.
LEMMA StepParts ==
  ASSUME NEW f, NEW t, NEW g, NEW u, Step(f, t) = Step(g, u)
  PROVE  f = g /\ t = u
BY DEF Step

\* The part of the program each of them belongs to.
LEMMA RestsIn ==
  /\ Rest("DONE", "OPEN") \in ScriptsBefore
  /\ Rest("MAKE", "WRITE") \in ScriptsBefore
  /\ Rest("STORE", "WRITE") \in ScriptsBefore
  /\ Rest("DONE", "WRITE") \in ScriptsBetween
  /\ Rest("MAKE", "READ") \in ScriptsBetween
  /\ Rest("DONE", "READ") \in ScriptsAfter
  /\ Rest("MAKE", "CLOSE") \in ScriptsAfter
  /\ Rest("DESTROY", "CLOSE") \in ScriptsAfter
BY DEF ScriptsBefore, ScriptsBetween, ScriptsAfter

\* The head of the script tells which of the scripts it is.
LEMMA HeadTells ==
  ASSUME NEW f, NEW t, Head(script) = Step(f, t),
         NEW g, NEW u, script = Rest(g, u), NEW tail, Begins(g, u, tail)
  PROVE  f = g /\ t = u /\ Tail(script) = tail
BY StepParts DEF Begins

(***************************************************************************)
(* The next call tells where the program is, and what it will find.        *)
(***************************************************************************)
LEMMA NextCall ==
  ASSUME Passing, NEW f, NEW t, script # <<>>, Head(script) = Step(f, t)
  PROVE  /\ sent = {}
         /\ f = "BUFFER" => Start
         /\ f \in {"INIT", "LOOP", "SET"} => Before /\ Tail(script) \in MainTails
         /\ f = "MAKE" => /\ Tail(script) = <<>>
                          /\ \/ t \in {"OPEN", "WRITE"} /\ Before
                             \/ t = "READ" /\ Between
                             \/ t = "CLOSE" /\ After
         /\ f = "DONE" => \/ Tail(script) \in ScriptsBefore /\ Before
                          \/ Tail(script) \in ScriptsBetween /\ Between
                          \/ Tail(script) \in ScriptsAfter /\ After
         /\ f = "FILL" => Tail(script) \in ScriptsBefore /\ Before
         /\ f = "STORE" => Tail(script) \in ScriptsBetween /\ Before
         /\ f = "LOAD" => Tail(script) \in ScriptsAfter /\ Between
         /\ f = "DESTROY" => Tail(script) = <<>> /\ After
<1>1. CASE script = Main
  <2>1. f = "BUFFER"
    BY <1>1, MainScript, StepParts
  <2>2. Main \notin ScriptsBefore \union ScriptsBetween \union ScriptsAfter
    <3>1. Main \notin MainTails
      BY MainScript, MainTailsLead DEF Step
    <3>2. ASSUME NEW g \in {"FILL", "DONE", "STORE", "LOAD", "MAKE", "DESTROY"}, NEW u,
                 NEW tail, Begins(g, u, tail)
          PROVE  Main # Rest(g, u)
      BY <3>2, MainScript DEF Begins, Step
    <3> QED
      BY <3>1, <3>2, Rests DEF ScriptsBefore, ScriptsBetween, ScriptsAfter
  <2> QED
    BY <1>1, <2>1, <2>2, MainScript DEF Passing, LeadsOn, Start, Before, Between, After, Over
<1>2. CASE Before /\ script # Main
  <2>1. Before /\ sent = {} /\ script \in ScriptsBefore
    BY <1>2 DEF Before, LeadsOn
  <2>2. CASE script \in MainTails
    BY <2>1, <2>2, MainTailsLead DEF Step
  <2>3. CASE script = Rest("FILL", "OPEN")
    <3>1. f = "FILL" /\ t = "OPEN" /\ Tail(script) = Rest("DONE", "OPEN")
      BY <2>3, Rests, HeadTells
    <3> QED
      BY <2>1, <3>1, RestsIn
  <2>4. CASE script = Rest("DONE", "OPEN")
    <3>1. f = "DONE" /\ t = "OPEN" /\ Tail(script) = Rest("MAKE", "WRITE")
      BY <2>4, Rests, HeadTells
    <3> QED
      BY <2>1, <3>1, RestsIn
  <2>5. CASE script = Rest("MAKE", "WRITE")
    <3>1. f = "MAKE" /\ t = "WRITE" /\ Tail(script) = <<>>
      BY <2>5, Rests, HeadTells
    <3> QED
      BY <2>1, <3>1, RestsIn
  <2>6. CASE script = Rest("FILL", "WRITE")
    <3>1. f = "FILL" /\ t = "WRITE" /\ Tail(script) = Rest("STORE", "WRITE")
      BY <2>6, Rests, HeadTells
    <3> QED
      BY <2>1, <3>1, RestsIn
  <2>7. CASE script = Rest("STORE", "WRITE")
    <3>1. f = "STORE" /\ t = "WRITE" /\ Tail(script) = Rest("DONE", "WRITE")
      BY <2>7, Rests, HeadTells
    <3> QED
      BY <2>1, <3>1, RestsIn
  <2> QED
    BY <2>1, <2>2, <2>3, <2>4, <2>5, <2>6, <2>7 DEF ScriptsBefore
<1>3. CASE Between
  <2>1. Between /\ sent = {} /\ script \in ScriptsBetween
    BY <1>3 DEF Between, LeadsOn
  <2>2. CASE script = Rest("DONE", "WRITE")
    <3>1. f = "DONE" /\ t = "WRITE" /\ Tail(script) = Rest("MAKE", "READ")
      BY <2>2, Rests, HeadTells
    <3> QED
      BY <2>1, <3>1, RestsIn
  <2>3. CASE script = Rest("MAKE", "READ")
    <3>1. f = "MAKE" /\ t = "READ" /\ Tail(script) = <<>>
      BY <2>3, Rests, HeadTells
    <3> QED
      BY <2>1, <3>1, RestsIn
  <2>4. CASE script = Rest("LOAD", "READ")
    <3>1. f = "LOAD" /\ t = "READ" /\ Tail(script) = Rest("DONE", "READ")
      BY <2>4, Rests, HeadTells
    <3> QED
      BY <2>1, <3>1, RestsIn
  <2> QED
    BY <2>1, <2>2, <2>3, <2>4 DEF ScriptsBetween
<1>4. CASE After
  <2>1. After /\ sent = {} /\ script \in ScriptsAfter
    BY <1>4 DEF After, LeadsOn
  <2>2. CASE script = Rest("DONE", "READ")
    <3>1. f = "DONE" /\ t = "READ" /\ Tail(script) = Rest("MAKE", "CLOSE")
      BY <2>2, Rests, HeadTells
    <3> QED
      BY <2>1, <3>1, RestsIn
  <2>3. CASE script = Rest("MAKE", "CLOSE")
    <3>1. f = "MAKE" /\ t = "CLOSE" /\ Tail(script) = <<>>
      BY <2>3, Rests, HeadTells
    <3> QED
      BY <2>1, <3>1, RestsIn
  <2>4. CASE script = Rest("DONE", "CLOSE")
    <3>1. f = "DONE" /\ t = "CLOSE" /\ Tail(script) = Rest("DESTROY", "CLOSE")
      BY <2>4, Rests, HeadTells
    <3> QED
      BY <2>1, <3>1, RestsIn
  <2>5. CASE script = Rest("DESTROY", "CLOSE")
    <3>1. f = "DESTROY" /\ t = "CLOSE" /\ Tail(script) = <<>>
      BY <2>5, Rests, HeadTells
    <3> QED
      BY <2>1, <3>1, RestsIn
  <2> QED
    BY <2>1, <2>2, <2>3, <2>4, <2>5 DEF ScriptsAfter
<1> QED
  BY <1>1, <1>2, <1>3, <1>4 DEF Passing, Start, Over

\* A call of a worker is not one of main().
LEMMA NotInMain ==
  ASSUME NEW f \in {"FILL", "STORE", "LOAD", "DONE"}, NEW t, Calls(f, t)
  PROVE  script \notin MainTails /\ script # Main
BY MainTailsLead, MainScript DEF Calls, Step

(***************************************************************************)
(* And what the code will call after it.                                   *)
(***************************************************************************)
Tells(f, t, g, u) == Calls(f, t) => Tail(script) # <<>> /\ Head(Tail(script)) = Step(g, u)

LEMMA NextButOne ==
  ASSUME Passing
  PROVE  /\ \A t : Calls("FILL", t) => t \in {"OPEN", "WRITE"}
         /\ \A t : Calls("STORE", t) => t = "WRITE"
         /\ \A t : Calls("LOAD", t) => t = "READ"
         /\ \A t : Calls("DONE", t) => t \in {"OPEN", "WRITE", "READ", "CLOSE"}
         /\ Tells("FILL", "OPEN", "DONE", "OPEN")
         /\ Tells("FILL", "WRITE", "STORE", "WRITE")
         /\ Tells("STORE", "WRITE", "DONE", "WRITE")
         /\ Tells("LOAD", "READ", "DONE", "READ")
         /\ Tells("DONE", "OPEN", "MAKE", "WRITE")
         /\ Tells("DONE", "WRITE", "MAKE", "READ")
         /\ Tells("DONE", "READ", "MAKE", "CLOSE")
         /\ Tells("DONE", "CLOSE", "DESTROY", "CLOSE")
<1> USE StepParts, Rests DEF Begins
<1> DEFINE Late == {"FILL", "STORE", "LOAD", "DONE"}
<1>1. ASSUME NEW f \in Late, NEW t, Calls(f, t)
      PROVE  /\ script = Rest(f, t)
             /\ <<f, t>> \in {<<"FILL", "OPEN">>, <<"FILL", "WRITE">>, <<"STORE", "WRITE">>,
                              <<"LOAD", "READ">>, <<"DONE", "OPEN">>, <<"DONE", "WRITE">>,
                              <<"DONE", "READ">>, <<"DONE", "CLOSE">>}
  <2>1. script \notin MainTails /\ script # Main
    BY <1>1, NotInMain
  <2>2. script \in (ScriptsBefore \ MainTails) \union ScriptsBetween \union ScriptsAfter
    BY <1>1, <2>1 DEF Calls, Passing, Start, Before, Between, After, Over, LeadsOn
  <2>3. script \in {Rest("FILL", "OPEN"), Rest("DONE", "OPEN"), Rest("FILL", "WRITE"),
                   Rest("STORE", "WRITE"), Rest("DONE", "WRITE"), Rest("LOAD", "READ"),
                   Rest("DONE", "READ"), Rest("DONE", "CLOSE")}
    BY <1>1, <2>2 DEF ScriptsBefore, ScriptsBetween, ScriptsAfter, Calls
  <2> QED
    BY <1>1, <2>3 DEF Calls
<1>2. \A f \in Late : \A t : Calls(f, t) => script = Rest(f, t)
  BY <1>1
<1>3. /\ \A t : Calls("FILL", t) => t \in {"OPEN", "WRITE"}
      /\ \A t : Calls("STORE", t) => t = "WRITE"
      /\ \A t : Calls("LOAD", t) => t = "READ"
      /\ \A t : Calls("DONE", t) => t \in {"OPEN", "WRITE", "READ", "CLOSE"}
  BY <1>1
<1> QED
  BY <1>2, <1>3 DEF Tells
-----------------------------------------------------------------------------
(***************************************************************************)
(* The session of the program is one of Ara, whatever script runs.         *)
(***************************************************************************)
LEMMA RequestTypes ==
  ASSUME Passing, NEW t, Do("MAKE", t)
  PROVE  t \in {"OPEN", "WRITE", "READ", "CLOSE"}
BY NextCall DEF Do, Running

LEMMA SessionSteps ==
  ASSUME TypeOK, Passing, Handed, [SNext]_svars
  PROVE  [Next]_vars
<1> SUFFICES ASSUME SNext PROVE [Next]_vars
  BY DEF svars, vars
<1>1. ASSUME NEW t \in Types, RequestMade(t) PROVE Next
  BY <1>1, RequestTypes DEF RequestMade, Next
<1>2. CASE RamMade \/ \E t \in Types : DataFilled(t) \/ Stored(t) \/ Loaded(t) \/ RamDestroyed(t)
  BY <1>2 DEF RamMade, DataFilled, Stored, Loaded, RamDestroyed, OfRam
<1>3. ASSUME NEW t \in Types, DoneCalled(t) PROVE Next
  <2>1. WorkDone(Top.req)
    <3>1. Calls("DONE", t) /\ Done(Top.req)
      BY <1>3 DEF DoneCalled, Do, Running, Calls
    <3> QED
      BY <3>1 DEF Handed, Serving, WorkDone
  <2>2. Top.req \in Req
    BY <2>1 DEF WorkDone, TypeOK
  <2> QED
    BY <2>1, <2>2 DEF Next
<1>4. CASE Initialised \/ LoopSet \/ \E t \in Types : WorkerSet(t)
  BY <1>4 DEF Initialised, LoopSet, WorkerSet, Next
<1>5. CASE \/ \E r \in Req : Delivered(r) \/ HandleClosed(r)
           \/ WorkerReturns \/ NoCallback
  BY <1>5 DEF Delivered, HandleClosed, WorkerReturns, NoCallback, Next
<1> QED
  BY <1>1, <1>2, <1>3, <1>4, <1>5 DEF SNext

-----------------------------------------------------------------------------
(***************************************************************************)
(* The steps of the memory.                                                *)
(***************************************************************************)

\* What Ram!BufferInit leaves: malloc() does not fail in this program.
LEMMA RamMadeIsMade ==
  ASSUME RamMade
  PROVE  Made' /\ spilled' = spilled
<1>1. PICK m \in Ram!Mallocs(heap, Bufsiz, "zero") :
        /\ buffer' = [base |-> m.base, length |-> Bufsiz,
                      view |-> [base |-> m.base, len |-> Bufsiz],
                      mut |-> buffer.mut, written |-> 0]
        /\ heap' = m.heap
        /\ spilled' = spilled
  <2>1. PICK outcome \in Ram!Inits(buffer, heap, Bufsiz) : Ram!Leaves(outcome)
    BY Zenon DEF RamMade, Ram!BufferInit
  <2>2. Bufsiz # 0
    BY SimpleAssumption
  <2>3. PICK m \in Ram!Mallocs(heap, Bufsiz, "zero") :
          outcome = Ram!Outcome([base |-> m.base, length |-> Bufsiz,
                                 view |-> [base |-> m.base, len |-> Bufsiz],
                                 mut |-> buffer.mut, written |-> 0], m.heap, spilled, TRUE)
    BY <2>1, <2>2 DEF Ram!Inits
  <2> QED
    BY <2>1, <2>3 DEF Ram!Leaves, Ram!Outcome
<1>2. PICK id \in Regions :
        /\ m.base = id
        /\ m.heap = Ram!Allot(heap, id, [i \in Ram!Span(Bufsiz) |-> "zero"])
  BY DEF Ram!Mallocs
<1>3. m.heap[id] = [i \in 0..(Bufsiz - 1) |-> "zero"] /\ id \in DOMAIN m.heap
  BY <1>2 DEF Ram!Allot, Ram!Span
<1> QED
  BY <1>1, <1>2, <1>3, SimpleAssumption DEF Made

\* The range of onopen() lies in the memory of main(), and so does every data
\* that names it.
LEMMA RangeInside ==
  ASSUME range \in Ranges, Made, NEW data, Names(data)
  PROVE  /\ range.offset \in Nat /\ range.length \in Nat
         /\ range.offset + range.length <= Bufsiz
         /\ Ram!Inside(buffer, heap, data)
         /\ ~Ram!TooShort(buffer, data)
         /\ ~Ram!Refused(data)
BY SimpleAssumption DEF Names, Made, Ram!Inside, Ram!TooShort, Ram!Refused, Ram!Null

\* ara_buffer_write() of the text there.
LEMMA StoredIsFilled ==
  ASSUME range \in Ranges, Made, ~spilled, NEW t, Stored(t), Carries(posted[Top.req])
  PROVE  Made' /\ Filled' /\ ~spilled'
<1> DEFINE data == posted[Top.req]
<1>0. Names(data) /\ data.data = "text"
  BY DEF Carries
<1>1. Ram!Prepared(data) = {Ram!Unchanged}
  BY DEF Ram!Prepared, Ram!Null, Made
<1>2. Ram!Sized(Ram!Unchanged, data) = {Ram!Unchanged}
  BY <1>0, RangeInside DEF Ram!Sized, Ram!Unchanged, Ram!Outcome
<1>3. /\ heap' = Ram!Copied(heap, buffer.base, data, "text")
      /\ buffer' = [buffer EXCEPT !.written = Ram!Counted(buffer, data.length)]
      /\ ~spilled'
      /\ range' = range
  <2>1. Ram!BufferWrite(data, "text") /\ range' = range
    BY <1>0 DEF Stored, Do
  <2> HIDE DEF data
  <2>2. PICK p \in Ram!Prepared(data) : \E w \in Ram!Sized(p, data) :
          \/ ~w.ok
          \/ /\ heap' = Ram!Copied(w.heap, w.buffer.base, data, "text")
             /\ buffer' = [w.buffer EXCEPT !.written = Ram!Counted(w.buffer, data.length)]
             /\ spilled' = (w.spilled \/ ~Ram!Inside(w.buffer, w.heap, data))
    BY <2>1, Zenon DEF Ram!BufferWrite
  <2>3. p = Ram!Unchanged
    BY <1>1
  <2>4. /\ Ram!Unchanged.ok /\ Ram!Unchanged.heap = heap /\ Ram!Unchanged.buffer = buffer
        /\ Ram!Unchanged.spilled = spilled
    BY DEF Ram!Unchanged, Ram!Outcome
  <2>5. /\ heap' = Ram!Copied(heap, buffer.base, data, "text")
        /\ buffer' = [buffer EXCEPT !.written = Ram!Counted(buffer, data.length)]
        /\ spilled' = (spilled \/ ~Ram!Inside(buffer, heap, data))
    BY <1>2, <2>2, <2>3, <2>4, Zenon
  <2>6. Ram!Inside(buffer, heap, data)
    BY <1>0, RangeInside
  <2> QED
    BY <2>1, <2>5, <2>6
<1> HIDE DEF data
<1>4. buffer'.base = buffer.base /\ buffer'.length = buffer.length
  BY <1>3
<1>5. heap'[buffer.base] = [i \in DOMAIN heap[buffer.base] |->
                             IF Ram!Covers(data, i) THEN "text" ELSE heap[buffer.base][i]]
  BY <1>3 DEF Ram!Copied, Made
<1> QED
  BY <1>0, <1>3, <1>4, <1>5 DEF Names, Made, Filled, Ram!Copied, Ram!Covers

\* ara_buffer_read() of it gives what is there.
LEMMA LoadedIsShown ==
  ASSUME range \in Ranges, Made, Filled, shown = <<>>, ~spilled, NEW t, Loaded(t),
         Names(posted[Top.req])
  PROVE  shown' = <<Text>> /\ ~spilled' /\ range' = range
<1> DEFINE data == posted[Top.req]
<1>0. Names(data) /\ Ram!BufferRead(data)
  BY DEF Loaded
<1> HIDE DEF data
<1>1. answer' = [count |-> data.length,
                 out |-> [i \in Ram!Span(data.length) |->
                            Ram!Byte(heap[buffer.base], i, data)]]
  BY <1>0, RangeInside DEF Ram!BufferRead
<1>2. \A i \in Ram!Span(data.length) : Ram!Byte(heap[buffer.base], i, data) = "text"
  <2> SUFFICES ASSUME NEW i \in 0..(range.length - 1)
               PROVE  Ram!Byte(heap[buffer.base], i, data) = "text"
    BY <1>0 DEF Ram!Span, Names
  <2>1. /\ range.offset + i \in 0..(Bufsiz - 1)
        /\ range.offset <= range.offset + i
        /\ range.offset + i < range.offset + range.length
    BY <1>0, RangeInside, SimpleAssumption
  <2> QED
    BY <1>0, <2>1 DEF Ram!Byte, Made, Filled, Names
<1>3. answer'.out = Text
  BY <1>0, <1>1, <1>2 DEF Text, Ram!Span, Names
<1>4. shown' = <<Text>>
  BY <1>3 DEF Loaded
<1>5. spilled' = (spilled \/ (~Ram!Refused(data) /\ ~Ram!Inside(buffer, heap, data)))
  BY <1>0 DEF Ram!BufferRead
<1> QED
  BY <1>0, <1>4, <1>5, RangeInside DEF Loaded, Do
-----------------------------------------------------------------------------
(***************************************************************************)
(* Every step of the program leads on, or ends it.                         *)
(***************************************************************************)
LEMMA SimpleInit == SInit => Simple
<1> SUFFICES ASSUME SInit PROVE Simple
  OBVIOUS
<1>1. Ownership
  BY OwnershipInit DEF SInit
<1>2. Start /\ ~spilled
  BY DEF SInit, Init, Ram!BInit, Start
<1>3. Structs
  BY DEF SInit, Structs, Datas, NoData
<1>4. Handed
  <2>1. \A f \in {"FILL", "STORE", "LOAD", "DONE", "MAKE"} : \A t : ~Calls(f, t)
    BY <1>2, MainScript, StepParts DEF Start, Calls
  <2> QED
    BY <1>2, <2>1 DEF Start, Handed
<1> QED
  BY <1>1, <1>2, <1>3, <1>4 DEF SInit, Simple, Passing

\* The memory as it was.
LEMMA MadeKept ==
  ASSUME UNCHANGED <<range, buffer, heap>>
  PROVE  Made' = Made /\ Filled' = Filled
BY DEF Made, Filled

\* ara_buffer_init() in main().
LEMMA MakingPasses == ASSUME Passing, RamMade PROVE Passing'
<1>1. Start /\ script' = Tail(Main) /\ range' = range /\ sent' = sent /\ shown' = shown
  BY NextCall DEF RamMade, Do, Running, OfRam, vars, Start
<1>2. Before'
  BY <1>1, RamMadeIsMade, MainScript DEF Start, Before, LeadsOn, ScriptsBefore
<1> QED
  BY <1>1, <1>2, RamMadeIsMade DEF Passing

\* ara_init(), ara_set_loop() and ara_set() in main().
LEMMA SettingPasses ==
  ASSUME Passing, Initialised \/ LoopSet \/ \E t \in Types : WorkerSet(t)
  PROVE  Passing'
<1>1. PICK f \in {"INIT", "LOOP", "SET"} : \E t : Do(f, t) /\ OfAra /\ UNCHANGED requests
  BY DEF Initialised, LoopSet, WorkerSet, AraInit, AraSetLoop, AraSet
<1>2. /\ Before /\ script' \in MainTails /\ sent = {}
      /\ UNCHANGED <<range, sent, shown, memory>>
  BY <1>1, NextCall DEF Do, Running, OfAra, requests
<1>3. Before'
  BY <1>2, MadeKept DEF Before, LeadsOn, ScriptsBefore, memory
<1> QED
  BY <1>2, <1>3 DEF Passing, memory

\* ara_open() in main(), ara_write(), ara_read() and ara_close() in the workers.
LEMMA MakeRequestPasses ==
  ASSUME TypeOK, Passing, NEW t \in Types, RequestMade(t)
  PROVE  Passing'
<1>1. /\ Do("MAKE", t) /\ script # <<>> /\ Head(script) = Step("MAKE", t)
      /\ ApiCall(t) /\ UNCHANGED <<range, shown, memory>>
  BY DEF RequestMade, Do, Running
<1>2. sent = {} /\ script' = <<>>
  BY <1>1, NextCall DEF Do
<1>3. \/ t \in {"OPEN", "WRITE"} /\ Before
      \/ t = "READ" /\ Between
      \/ t = "CLOSE" /\ After
  BY <1>1, NextCall
<1>4. shown \in {<<>>, <<Text>>}
  BY <1>3 DEF Before, Between, After
<1>5. CASE \E r \in Req : CallAccepted(t, r)
  <2>1. PICK r \in Req : sent' = {r} /\ op'[r] = t
    BY <1>2, <1>5 DEF CallAccepted, TypeOK
  <2>2. Before' \/ Between' \/ After'
    <3>1. CASE t \in {"OPEN", "WRITE"} /\ Before
      BY <1>1, <1>2, <2>1, <3>1, MadeKept DEF Before, LeadsOn, memory
    <3>2. CASE t = "READ" /\ Between
      BY <1>1, <1>2, <2>1, <3>2, MadeKept DEF Between, LeadsOn, memory
    <3>3. CASE t = "CLOSE" /\ After
      BY <1>1, <1>2, <2>1, <3>3 DEF After, LeadsOn, Text
    <3> QED
      BY <1>3, <3>1, <3>2, <3>3
  <2> QED
    BY <1>1, <2>2 DEF Passing, memory
<1>6. CASE sent' = sent
  BY <1>1, <1>2, <1>4, <1>6 DEF Passing, Over, Text, memory
<1> QED
  BY <1>1, <1>5, <1>6
     DEF ApiCall, CallBadState, CallNoLoop, CallNoCallback, CallInitFails, AraThrow, requests

\* done() in each worker.
LEMMA DonePasses == ASSUME Passing, NEW t, DoneCalled(t) PROVE Passing'
<1>1. /\ script # <<>> /\ Head(script) = Step("DONE", t) /\ script' = Tail(script)
      /\ UNCHANGED <<range, sent, shown, memory>>
  BY DEF DoneCalled, Do, Running, OfAra, Done
<1>2. Before' \/ Between' \/ After'
  BY <1>1, NextCall, MadeKept DEF Before, Between, After, LeadsOn, Text, memory
<1> QED
  BY <1>1, <1>2 DEF Passing, memory

\* The struct of onopen() or onwrite() is filled.
LEMMA FillPasses == ASSUME Passing, NEW t, DataFilled(t) PROVE Passing'
<1>1. /\ Before /\ script' \in ScriptsBefore /\ sent = {}
      /\ UNCHANGED <<range, sent, shown, memory>>
  BY NextCall DEF DataFilled, Do, Running, vars
<1>2. Before'
  BY <1>1, MadeKept DEF Before, LeadsOn, memory
<1> QED
  BY <1>1, <1>2 DEF Passing, memory

\* ara_buffer_write() in onwrite().
LEMMA StorePasses == ASSUME Passing, Handed, NEW t, Stored(t) PROVE Passing'
<1>1. /\ Before /\ script' \in ScriptsBetween /\ sent = {}
      /\ UNCHANGED <<range, sent, shown>>
  BY NextCall DEF Stored, Do, Running, OfRam, vars
<1>2. Made' /\ Filled' /\ ~spilled'
  <2>1. Calls("STORE", t)
    BY DEF Stored, Do, Running, Calls
  <2>2. Carries(posted[Top.req])
    BY <2>1, NextButOne DEF Handed
  <2> QED
    BY <1>1, <2>2, StoredIsFilled DEF Before, Passing
<1>3. Between'
  BY <1>1, <1>2 DEF Before, Between, LeadsOn
<1> QED
  BY <1>1, <1>2, <1>3 DEF Passing

\* ara_buffer_read() and printf() in onread().
LEMMA LoadPasses == ASSUME Passing, Handed, NEW t, Loaded(t) PROVE Passing'
<1>1. Between /\ script' \in ScriptsAfter /\ sent = {} /\ UNCHANGED <<range, sent>>
  BY NextCall DEF Loaded, Do, Running, OfRam, vars
<1>2. shown' = <<Text>> /\ ~spilled'
  <2>1. Calls("LOAD", t)
    BY DEF Loaded, Do, Running, Calls
  <2>2. Names(posted[Top.req])
    BY <2>1, NextButOne DEF Handed
  <2> QED
    BY <1>1, <2>2, LoadedIsShown DEF Between, Passing
<1>3. After'
  BY <1>1, <1>2 DEF After, LeadsOn, Text
<1> QED
  BY <1>1, <1>2, <1>3 DEF Passing

\* ara_buffer_destroy() in onclose().
LEMMA DestroyPasses == ASSUME Passing, NEW t, RamDestroyed(t) PROVE Passing'
<1>1. /\ After /\ script' = <<>> /\ sent = {}
      /\ UNCHANGED <<range, sent, shown, spilled>>
  BY NextCall DEF RamDestroyed, Do, Running, OfRam, vars, Ram!BufferDestroy
<1>2. Over'
  BY <1>1 DEF After, Over, Text
<1> QED
  BY <1>1, <1>2 DEF Passing

\* The request that is delivered is the one that led on.
LEMMA DeliveryTells ==
  ASSUME Passing, NEW r \in Req, Delivered(r)
  PROVE  /\ script = <<>> /\ r \in sent /\ sent' = {}
         /\ script' \in {Code(op[r]), <<>>}
         /\ UNCHANGED <<range, shown, memory, static, posted>>
         /\ \/ Before /\ op[r] \in {"OPEN", "WRITE"}
            \/ Between /\ op[r] = "READ"
            \/ After /\ op[r] = "CLOSE"
<1>1. /\ script = <<>> /\ r \in sent /\ sent' = sent \ {r}
      /\ script' \in {Code(op[r]), <<>>}
      /\ UNCHANGED <<range, shown, memory, static, posted>>
  BY DEF Delivered, OfAra, OnAsyncBegin, BeginNoCallback, BeginWork, BeginUnserved, BeginJoin,
         BeginBadState, Deliver
<1>2. \/ Before /\ op[r] \in {"OPEN", "WRITE"}
      \/ Between /\ op[r] = "READ"
      \/ After /\ op[r] = "CLOSE"
  <2>1. script \notin ScriptsBefore \union ScriptsBetween \union ScriptsAfter /\ script # Main
    BY <1>1, MainScript, MainTailsLead, Rests
       DEF ScriptsBefore, ScriptsBetween, ScriptsAfter, Begins
  <2> QED
    BY <1>1, <2>1 DEF Passing, Start, Before, Between, After, Over, LeadsOn
<1>3. sent' = {}
  BY <1>1, <1>2 DEF Before, Between, After, LeadsOn
<1> QED
  BY <1>1, <1>2, <1>3

\* A worker is entered at the beginning of its code, or not at all.
LEMMA DeliveryPasses ==
  ASSUME Passing, NEW r \in Req, Delivered(r)
  PROVE  Passing'
<1>1. /\ script = <<>> /\ r \in sent /\ sent' = {}
      /\ script' \in {Code(op[r]), <<>>}
      /\ UNCHANGED <<range, shown, memory>>
      /\ \/ Before /\ op[r] \in {"OPEN", "WRITE"}
         \/ Between /\ op[r] = "READ"
         \/ After /\ op[r] = "CLOSE"
  BY DeliveryTells
<1>2. CASE script' = <<>>
  BY <1>1, <1>2 DEF Passing, Over, Before, Between, After, Text, memory
<1>3. CASE script' = Code(op[r])
  <2>1. Before' \/ Between' \/ After'
    <3>1. CASE Before /\ op[r] \in {"OPEN", "WRITE"}
      BY <1>1, <1>3, <3>1, WorkerScripts, MadeKept DEF Before, LeadsOn, ScriptsBefore, memory
    <3>2. CASE Between /\ op[r] = "READ"
      BY <1>1, <1>3, <3>2, WorkerScripts, MadeKept DEF Between, LeadsOn, ScriptsBetween, memory
    <3>3. CASE After /\ op[r] = "CLOSE"
      BY <1>1, <1>3, <3>3, WorkerScripts DEF After, LeadsOn, ScriptsAfter, Text
    <3> QED
      BY <1>1, <3>1, <3>2, <3>3
  <2> QED
    BY <1>1, <2>1 DEF Passing, memory
<1> QED
  BY <1>1, <1>2, <1>3

\* The request that leads on is not one whose handle is closing.
LEMMA ReturnPasses ==
  ASSUME OneOwner, Passing,
         WorkerReturns \/ NoCallback \/ \E r \in Req : HandleClosed(r)
  PROVE  Passing'
<1>1. /\ UNCHANGED <<script, range, sent, shown, memory>>
      /\ \A r \in sent : op'[r] = op[r]
  <2>1. CASE WorkerReturns
    BY <2>1 DEF WorkerReturns, ReturnWork, OfAra, requests
  <2>2. CASE NoCallback
    BY <2>2 DEF NoCallback, ReturnCallback, ReqEnd, OfAra
  <2>3. CASE \E r \in Req : HandleClosed(r)
    BY <2>3 DEF HandleClosed, OnUvClose, OfAra, OneOwner
  <2> QED
    BY <2>1, <2>2, <2>3
<1>2. /\ Start => Start'
      /\ Before => Before'
      /\ Between => Between'
      /\ After => After'
      /\ Over => Over'
  BY <1>1, MadeKept DEF Start, Before, Between, After, Over, LeadsOn, Text, memory
<1> QED
  BY <1>1, <1>2 DEF Passing, memory

-----------------------------------------------------------------------------
(***************************************************************************)
(* And hands on what it was given.                                         *)
(***************************************************************************)
\* A worker's struct is filled from what the program was given.
LEMMA FillingType ==
  ASSUME Simple, NEW t, DataFilled(t)
  PROVE  /\ Calls("FILL", t) /\ Serving /\ Top.req \in Req
         /\ t \in {"OPEN", "WRITE"}
         /\ Filling(t) \in Datas
         /\ static' = [static EXCEPT ![t] = Filling(t)]
         /\ UNCHANGED <<vars, range, posted>>
<1>1. Calls("FILL", t)
  BY DEF DataFilled, Do, Running, Calls
<1>2. Serving
  BY <1>1 DEF Simple, Handed
<1>3. Top.req \in Req
  BY <1>2 DEF Serving, Simple, Ownership, TypeOK
<1>4. t \in {"OPEN", "WRITE"}
  BY <1>1, NextButOne DEF Simple
<1>5. range.offset \in Nat /\ range.length \in Nat
  BY SimpleAssumption DEF Simple, Passing
<1>6. ASSUME t = "OPEN" PROVE Filling(t) \in Datas
  <2>1. Filling(t) = [offset |-> range.offset, length |-> range.length, data |-> "text"]
    BY <1>6 DEF Filling
  <2> QED
    BY <1>5, <2>1 DEF Datas
<1>7. ASSUME t = "WRITE" PROVE Filling(t) \in Datas
  <2>1. static["WRITE"] \in Datas /\ posted[Top.req] \in Datas
    BY <1>3 DEF Simple, Structs
  <2>2. Filling(t) = [static["WRITE"] EXCEPT !.offset = posted[Top.req].offset,
                                             !.length = posted[Top.req].length]
    BY <1>7 DEF Filling
  <2>3. posted[Top.req].offset \in Nat /\ posted[Top.req].length \in Nat
    BY <2>1 DEF Datas
  <2> QED
    BY <2>1, <2>2, <2>3 DEF Datas
<1> QED
  BY <1>1, <1>2, <1>3, <1>4, <1>6, <1>7 DEF DataFilled, Do

\* Every copy is of a struct.
LEMMA StructsStep ==
  ASSUME Simple, [SNext]_svars
  PROVE  Structs'
<1>1. static \in [{"OPEN", "WRITE"} -> Datas] /\ posted \in [Req -> Datas]
  BY DEF Simple, Structs
<1>2. NoData \in Datas
  BY DEF NoData, Datas
<1>3. ASSUME NEW t, DataFilled(t) PROVE Structs'
  BY <1>1, <1>3, FillingType DEF Structs
<1>4. ASSUME NEW t, RequestMade(t) PROVE Structs'
  <2>1. Given(t) \in Datas
    BY <1>1, <1>2 DEF Given
  <2> QED
    BY <1>1, <1>4, <2>1 DEF RequestMade, Structs
<1>5. ASSUME NEW r \in Req, HandleClosed(r) PROVE Structs'
  BY <1>1, <1>2, <1>5 DEF HandleClosed, OfAra, Structs
<1>6. CASE UNCHANGED <<static, posted>>
  BY <1>1, <1>6 DEF Structs
<1>7. CASE UNCHANGED svars
  BY <1>6, <1>7 DEF svars, program
<1>8. CASE RamMade \/ \E t \in Types : Stored(t) \/ Loaded(t) \/ RamDestroyed(t)
  BY <1>6, <1>8 DEF RamMade, Stored, Loaded, RamDestroyed, OfRam, program
<1>9. CASE \/ Initialised \/ LoopSet \/ \E t \in Types : WorkerSet(t) \/ DoneCalled(t)
           \/ \E r \in Req : Delivered(r)
           \/ WorkerReturns \/ NoCallback
  BY <1>6, <1>9 DEF Initialised, LoopSet, WorkerSet, DoneCalled, Delivered, WorkerReturns,
                    NoCallback, OfAra
<1> QED
  BY <1>3, <1>4, <1>5, <1>7, <1>8, <1>9 DEF SNext

\* The next call after a step is the only one that Handed speaks of.
LEMMA OnlyCall ==
  ASSUME NEW g, NEW u, Head(script') = Step(g, u)
  PROVE  \A f, t : Calls(f, t)' => f = g /\ t = u
BY StepParts DEF Calls

\* Nothing needs to have been handed on to main() or to no code at all.
LEMMA NoneHanded ==
  ASSUME sent' = {}, script' = <<>> \/ script' \in MainTails
  PROVE  Handed'
<1>1. \A f \in {"FILL", "STORE", "LOAD", "DONE"} : \A t : ~Calls(f, t)'
  BY MainTailsLead DEF Calls, Step
<1>2. ~Calls("MAKE", "WRITE")' /\ ~Calls("MAKE", "READ")'
  BY MainTailsLead DEF Calls, Step
<1> QED
  BY <1>1, <1>2 DEF Handed

\* A step of the loop hands on nothing.
LEMMA LoopHands ==
  ASSUME Handed, UNCHANGED <<script, range, static>>,
         sent' \subseteq sent, \A r \in sent' : op'[r] = op[r] /\ posted'[r] = posted[r],
         script # <<>> => ~Serving
  PROVE  Handed'
<1>1. \A f, t : Calls(f, t)' = Calls(f, t)
  BY DEF Calls
<1>2. \A f \in {"FILL", "STORE", "LOAD", "DONE"} : \A t : ~Calls(f, t)
  BY DEF Handed, Calls
<1>3. /\ Carries(static["OPEN"])' = Carries(static["OPEN"])
      /\ Names(static["WRITE"])' = Names(static["WRITE"])
      /\ \A r \in sent' : /\ Carries(posted[r])' = Carries(posted[r])
                         /\ Names(posted[r])' = Names(posted[r])
  BY DEF Carries, Names
<1> QED
  BY <1>1, <1>2, <1>3 DEF Handed

\* onopen() and onwrite() fill their struct.
LEMMA FillHands ==
  ASSUME Simple, NEW t, DataFilled(t)
  PROVE  Handed'
<1>1. /\ Calls("FILL", t) /\ Serving /\ Top.req \in Req
      /\ t \in {"OPEN", "WRITE"}
      /\ static' = [static EXCEPT ![t] = Filling(t)]
      /\ UNCHANGED <<vars, range, posted>>
  BY FillingType
<1>2. script # <<>> /\ Head(script) = Step("FILL", t) /\ script' = Tail(script) /\ sent = {}
  BY <1>1, NextCall DEF Calls, DataFilled, Do, Simple
<1>3. sent' = {} /\ Serving' /\ posted'[Top'.req] = posted[Top.req] /\ range' = range
  BY <1>1, <1>2 DEF vars, Serving, Top
<1>4. ASSUME t = "OPEN" PROVE Handed'
  <2>1. \A f, u : Calls(f, u)' => f = "DONE" /\ u = "OPEN"
    BY <1>1, <1>2, <1>4, NextButOne, OnlyCall DEF Tells, Simple
  <2>2. static'["OPEN"] = [offset |-> range.offset, length |-> range.length, data |-> "text"]
    BY <1>1, <1>4 DEF Filling, Simple, Structs
  <2>3. Carries(static["OPEN"])'
    BY <1>3, <2>2 DEF Carries, Names
  <2> QED
    BY <1>3, <2>1, <2>3 DEF Handed
<1>5. ASSUME t = "WRITE" PROVE Handed'
  <2>1. \A f, u : Calls(f, u)' => f = "STORE" /\ u = "WRITE"
    BY <1>1, <1>2, <1>5, NextButOne, OnlyCall DEF Tells, Simple
  <2>2. Carries(posted[Top.req])
    BY <1>1, <1>5 DEF Simple, Handed
  <2>3. static'["WRITE"] = [static["WRITE"] EXCEPT !.offset = posted[Top.req].offset,
                                                   !.length = posted[Top.req].length]
    BY <1>1, <1>5 DEF Filling, Simple, Structs
  <2>4. static["WRITE"] \in Datas
    BY DEF Simple, Structs, Datas
  <2>5. Names(static["WRITE"])'
    BY <1>3, <2>2, <2>3, <2>4 DEF Carries, Names, Datas
  <2>6. Carries(posted[Top.req])'
    BY <1>3, <2>2 DEF Carries, Names
  <2> QED
    BY <1>3, <2>1, <2>5, <2>6 DEF Handed
<1> QED
  BY <1>1, <1>4, <1>5

\* The memory is written, or read, and the request is still there.
LEMMA AccessHands ==
  ASSUME Simple, NEW t, Stored(t) \/ Loaded(t)
  PROVE  Handed'
<1>1. PICK f \in {"STORE", "LOAD"} :
        /\ Calls(f, t) /\ script' = Tail(script)
        /\ UNCHANGED <<vars, range, static, posted>>
  BY DEF Stored, Loaded, Do, Running, Calls, OfRam, program
<1>2. Serving' /\ sent' = {} /\ range' = range /\ static' = static
  <2>1. Serving /\ sent = {}
    BY <1>1, NextCall DEF Simple, Handed, Calls
  <2> QED
    BY <1>1, <2>1 DEF vars, Serving, Top
<1>3. CASE f = "STORE"
  <2>1. /\ t = "WRITE" /\ Names(static["WRITE"])
    BY <1>1, <1>3, NextButOne DEF Simple, Handed
  <2>2. \A g, u : Calls(g, u)' => g = "DONE" /\ u = "WRITE"
    BY <1>1, <1>3, <2>1, NextButOne, OnlyCall DEF Tells, Simple
  <2>3. Names(static["WRITE"])'
    BY <1>2, <2>1 DEF Names
  <2> QED
    BY <1>2, <2>2, <2>3 DEF Handed
<1>4. CASE f = "LOAD"
  <2>1. t = "READ"
    BY <1>1, <1>4, NextButOne DEF Simple
  <2>2. \A g, u : Calls(g, u)' => g = "DONE" /\ u = "READ"
    BY <1>1, <1>4, <2>1, NextButOne, OnlyCall DEF Tells, Simple
  <2> QED
    BY <1>2, <2>2 DEF Handed
<1> QED
  BY <1>1, <1>3, <1>4

\* After done() a worker has no claim on its request: what its next one needs
\* is in the static struct.
LEMMA DoneHands ==
  ASSUME Simple, NEW t, DoneCalled(t)
  PROVE  Handed'
<1>1. /\ Calls("DONE", t) /\ script' = Tail(script)
      /\ UNCHANGED <<range, static, posted, sent>>
  BY DEF DoneCalled, Do, Running, Calls, Done, OfAra
<1>2. sent' = {} /\ t \in {"OPEN", "WRITE", "READ", "CLOSE"}
  BY <1>1, NextCall, NextButOne DEF Calls, Simple
<1>3. /\ Carries(static["OPEN"])' = Carries(static["OPEN"])
      /\ Names(static["WRITE"])' = Names(static["WRITE"])
  BY <1>1 DEF Carries, Names
<1>4. ASSUME t = "OPEN" PROVE Handed'
  <2>1. \A g, u : Calls(g, u)' => g = "MAKE" /\ u = "WRITE"
    BY <1>1, <1>4, NextButOne, OnlyCall DEF Tells, Simple
  <2>2. Carries(static["OPEN"])'
    BY <1>1, <1>3, <1>4 DEF Simple, Handed
  <2> QED
    BY <1>2, <2>1, <2>2 DEF Handed
<1>5. ASSUME t = "WRITE" PROVE Handed'
  <2>1. \A g, u : Calls(g, u)' => g = "MAKE" /\ u = "READ"
    BY <1>1, <1>5, NextButOne, OnlyCall DEF Tells, Simple
  <2>2. Names(static["WRITE"])'
    BY <1>1, <1>3, <1>5 DEF Simple, Handed
  <2> QED
    BY <1>2, <2>1, <2>2 DEF Handed
<1>6. ASSUME t = "READ" PROVE Handed'
  <2>1. \A g, u : Calls(g, u)' => g = "MAKE" /\ u = "CLOSE"
    BY <1>1, <1>6, NextButOne, OnlyCall DEF Tells, Simple
  <2> QED
    BY <1>2, <2>1 DEF Handed
<1>7. ASSUME t = "CLOSE" PROVE Handed'
  <2>1. \A g, u : Calls(g, u)' => g = "DESTROY" /\ u = "CLOSE"
    BY <1>1, <1>7, NextButOne, OnlyCall DEF Tells, Simple
  <2> QED
    BY <1>2, <2>1 DEF Handed
<1> QED
  BY <1>2, <1>4, <1>5, <1>6, <1>7

\* The new request has what the struct had.
LEMMA RequestHands ==
  ASSUME Simple, NEW t \in Types, RequestMade(t)
  PROVE  Handed'
<1>1. /\ Calls("MAKE", t) /\ script' = Tail(script) /\ ApiCall(t)
      /\ posted' = [r \in Req |-> IF r \in sent' \ sent THEN Given(t) ELSE posted[r]]
      /\ UNCHANGED <<range, static>>
  BY DEF RequestMade, Do, Running, Calls
<1>2. sent = {} /\ script' = <<>>
  BY <1>1, NextCall DEF Calls, Simple
<1>3. \A f, u : ~Calls(f, u)'
  BY <1>2 DEF Calls
<1>4. \A r \in sent' : r \in Req /\ op'[r] = t
  BY <1>1, <1>2 DEF ApiCall, CallAccepted, CallBadState, CallNoLoop, CallNoCallback,
                    CallInitFails, AraThrow, requests, Simple, Ownership, TypeOK
<1>5. \A r \in sent' : posted'[r] = Given(t)
  BY <1>1, <1>2, <1>4
<1>6. t = "WRITE" => Carries(Given(t))
  BY <1>1 DEF Simple, Handed, Given
<1>7. t = "READ" => Names(Given(t))
  BY <1>1 DEF Simple, Handed, Given
<1>8. ASSUME NEW r \in sent'
      PROVE  /\ op'[r] = "WRITE" => Carries(posted[r])'
             /\ op'[r] = "READ" => Names(posted[r])'
  <2>1. posted'[r] = Given(t) /\ op'[r] = t /\ range' = range
    BY <1>1, <1>4, <1>5
  <2> QED
    BY <1>6, <1>7, <2>1 DEF Carries, Names
<1> QED
  BY <1>3, <1>8 DEF Handed

\* A worker is entered with the request it serves.
LEMMA DeliveryHands ==
  ASSUME Simple, NEW r \in Req, Delivered(r)
  PROVE  Handed'
<1>1. /\ script = <<>> /\ r \in sent /\ sent' = {}
      /\ script' \in {Code(op[r]), <<>>}
      /\ UNCHANGED <<range, static, posted>>
      /\ op[r] \in {"OPEN", "WRITE", "READ", "CLOSE"}
  BY DeliveryTells DEF Simple
<1>2. CASE script' = <<>>
  BY <1>1, <1>2, NoneHanded
<1>3. CASE script' = Code(op[r]) /\ script' # <<>>
  <2>1. BeginWork(r)
    <3>1. stack' # <<>> /\ stack'[1].kind = "work" /\ OnAsyncBegin(r) /\ stack = <<>>
      BY <1>3 DEF Delivered, OnAsyncBegin, Deliver, BeginNoCallback, BeginWork, BeginUnserved,
                  BeginJoin, BeginBadState
    <3> QED
      BY <3>1 DEF OnAsyncBegin, BeginNoCallback, BeginUnserved, BeginJoin, BeginBadState,
                  OnDone, DropPending, DropBadState, Notify, Enter
  <2>2. Serving' /\ Top'.req = r
    <3>1. stack' = <<[kind |-> "work", req |-> r]>> /\ r \in held'
      BY <2>1 DEF BeginWork, Deliver, Enter
    <3> QED
      BY <3>1 DEF Serving, Top
  <2>3. /\ op[r] = "WRITE" => Carries(posted[Top.req])'
        /\ op[r] = "READ" => Names(posted[Top.req])'
    BY <1>1, <2>2 DEF Simple, Handed, Carries, Names
  <2>4. \/ op[r] = "OPEN" /\ \A f, u : Calls(f, u)' => f = "FILL" /\ u = "OPEN"
        \/ op[r] = "WRITE" /\ \A f, u : Calls(f, u)' => f = "FILL" /\ u = "WRITE"
        \/ op[r] = "READ" /\ \A f, u : Calls(f, u)' => f = "LOAD" /\ u = "READ"
        \/ op[r] = "CLOSE" /\ \A f, u : Calls(f, u)' => f = "DONE" /\ u = "CLOSE"
    BY <1>1, <1>3, WorkerScripts, Rests, OnlyCall DEF Begins
  <2> QED
    BY <1>1, <2>2, <2>3, <2>4 DEF Handed
<1> QED
  BY <1>1, <1>2, <1>3

\* What the next call relies on has been handed on to it.
LEMMA HandedStep ==
  ASSUME Simple, SNext
  PROVE  Handed'
<1>1. Passing /\ Handed /\ OneOwner
  BY DEF Simple, Ownership
<1>2. ASSUME RamMade PROVE Handed'
  <2>1. Start /\ script' = Tail(Main) /\ sent' = {}
    BY <1>1, <1>2, NextCall DEF RamMade, Do, Running, OfRam, vars, Start
  <2> QED
    BY <2>1, MainScript, NoneHanded
<1>3. ASSUME Initialised \/ LoopSet \/ \E t \in Types : WorkerSet(t) PROVE Handed'
  <2>1. PICK f \in {"INIT", "LOOP", "SET"} : \E t : Do(f, t) /\ UNCHANGED requests
    BY <1>3 DEF Initialised, LoopSet, WorkerSet, AraInit, AraSetLoop, AraSet
  <2>2. script' \in MainTails /\ sent' = {}
    BY <1>1, <2>1, NextCall DEF Do, Running, requests
  <2> QED
    BY <2>2, NoneHanded
<1>4. ASSUME NEW t, RamDestroyed(t) PROVE Handed'
  <2>1. script' = <<>> /\ sent' = {}
    BY <1>1, <1>4, NextCall DEF RamDestroyed, Do, Running, OfRam, vars
  <2> QED
    BY <2>1, NoneHanded
<1>5. ASSUME WorkerReturns \/ \E r \in Req : HandleClosed(r) PROVE Handed'
  <2>1. /\ UNCHANGED <<script, range, static, sent>> /\ script = <<>>
        /\ \A r \in sent : op'[r] = op[r] /\ posted'[r] = posted[r]
    <3>1. CASE WorkerReturns
      BY <3>1 DEF WorkerReturns, ReturnWork, OfAra, requests
    <3>2. CASE \E r \in Req : HandleClosed(r)
      BY <1>1, <3>2 DEF HandleClosed, OnUvClose, OfAra, OneOwner
    <3> QED
      BY <1>5, <3>1, <3>2
  <2> QED
    BY <1>1, <2>1, LoopHands
<1>6. ASSUME NoCallback PROVE Handed'
  <2>1. /\ UNCHANGED <<script, range, static, sent, op, posted>> /\ ~Serving
    BY <1>6 DEF NoCallback, ReturnCallback, ReqEnd, OfAra, Serving
  <2> QED
    BY <1>1, <2>1, LoopHands
<1> QED
  BY <1>2, <1>3, <1>4, <1>5, <1>6, FillHands, AccessHands, DoneHands, RequestHands, DeliveryHands
     DEF SNext

\* The parts of the invariant, which need each other.
LEMMA SimpleStep == Simple /\ [SNext]_svars => Simple'
<1> SUFFICES ASSUME Simple, [SNext]_svars PROVE Simple'
  OBVIOUS
<1>1. Ownership /\ TypeOK /\ OneOwner /\ Passing /\ Handed
  BY DEF Simple, Ownership
<1>2. Ownership'
  BY <1>1, SessionSteps, OwnershipStep
<1>3. CASE UNCHANGED svars
  <2>1. UNCHANGED <<vars, script, range, static, posted, shown, memory>>
    BY <1>3 DEF svars, program
  <2>2. Passing'
    BY <1>1, <2>1, MadeKept
       DEF vars, memory, Passing, Start, Before, Between, After, Over, LeadsOn, Text
  <2>3. Handed'
    BY <1>1, <2>1 DEF vars, Handed, Calls, Serving, Top, Carries, Names
  <2> QED
    BY <1>2, <2>2, <2>3, StructsStep DEF Simple
<1>4. CASE SNext
  <2>1. Passing'
    BY <1>1, <1>4, MakingPasses, SettingPasses, MakeRequestPasses, DonePasses, FillPasses,
       StorePasses, LoadPasses, DestroyPasses, DeliveryPasses, ReturnPasses DEF SNext
  <2> QED
    BY <1>2, <1>4, <2>1, StructsStep, HandedStep DEF Simple
<1> QED
  BY <1>3, <1>4

LEMMA SimpleInvariant == SInit /\ [][SNext]_svars => []Simple
BY SimpleInit, SimpleStep, PTL

\* The program prints nothing, or what it has written and all of it, and never
\* touches memory outside its own (EchoesText): whatever the length of the
\* memory and the range in it, and whichever of its requests libara refuses.
THEOREM SimpleEchoes == SFairSpec => []EchoesText
<1>1. Simple => EchoesText
  BY DEF Simple, Passing, EchoesText, Start, Before, Between, After, Over
<1> QED
  BY <1>1, SimpleInvariant, PTL DEF SFairSpec

\* The program is a client as Ara describes them: its steps are steps of Ara,
\* so that whatever is proved of a session of Ara holds of its session.
THEOREM SimpleUsesAra == SFairSpec => Spec
<1>1. Simple /\ [SNext]_svars => [Next]_vars
  BY SessionSteps DEF Simple, Ownership
<1>2. SInit => Init
  BY DEF SInit
<1> QED
  BY <1>1, <1>2, SimpleInvariant, PTL DEF SFairSpec, Spec
=============================================================================
