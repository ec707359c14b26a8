------------------------ MODULE ContainerTransferProofs ------------------------
(***************************************************************************)
(* Theorems about ContainerTransfer (and FileTools, which it extends) for  *)
(* any number of calls of the file tools, with a proxy or without, and any *)
(* number of failures.                                                     *)
(*                                                                         *)
(* HandlerOK says what the place of a handler tells of its call, PlaceOK   *)
(* where a call is between its client and its answer: in one queue or with *)
(* one loop of the proxy at a time.  The refinement of TransferContract    *)
(* rests on both.                                                          *)
(***************************************************************************)
EXTENDS ContainerTransfer, TLAPS

(* The handlers. *)
HandlerOK(r) ==
    /\ at[r] \in {"upload", "send"} => kind[r] = "send"
    /\ at[r] \in {"open", "write"} => kind[r] = "save"
    /\ at[r] \in {"get", "probe"} => kind[r] = "get"
    /\ r \in admitted <=> managed /\ at[r] \in Working
    /\ at[r] \in {"admit", "client", "upload", "send", "open", "write", "get"} => r \notin read
    /\ at[r] = "release" /\ r \in read => result[r] = "ok"
    /\ r \in written => kind[r] = "save"
    /\ result[r] = "ok" /\ kind[r] = "save" => r \in written

ToolInv == TypeOK /\ \A r \in Request : HandlerOK(r)

(* Where the proxy has a call. *)
Queued(r) == \E i \in 1 .. Len(lines) : lines[i] = <<"call", r>>
Visited(r) == input \in {"stage", "undo", "refuse"} /\ visiting = r
Returning(r) == \E i \in 1 .. Len(answers) : answers[i][1] = r
Served(r) == output \in {"copy", "remove"} /\ serving = r

(* No server has seen it. *)
Waiting(r) == call[r] = "new" \/ Queued(r) \/ Visited(r)

PlaceOK(r) ==
    /\ Queued(r) \/ Visited(r) => call[r] = "open"
    /\ Visited(r) => ~Queued(r)
    /\ Waiting(r) => /\ at[r] = "off" /\ r \notin read
                     /\ ~Returning(r) /\ r \notin table /\ ~Served(r)
    /\ at[r] # "off" => /\ call[r] = "open" /\ ~Returning(r) /\ ~Served(r)
                        /\ container /\ kind[r] # "get" => r \in table /\ r \in staged
    /\ Returning(r) => call[r] = "open" /\ ~Served(r) /\ (kind[r] # "get" => r \in table)
    /\ r \in table => call[r] = "open" /\ ~Served(r)
    /\ output = "copy" /\ serving = r => call[r] = "open" /\ kind[r] = "save"
    /\ input = "stage" /\ visiting = r => r \in staged
    /\ input = "refuse" /\ visiting = r => r \notin staged
    /\ r \in staged => r \in table \/ Visited(r) \/ Served(r)

LinesOnce == \A i, j \in 1 .. Len(lines) :
    lines[i] = lines[j] /\ lines[i][1] = "call" => i = j
AnswersOnce == \A i, j \in 1 .. Len(answers) : answers[i][1] = answers[j][1] => i = j

(* Which parts there are. *)
PartsOK ==
    /\ input \in {"stage", "undo", "refuse"} => visiting \in Request
    /\ output \in {"copy", "remove"} => serving \in Request
    /\ server = "exited" => \A r \in Request : at[r] = "off"
    /\ stopping => server = "exited" /\ container
    /\ ~container => /\ lines = <<>> /\ answers = <<>> /\ table = {} /\ staged = {}
                     /\ input = "read" /\ output = "read"
                     /\ connector = "up" <=> server = "up"
    /\ container /\ connector = "gone" =>
          /\ input = "end" /\ output = "read" /\ answers = <<>> /\ table = {} /\ stopping

IInv == ProxyTypeOK /\ ToolInv /\ LinesOnce /\ AnswersOnce /\ PartsOK /\ \A r \in Request : PlaceOK(r)

------------------------------------------------------------------------------
(* The handlers, one step at a time. *)

(* A step of r's handler is none of another's. *)
Others(r) == \A q \in Request \ {r} :
    /\ at'[q] = at[q] /\ result'[q] = result[q]
    /\ q \in admitted' <=> q \in admitted
    /\ q \in read' <=> q \in read
    /\ q \in written' <=> q \in written

LEMMA OthersOK ==
  ASSUME ToolInv, NEW r \in Request, UNCHANGED tool, Others(r), TypeOK', HandlerOK(r)'
  PROVE  ToolInv'
<1>1. ASSUME NEW q \in Request PROVE HandlerOK(q)'
  <2>1. CASE q = r
    BY <2>1
  <2>2. CASE q # r
    BY <2>2 DEF ToolInv, HandlerOK, Others, tool
  <2> QED BY <2>1, <2>2
<1> QED BY <1>1 DEF ToolInv

LEMMA FailsType == ASSUME TypeOK, Fails \/ UNCHANGED failures PROVE failures' \in 0 .. MaxFailures
BY MaxFailuresAssumption DEF TypeOK, Fails

LEMMA HandlerStepOK ==
  ASSUME ToolInv, NEW r \in Request, HandlerStep(r)
  PROVE  /\ ToolInv' /\ UNCHANGED tool
         /\ at[r] # "off" /\ at'[r] # "off"
         /\ \A q \in Request \ {r} : at'[q] = at[q] /\ (q \in read' <=> q \in read)
<1>1. UNCHANGED tool
  BY DEF HandlerStep, Admit, Client, Upload, Send, Open, Write, Get, Probe, Release
<1>2. failures' \in 0 .. MaxFailures
  <2>1. Fails \/ UNCHANGED failures
    BY DEF HandlerStep, Admit, Client, Upload, Send, Open, Write, Get, Probe, Release,
           GoesOrFails, StartsOver, WriteRejects, GetRefused
  <2> QED BY <2>1, FailsType DEF ToolInv
<1>3. /\ at[r] \in Working \cup {"admit"}
      /\ \E to \in Working \cup {"reply"} : at' = [at EXCEPT ![r] = to]
      /\ result' = result \/ \E how \in Results : result' = [result EXCEPT ![r] = how]
  BY DEF HandlerStep, Admit, Client, Upload, Send, Open, Write, Get, Probe, Release,
         GoesOrFails, StartsOver, WriteRejects, GetRefused, Goes, Ends, Working, Results
<1>4. /\ admitted' \in {admitted, admitted \cup {r}, admitted \ {r}}
      /\ aborted' = aborted
      /\ again' \in {again, again \cup {r}}
      /\ read' \in {read, read \cup {r}}
      /\ written' \in {written, written \cup {r}}
  BY DEF HandlerStep, Admit, Client, Upload, Send, Open, Write, Get, Probe, Release,
         StartsOver, GetRefused, effects
<1>5. TypeOK'
  BY <1>1, <1>2, <1>3, <1>4 DEF ToolInv, TypeOK, tool, Working
<1>6. Others(r)
  BY <1>3, <1>4 DEF ToolInv, TypeOK, Others
<1>7. HandlerOK(r) /\ at \in [Request -> {"off", "admit", "reply"} \cup Working]
      /\ result \in [Request -> Results]
  BY DEF ToolInv, TypeOK
<1>8. ASSUME Admit(r) PROVE HandlerOK(r)'
  BY <1>1, <1>7, <1>8 DEF Admit, Goes, HandlerOK, Working, Results, tool, effects
<1>9. ASSUME Client(r) PROVE HandlerOK(r)'
  BY <1>1, <1>7, <1>9
     DEF Client, GoesOrFails, Goes, Ends, HandlerOK, Working, Results, tool, effects
<1>10. ASSUME Upload(r) PROVE HandlerOK(r)'
  BY <1>1, <1>7, <1>10
     DEF Upload, StartsOver, GoesOrFails, Goes, Ends, HandlerOK, Working, Results, tool, effects
<1>11. ASSUME Send(r) PROVE HandlerOK(r)'
  BY <1>1, <1>7, <1>11
     DEF Send, StartsOver, Goes, Ends, HandlerOK, Working, Results, tool, effects
<1>12. ASSUME Open(r) PROVE HandlerOK(r)'
  BY <1>1, <1>7, <1>12
     DEF Open, GoesOrFails, Goes, Ends, HandlerOK, Working, Results, tool, effects
<1>13. ASSUME Write(r) PROVE HandlerOK(r)'
  BY <1>1, <1>7, <1>13
     DEF Write, WriteRejects, Ends, HandlerOK, Working, Results, tool
<1>14. ASSUME Get(r) PROVE HandlerOK(r)'
  BY <1>1, <1>7, <1>14 DEF Get, GetRefused, Goes, Ends, HandlerOK, Working, Results, tool
<1>15. ASSUME Probe(r) PROVE HandlerOK(r)'
  BY <1>1, <1>7, <1>15 DEF Probe, Ends, HandlerOK, Working, Results, tool, effects
<1>16. ASSUME Release(r) PROVE HandlerOK(r)'
  BY <1>1, <1>7, <1>16 DEF Release, HandlerOK, Working, Results, tool, effects
<1>17. ToolInv'
  BY <1>1, <1>5, <1>6, <1>8, <1>9, <1>10, <1>11, <1>12, <1>13, <1>14, <1>15, <1>16, OthersOK
     DEF HandlerStep
<1> QED BY <1>1, <1>3, <1>6, <1>7, <1>17 DEF Others, Working

LEMMA AcceptOK ==
  ASSUME ToolInv, NEW r \in Request, at[r] = "off", r \notin read, Accept(r), UNCHANGED tool
  PROVE  ToolInv' /\ at' = [at EXCEPT ![r] = "admit"] /\ UNCHANGED read
<1>1. TypeOK'
  BY DEF ToolInv, TypeOK, Accept, tool
<1>2. Others(r)
  BY DEF ToolInv, TypeOK, Accept, Others
<1>3. HandlerOK(r)'
  BY DEF ToolInv, TypeOK, Accept, HandlerOK, Working, tool
<1> QED BY <1>1, <1>2, <1>3, OthersOK DEF Accept

LEMMA AbortOK ==
  ASSUME ToolInv, NEW r \in Request, Abort(r), UNCHANGED tool
  PROVE  ToolInv' /\ UNCHANGED <<at, read>>
BY DEF ToolInv, TypeOK, HandlerOK, Abort, tool

LEMMA RepliedOK ==
  ASSUME ToolInv, NEW r \in Request, Replied(r)
  PROVE  ToolInv' /\ at[r] = "reply" /\ at' = [at EXCEPT ![r] = "off"] /\ UNCHANGED <<kind, read>>
<1>1. TypeOK'
  BY DEF ToolInv, TypeOK, Replied, tool, effects
<1>2. Others(r)
  BY DEF ToolInv, TypeOK, Replied, Others, effects
<1>3. HandlerOK(r)'
  BY DEF ToolInv, TypeOK, Replied, HandlerOK, Working, tool, effects
<1> QED BY <1>1, <1>2, <1>3, OthersOK DEF Replied, tool, effects

LEMMA KilledOK ==
  ASSUME ToolInv, Killed, Fails \/ UNCHANGED failures
  PROVE  ToolInv' /\ (\A r \in Request : at'[r] = "off") /\ UNCHANGED <<kind, read>>
<1>1. TypeOK'
  BY FailsType DEF ToolInv, TypeOK, Killed, tool, effects
<1>2. ASSUME NEW r \in Request PROVE HandlerOK(r)'
  BY DEF ToolInv, TypeOK, Killed, HandlerOK, Working, tool, effects
<1> QED BY <1>1, <1>2 DEF ToolInv, Killed, tool, effects

(* Nothing but the count of failures changes. *)
LEMMA AsideOK ==
  ASSUME ToolInv, UNCHANGED <<tool, at, admitted, aborted, again, effects, result>>,
         Fails \/ UNCHANGED failures
  PROVE  ToolInv'
<1>1. TypeOK'
  BY FailsType DEF ToolInv, TypeOK, tool, effects
<1> QED BY <1>1 DEF ToolInv, HandlerOK, tool, effects

------------------------------------------------------------------------------
(* The queues between the processes. *)

LEMMA TailOf ==
  ASSUME NEW S, NEW s \in Seq(S), s # <<>>
  PROVE  /\ Tail(s) \in Seq(S) /\ Head(s) = s[1] /\ Head(s) \in S
         /\ Len(s) \in Nat /\ 1 \in 1 .. Len(s) /\ Len(Tail(s)) = Len(s) - 1
         /\ \A i \in 1 .. Len(Tail(s)) : Tail(s)[i] = s[i + 1]
OBVIOUS

LEMMA AppendOf ==
  ASSUME NEW S, NEW s \in Seq(S), NEW e \in S
  PROVE  /\ Append(s, e) \in Seq(S) /\ Len(s) \in Nat /\ Len(Append(s, e)) = Len(s) + 1
         /\ \A i \in 1 .. Len(s) : Append(s, e)[i] = s[i]
         /\ Append(s, e)[Len(s) + 1] = e
OBVIOUS

(* A line that has been read is not in the queue any more. *)
LEMMA LineRead ==
  ASSUME ProxyTypeOK, LinesOnce, NEW what, ReadsLine(what)
  PROVE  /\ lines' \in Seq({"call", "cancel"} \X Request) /\ LinesOnce'
         /\ Line \in Request
         /\ \A q \in Request : q # Line \/ what # "call" => (Queued(q)' <=> Queued(q))
         /\ \A q \in Request : q = Line /\ what = "call" => Queued(q) /\ ~Queued(q)'
<1> DEFINE L == {"call", "cancel"} \X Request
<1>1. lines \in Seq(L) /\ lines # <<>> /\ lines' = Tail(lines) /\ Head(lines)[1] = what
  BY DEF ProxyTypeOK, ReadsLine
<1>2. /\ Tail(lines) \in Seq(L) /\ Head(lines) = lines[1] /\ Head(lines) \in L
      /\ Len(lines) \in Nat /\ 1 \in 1 .. Len(lines) /\ Len(Tail(lines)) = Len(lines) - 1
      /\ \A i \in 1 .. Len(Tail(lines)) : Tail(lines)[i] = lines[i + 1]
  BY <1>1, TailOf
<1>3. Line \in Request /\ lines[1] = <<what, Line>>
  BY <1>1, <1>2 DEF Line
<1>4. LinesOnce'
  BY <1>1, <1>2 DEF LinesOnce
<1>5. ASSUME NEW q \in Request, q # Line \/ what # "call" PROVE Queued(q)' <=> Queued(q)
  <2>1. lines[1] # <<"call", q>>
    BY <1>3, <1>5
  <2>2. ASSUME Queued(q) PROVE Queued(q)'
    <3>1. PICK i \in 1 .. Len(lines) : lines[i] = <<"call", q>>
      BY <2>2 DEF Queued
    <3>2. i - 1 \in 1 .. Len(Tail(lines)) /\ (i - 1) + 1 = i
      BY <1>2, <2>1, <3>1
    <3>3. Tail(lines)[i - 1] = <<"call", q>>
      BY <1>2, <3>1, <3>2
    <3> QED BY <1>1, <3>2, <3>3 DEF Queued
  <2>3. ASSUME Queued(q)' PROVE Queued(q)
    <3>1. PICK i \in 1 .. Len(Tail(lines)) : Tail(lines)[i] = <<"call", q>>
      BY <1>1, <2>3 DEF Queued
    <3>2. i + 1 \in 1 .. Len(lines) /\ lines[i + 1] = <<"call", q>>
      BY <1>2, <3>1
    <3> QED BY <3>2 DEF Queued
  <2> QED BY <2>2, <2>3
<1>6. ASSUME NEW q \in Request, q = Line, what = "call" PROVE Queued(q) /\ ~Queued(q)'
  <2>1. Queued(q)
    BY <1>2, <1>3, <1>6 DEF Queued
  <2>2. ASSUME NEW i \in 1 .. Len(Tail(lines)), Tail(lines)[i] = <<"call", q>> PROVE FALSE
    <3>1. i + 1 \in 1 .. Len(lines) /\ lines[i + 1] = lines[1] /\ lines[1][1] = "call"
      BY <1>2, <1>3, <1>6, <2>2
    <3>2. i + 1 = 1
      BY <1>2, <3>1 DEF LinesOnce
    <3> QED BY <1>2, <3>2
  <2> QED BY <1>1, <2>1, <2>2 DEF Queued
<1> QED BY <1>1, <1>2, <1>3, <1>4, <1>5, <1>6

(* A line of the client comes last. *)
LEMMA LineWritten ==
  ASSUME ProxyTypeOK, LinesOnce, NEW what \in {"call", "cancel"}, NEW r \in Request,
         what = "call" => ~Queued(r), lines' = Append(lines, <<what, r>>)
  PROVE  /\ lines' \in Seq({"call", "cancel"} \X Request) /\ LinesOnce'
         /\ \A q \in Request : Queued(q)' <=> Queued(q) \/ (what = "call" /\ q = r)
<1> DEFINE L == {"call", "cancel"} \X Request
<1>1. lines \in Seq(L) /\ <<what, r>> \in L
  BY DEF ProxyTypeOK
<1>2. /\ lines' \in Seq(L) /\ Len(lines) \in Nat /\ Len(lines') = Len(lines) + 1
      /\ \A i \in 1 .. Len(lines) : lines'[i] = lines[i]
      /\ lines'[Len(lines) + 1] = <<what, r>>
  BY <1>1, AppendOf
<1>3. ASSUME NEW q \in Request PROVE Queued(q)' <=> Queued(q) \/ (what = "call" /\ q = r)
  <2>1. ASSUME Queued(q)' PROVE Queued(q) \/ (what = "call" /\ q = r)
    <3>1. PICK i \in 1 .. Len(lines') : lines'[i] = <<"call", q>>
      BY <2>1 DEF Queued
    <3>2. CASE i \in 1 .. Len(lines)
      BY <1>2, <3>1, <3>2 DEF Queued
    <3>3. CASE i = Len(lines) + 1
      BY <1>2, <3>1, <3>3
    <3> QED BY <1>2, <3>2, <3>3
  <2>2. ASSUME Queued(q) PROVE Queued(q)'
    <3>1. PICK i \in 1 .. Len(lines) : lines[i] = <<"call", q>>
      BY <2>2 DEF Queued
    <3>2. i \in 1 .. Len(lines') /\ lines'[i] = <<"call", q>>
      BY <1>2, <3>1
    <3> QED BY <3>2 DEF Queued
  <2>3. ASSUME what = "call", q = r PROVE Queued(q)'
    <3>1. Len(lines) + 1 \in 1 .. Len(lines')
      BY <1>2
    <3> QED BY <1>2, <2>3, <3>1 DEF Queued
  <2> QED BY <2>1, <2>2, <2>3
<1>4. ASSUME NEW i \in 1 .. Len(lines'), NEW j \in 1 .. Len(lines'),
             lines'[i] = lines'[j], lines'[i][1] = "call"
      PROVE  i = j
  <2>1. CASE i \in 1 .. Len(lines) /\ j \in 1 .. Len(lines)
    BY <1>2, <1>4, <2>1 DEF LinesOnce
  <2>2. CASE i = Len(lines) + 1 /\ j \in 1 .. Len(lines)
    <3>1. what = "call" /\ lines[j] = <<"call", r>>
      BY <1>2, <1>4, <2>2
    <3> QED BY <2>2, <3>1 DEF Queued
  <2>3. CASE j = Len(lines) + 1 /\ i \in 1 .. Len(lines)
    <3>1. what = "call" /\ lines[i] = <<"call", r>>
      BY <1>2, <1>4, <2>3
    <3> QED BY <2>3, <3>1 DEF Queued
  <2>4. CASE i = Len(lines) + 1 /\ j = Len(lines) + 1
    BY <2>4
  <2> QED BY <1>2, <2>1, <2>2, <2>3, <2>4
<1> QED BY <1>2, <1>3, <1>4 DEF LinesOnce

(* The same of the server's answers, of which each call has one. *)
LEMMA AnswerRead ==
  ASSUME ProxyTypeOK, AnswersOnce, answers # <<>>, answers' = Tail(answers)
  PROVE  /\ answers' \in Seq(Request \X Results) /\ AnswersOnce'
         /\ Head(answers) \in Request \X Results
         /\ \A q \in Request : q # Head(answers)[1] => (Returning(q)' <=> Returning(q))
         /\ \A q \in Request : q = Head(answers)[1] => Returning(q) /\ ~Returning(q)'
<1> DEFINE A == Request \X Results
<1>1. answers \in Seq(A)
  BY DEF ProxyTypeOK
<1>2. /\ Tail(answers) \in Seq(A) /\ Head(answers) = answers[1] /\ Head(answers) \in A
      /\ Len(answers) \in Nat /\ 1 \in 1 .. Len(answers)
      /\ Len(Tail(answers)) = Len(answers) - 1
      /\ \A i \in 1 .. Len(Tail(answers)) : Tail(answers)[i] = answers[i + 1]
  BY <1>1, TailOf
<1>3. AnswersOnce'
  BY <1>1, <1>2 DEF AnswersOnce
<1>4. ASSUME NEW q \in Request, q # Head(answers)[1] PROVE Returning(q)' <=> Returning(q)
  <2>1. ASSUME Returning(q) PROVE Returning(q)'
    <3>1. PICK i \in 1 .. Len(answers) : answers[i][1] = q
      BY <2>1 DEF Returning
    <3>2. i - 1 \in 1 .. Len(Tail(answers)) /\ (i - 1) + 1 = i
      BY <1>2, <1>4, <3>1
    <3>3. Tail(answers)[i - 1][1] = q
      BY <1>2, <3>1, <3>2
    <3> QED BY <3>2, <3>3 DEF Returning
  <2>2. ASSUME Returning(q)' PROVE Returning(q)
    <3>1. PICK i \in 1 .. Len(Tail(answers)) : Tail(answers)[i][1] = q
      BY <2>2 DEF Returning
    <3>2. i + 1 \in 1 .. Len(answers) /\ answers[i + 1][1] = q
      BY <1>2, <3>1
    <3> QED BY <3>2 DEF Returning
  <2> QED BY <2>1, <2>2
<1>5. ASSUME NEW q \in Request, q = Head(answers)[1] PROVE Returning(q) /\ ~Returning(q)'
  <2>1. Returning(q)
    BY <1>2, <1>5 DEF Returning
  <2>2. ASSUME NEW i \in 1 .. Len(Tail(answers)), Tail(answers)[i][1] = q PROVE FALSE
    <3>1. i + 1 \in 1 .. Len(answers) /\ answers[i + 1][1] = answers[1][1]
      BY <1>2, <1>5, <2>2
    <3>2. i + 1 = 1
      BY <1>2, <3>1 DEF AnswersOnce
    <3> QED BY <1>2, <3>2
  <2> QED BY <2>1, <2>2 DEF Returning
<1> QED BY <1>2, <1>3, <1>4, <1>5

LEMMA AnswerWritten ==
  ASSUME ProxyTypeOK, AnswersOnce, NEW r \in Request, NEW how \in Results, ~Returning(r),
         answers' = Append(answers, <<r, how>>)
  PROVE  /\ answers' \in Seq(Request \X Results) /\ AnswersOnce'
         /\ \A q \in Request : Returning(q)' <=> Returning(q) \/ q = r
<1> DEFINE A == Request \X Results
<1>1. answers \in Seq(A) /\ <<r, how>> \in A
  BY DEF ProxyTypeOK
<1>2. /\ answers' \in Seq(A) /\ Len(answers) \in Nat /\ Len(answers') = Len(answers) + 1
      /\ \A i \in 1 .. Len(answers) : answers'[i] = answers[i]
      /\ answers'[Len(answers) + 1] = <<r, how>>
  BY <1>1, AppendOf
<1>3. ASSUME NEW q \in Request PROVE Returning(q)' <=> Returning(q) \/ q = r
  <2>1. ASSUME Returning(q)' PROVE Returning(q) \/ q = r
    <3>1. PICK i \in 1 .. Len(answers') : answers'[i][1] = q
      BY <2>1 DEF Returning
    <3>2. CASE i \in 1 .. Len(answers)
      BY <1>2, <3>1, <3>2 DEF Returning
    <3>3. CASE i = Len(answers) + 1
      BY <1>2, <3>1, <3>3
    <3> QED BY <1>2, <3>2, <3>3
  <2>2. ASSUME Returning(q) PROVE Returning(q)'
    <3>1. PICK i \in 1 .. Len(answers) : answers[i][1] = q
      BY <2>2 DEF Returning
    <3>2. i \in 1 .. Len(answers') /\ answers'[i][1] = q
      BY <1>2, <3>1
    <3> QED BY <3>2 DEF Returning
  <2>3. ASSUME q = r PROVE Returning(q)'
    <3>1. Len(answers) + 1 \in 1 .. Len(answers')
      BY <1>2
    <3> QED BY <1>2, <2>3, <3>1 DEF Returning
  <2> QED BY <2>1, <2>2, <2>3
<1>4. ASSUME NEW i \in 1 .. Len(answers'), NEW j \in 1 .. Len(answers'),
             answers'[i][1] = answers'[j][1]
      PROVE  i = j
  <2>1. CASE i \in 1 .. Len(answers) /\ j \in 1 .. Len(answers)
    BY <1>2, <1>4, <2>1 DEF AnswersOnce
  <2>2. CASE i = Len(answers) + 1 /\ j \in 1 .. Len(answers)
    BY <1>2, <1>4, <2>2 DEF Returning
  <2>3. CASE j = Len(answers) + 1 /\ i \in 1 .. Len(answers)
    BY <1>2, <1>4, <2>3 DEF Returning
  <2>4. CASE i = Len(answers) + 1 /\ j = Len(answers) + 1
    BY <2>4
  <2> QED BY <1>2, <2>1, <2>2, <2>3, <2>4
<1> QED BY <1>2, <1>3, <1>4 DEF AnswersOnce

------------------------------------------------------------------------------
(* The steps of client, server and proxy. *)

RestTypeOK ==
    /\ container \in BOOLEAN
    /\ call \in [Request -> {"new", "open", "ok", "error"}]
    /\ lines \in Seq({"call", "cancel"} \X Request)
    /\ server \in {"up", "exited"} /\ connector \in {"up", "gone"}
    /\ answers \in Seq(Request \X Results)
    /\ input \in {"read", "stage", "undo", "refuse", "end"} /\ visiting \in Request \cup {Nobody}
    /\ output \in {"read", "copy", "remove"} /\ serving \in Request \cup {Nobody}
    /\ ended \in BOOLEAN /\ stopping \in BOOLEAN /\ caught \in BOOLEAN
    /\ cancelled \subseteq Request /\ table \subseteq Request /\ staged \subseteq Request
    /\ leaked \subseteq Request /\ copied \subseteq Request

LEMMA TypesSplit ==
  /\ ProxyTypeOK <=> TypeOK /\ RestTypeOK
  /\ ProxyTypeOK' <=> TypeOK' /\ RestTypeOK'
<1>1. ProxyTypeOK <=> TypeOK /\ RestTypeOK
  BY DEF ProxyTypeOK, RestTypeOK
<1> QED BY <1>1, PTL

(* IInv with the parts a step is shown to keep. *)
LEMMA Parts ==
  /\ IInv => /\ ToolInv /\ RestTypeOK /\ ProxyTypeOK /\ LinesOnce /\ AnswersOnce /\ PartsOK
             /\ \A q \in Request : PlaceOK(q)
  /\ ToolInv' /\ RestTypeOK' /\ LinesOnce' /\ AnswersOnce' /\ PartsOK'
        /\ (\A q \in Request : PlaceOK(q)') => IInv'
BY TypesSplit DEF IInv, ToolInv

LEMMA LinesKept ==
  ASSUME lines' = lines
  PROVE  (LinesOnce => LinesOnce') /\ \A q \in Request : Queued(q)' <=> Queued(q)
BY DEF LinesOnce, Queued

LEMMA AnswersKept ==
  ASSUME answers' = answers
  PROVE  (AnswersOnce => AnswersOnce') /\ \A q \in Request : Returning(q)' <=> Returning(q)
BY DEF AnswersOnce, Returning

(* The proxy holds q where it did. *)
Same(q) ==
    /\ at'[q] = at[q] /\ call'[q] = call[q] /\ (q \in read' <=> q \in read)
    /\ (q \in table' <=> q \in table) /\ (q \in staged' <=> q \in staged)
    /\ (Queued(q)' <=> Queued(q)) /\ (Returning(q)' <=> Returning(q))
    /\ UNCHANGED <<input, visiting>> \/ (~Visited(q) /\ ~Visited(q)')
    /\ UNCHANGED <<output, serving>> \/ (~Served(q) /\ ~Served(q)')

LEMMA SameOK ==
  ASSUME NEW q \in Request, PlaceOK(q), Same(q), UNCHANGED <<kind, container>>
  PROVE  PlaceOK(q)'
BY DEF PlaceOK, Same, Waiting, Visited, Served

LEMMA SubmitOK ==
  ASSUME IInv, NEW r \in Request, Submit(r)
  PROVE  IInv'
<1>1. /\ ToolInv /\ RestTypeOK /\ ProxyTypeOK /\ LinesOnce /\ AnswersOnce /\ PartsOK
      /\ \A q \in Request : PlaceOK(q)
  BY Parts
<1>2. /\ call[r] = "new" /\ connector = "up" /\ call' = [call EXCEPT ![r] = "open"]
      /\ UNCHANGED <<tool, kind, managed, container, cancelled, ended, server, answers, input,
                     visiting, table, output, serving, stopping, staged, leaked, copied,
                     caught, connector>>
  BY DEF Submit, Answer, tool, inbound, outbound, dirs
<1>3. at[r] = "off" /\ r \notin read /\ ~Queued(r) /\ ~Visited(r) /\ ~Served(r)
      /\ ~Returning(r) /\ r \notin table
  BY <1>1, <1>2 DEF PlaceOK, Waiting
<1>4. call'[r] = "open" /\ call' \in [Request -> {"new", "open", "ok", "error"}]
      /\ \A q \in Request \ {r} : call'[q] = call[q]
  BY <1>1, <1>2 DEF RestTypeOK
<1>5. AnswersOnce' /\ \A q \in Request : Returning(q)' <=> Returning(q)
  BY <1>1, <1>2, AnswersKept
<1>6. CASE container /\ lines' = Append(lines, <<"call", r>>) /\ UNCHANGED handler
  <2>1. /\ lines' \in Seq({"call", "cancel"} \X Request) /\ LinesOnce'
        /\ \A q \in Request : Queued(q)' <=> Queued(q) \/ q = r
    BY <1>1, <1>3, <1>6, LineWritten
  <2>2. ToolInv' /\ UNCHANGED <<at, read>>
    BY <1>1, <1>2, <1>6, AsideOK DEF handler, effects
  <2>3. RestTypeOK'
    BY <1>1, <1>2, <1>4, <2>1 DEF RestTypeOK
  <2>4. PartsOK'
    BY <1>1, <1>2, <1>6, <2>2 DEF PartsOK
  <2>5. ASSUME NEW q \in Request PROVE PlaceOK(q)'
    <3>1. CASE q = r
      BY <1>1, <1>2, <1>3, <1>4, <1>5, <2>1, <2>2, <3>1 DEF PlaceOK, Waiting, Visited, Served
    <3>2. CASE q # r
      BY <1>1, <1>2, <1>4, <1>5, <2>1, <2>2, <3>2, SameOK DEF Same
    <3> QED BY <3>1, <3>2
  <2> QED BY <1>5, <2>1, <2>2, <2>3, <2>4, <2>5, Parts
<1>7. CASE ~container /\ Accept(r) /\ UNCHANGED lines
  <2>1. LinesOnce' /\ \A q \in Request : Queued(q)' <=> Queued(q)
    BY <1>1, <1>7, LinesKept
  <2>2. ToolInv' /\ at' = [at EXCEPT ![r] = "admit"] /\ UNCHANGED read
    BY <1>1, <1>2, <1>3, <1>7, AcceptOK
  <2>3. at'[r] = "admit" /\ \A q \in Request \ {r} : at'[q] = at[q]
    BY <1>1, <2>2 DEF ToolInv, TypeOK
  <2>4. RestTypeOK'
    BY <1>1, <1>2, <1>4, <1>7 DEF RestTypeOK
  <2>5. PartsOK'
    BY <1>1, <1>2, <1>7, <2>2 DEF PartsOK, RestTypeOK
  <2>6. ASSUME NEW q \in Request PROVE PlaceOK(q)'
    <3>1. CASE q = r
      BY <1>1, <1>2, <1>3, <1>4, <1>5, <1>7, <2>1, <2>2, <2>3, <3>1
         DEF PlaceOK, Waiting, Visited, Served
    <3>2. CASE q # r
      BY <1>1, <1>2, <1>4, <1>5, <2>1, <2>2, <2>3, <3>2, SameOK DEF Same
    <3> QED BY <3>1, <3>2
  <2> QED BY <1>5, <2>1, <2>2, <2>4, <2>5, <2>6, Parts
<1> QED BY <1>6, <1>7 DEF Submit

LEMMA CancelOK ==
  ASSUME IInv, NEW r \in Request, Cancel(r)
  PROVE  IInv' /\ UNCHANGED <<kind, container, call, staged, leaked, copied, at, connector>>
<1>1. /\ ToolInv /\ RestTypeOK /\ ProxyTypeOK /\ LinesOnce /\ AnswersOnce /\ PartsOK
      /\ \A q \in Request : PlaceOK(q)
  BY Parts
<1>2. /\ cancelled' = cancelled \cup {r}
      /\ UNCHANGED <<tool, kind, managed, container, call, ended, server, answers, input,
                     visiting, table, output, serving, stopping, staged, leaked, copied,
                     caught, connector>>
  BY DEF Cancel, tool, inbound, outbound, dirs
<1>3. AnswersOnce' /\ \A q \in Request : Returning(q)' <=> Returning(q)
  BY <1>1, <1>2, AnswersKept
<1>4. /\ lines' \in Seq({"call", "cancel"} \X Request) /\ LinesOnce'
      /\ \A q \in Request : Queued(q)' <=> Queued(q)
      /\ ToolInv' /\ UNCHANGED <<at, read>> /\ (~container => UNCHANGED lines)
  <2>1. CASE container /\ lines' = Append(lines, <<"cancel", r>>) /\ UNCHANGED handler
    BY <1>1, <1>2, <2>1, LineWritten, AsideOK DEF handler, effects
  <2>2. CASE ~container /\ Abort(r) /\ UNCHANGED lines
    BY <1>1, <1>2, <2>2, LinesKept, AbortOK DEF RestTypeOK
  <2> QED BY <2>1, <2>2 DEF Cancel
<1>5. RestTypeOK'
  BY <1>1, <1>2, <1>4 DEF RestTypeOK
<1>6. PartsOK'
  BY <1>1, <1>2, <1>4 DEF PartsOK
<1>7. ASSUME NEW q \in Request PROVE PlaceOK(q)'
  BY <1>1, <1>2, <1>3, <1>4, SameOK DEF Same
<1> QED BY <1>2, <1>3, <1>4, <1>5, <1>6, <1>7, Parts

LEMMA ServerStepOK ==
  ASSUME IInv, NEW r \in Request, ServerStep(r)
  PROVE  /\ IInv' /\ UNCHANGED <<kind, container, call, staged, leaked, copied, connector>>
         /\ \A q \in Request : at'[q] = "off" <=> at[q] = "off"
<1>1. /\ ToolInv /\ RestTypeOK /\ ProxyTypeOK /\ LinesOnce /\ AnswersOnce /\ PartsOK
      /\ \A q \in Request : PlaceOK(q)
  BY Parts
<1>2. UNCHANGED <<container, call, cancelled, lines, ended, server, answers, input,
                  visiting, table, output, serving, stopping, staged, leaked, copied,
                  caught, connector>>
  BY DEF ServerStep, proxy, client, stdin, inbound, outbound, dirs
<1>3. /\ ToolInv' /\ UNCHANGED tool
      /\ at[r] # "off" /\ at'[r] # "off"
      /\ \A q \in Request \ {r} : at'[q] = at[q] /\ (q \in read' <=> q \in read)
  BY <1>1, HandlerStepOK DEF ServerStep
<1>4. /\ AnswersOnce' /\ \A q \in Request : Returning(q)' <=> Returning(q)
      /\ LinesOnce' /\ \A q \in Request : Queued(q)' <=> Queued(q)
  BY <1>1, <1>2, AnswersKept, LinesKept
<1>5. RestTypeOK'
  BY <1>1, <1>2 DEF RestTypeOK
<1>6. PartsOK'
  BY <1>1, <1>2, <1>3 DEF PartsOK
<1>7. ASSUME NEW q \in Request PROVE PlaceOK(q)'
  <2>1. CASE q = r
    BY <1>1, <1>2, <1>3, <1>4, <2>1 DEF PlaceOK, Waiting, Visited, Served, tool
  <2>2. CASE q # r
    BY <1>1, <1>2, <1>3, <1>4, <2>2, SameOK DEF Same, tool
  <2> QED BY <2>1, <2>2
<1> QED BY <1>2, <1>3, <1>4, <1>5, <1>6, <1>7, Parts DEF tool

LEMMA RespondOK ==
  ASSUME IInv, NEW r \in Request, Respond(r)
  PROVE  IInv'
<1>1. /\ ToolInv /\ RestTypeOK /\ ProxyTypeOK /\ LinesOnce /\ AnswersOnce /\ PartsOK
      /\ \A q \in Request : PlaceOK(q)
  BY Parts
<1>2. UNCHANGED <<container, cancelled, lines, ended, server, input, visiting, table, output,
                  serving, stopping, staged, leaked, caught, connector>>
  BY DEF Respond, stdin, inbound, outbound
<1>3. ToolInv' /\ at[r] = "reply" /\ at' = [at EXCEPT ![r] = "off"] /\ UNCHANGED <<kind, read>>
  BY <1>1, RepliedOK DEF Respond
<1>4. at'[r] = "off" /\ \A q \in Request \ {r} : at'[q] = at[q]
  BY <1>1, <1>3 DEF ToolInv, TypeOK
<1>5. /\ call[r] = "open" /\ ~Returning(r) /\ ~Served(r) /\ ~Waiting(r)
      /\ container /\ kind[r] # "get" => r \in table
      /\ result[r] \in Results
  BY <1>1, <1>3 DEF PlaceOK, ToolInv, TypeOK
<1>6. LinesOnce' /\ \A q \in Request : Queued(q)' <=> Queued(q)
  BY <1>1, <1>2, LinesKept
<1>7. CASE container /\ answers' = Append(answers, <<r, result[r]>>) /\ UNCHANGED <<call, copied>>
  <2>1. /\ answers' \in Seq(Request \X Results) /\ AnswersOnce'
        /\ \A q \in Request : Returning(q)' <=> Returning(q) \/ q = r
    BY <1>1, <1>5, <1>7, AnswerWritten
  <2>2. RestTypeOK'
    BY <1>1, <1>2, <1>7, <2>1 DEF RestTypeOK
  <2>3. PartsOK'
    <3>1. connector = "up"
      BY <1>1, <1>3, <1>7 DEF PartsOK, RestTypeOK
    <3> QED BY <1>1, <1>2, <1>3, <1>4, <1>7, <3>1 DEF PartsOK
  <2>4. ASSUME NEW q \in Request PROVE PlaceOK(q)'
    <3>1. CASE q = r
      BY <1>1, <1>2, <1>3, <1>4, <1>5, <1>6, <1>7, <2>1, <3>1
         DEF PlaceOK, Waiting, Visited, Served
    <3>2. CASE q # r
      BY <1>1, <1>2, <1>3, <1>4, <1>6, <1>7, <2>1, <3>2, SameOK DEF Same
    <3> QED BY <3>1, <3>2
  <2> QED BY <1>3, <1>6, <2>1, <2>2, <2>3, <2>4, Parts
<1>8. CASE UNCHANGED answers /\ (UNCHANGED <<call, copied>> \/ ~container)
  <2>1. AnswersOnce' /\ \A q \in Request : Returning(q)' <=> Returning(q)
    BY <1>1, <1>8, AnswersKept
  <2>2. /\ call' \in [Request -> {"new", "open", "ok", "error"}]
        /\ \A q \in Request \ {r} : call'[q] = call[q]
        /\ copied' \subseteq Request /\ call'[r] # "new"
        /\ container => UNCHANGED call
    BY <1>1, <1>5, <1>8 DEF Respond, Answer, RestTypeOK, Results
  <2>3. RestTypeOK'
    BY <1>1, <1>2, <1>8, <2>2 DEF RestTypeOK
  <2>4. PartsOK'
    BY <1>1, <1>2, <1>3, <1>4, <1>8 DEF PartsOK
  <2>5. ASSUME NEW q \in Request PROVE PlaceOK(q)'
    <3>1. CASE q = r
      <4>1. ~Waiting(r)' /\ ~Queued(r)' /\ ~Visited(r)' /\ ~Served(r)' /\ ~Returning(r)'
        BY <1>2, <1>5, <1>6, <2>1, <2>2 DEF Waiting, Visited, Served
      <4>2. r \in table => container
        BY <1>1 DEF PartsOK
      <4> QED BY <1>1, <1>2, <1>3, <1>4, <1>5, <2>2, <3>1, <4>1, <4>2
              DEF PlaceOK, Visited, Served
    <3>2. CASE q # r
      BY <1>1, <1>2, <1>3, <1>4, <1>6, <2>1, <2>2, <3>2, SameOK DEF Same
    <3> QED BY <3>1, <3>2
  <2> QED BY <1>3, <1>6, <2>1, <2>3, <2>4, <2>5, Parts
<1> QED BY <1>7, <1>8 DEF Respond

(* What leaves the places of the calls and the server alone. *)
Quiet == UNCHANGED <<kind, container, call, lines, answers, visiting, table, output, serving,
                     staged, at, read, connector>>

LEMMA QuietOK ==
  ASSUME IInv, Quiet, ToolInv', RestTypeOK', PartsOK',
         UNCHANGED input \/ \A q \in Request : ~Visited(q) /\ ~Visited(q)'
  PROVE  IInv'
<1>1. LinesOnce' /\ AnswersOnce' /\ \A q \in Request : Queued(q)' <=> Queued(q)
  BY Parts, LinesKept, AnswersKept DEF Quiet
<1>2. \A q \in Request : Returning(q)' <=> Returning(q)
  BY AnswersKept DEF Quiet
<1>3. ASSUME NEW q \in Request PROVE PlaceOK(q)'
  BY <1>1, <1>2, Parts, SameOK DEF Same, Quiet
<1> QED BY <1>1, <1>3, Parts

LEMMA EndsOK ==
  ASSUME IInv, CloseInput \/ InputEnds \/ StopInput
  PROVE  IInv' /\ UNCHANGED <<kind, container, call, staged, leaked, copied, at, connector>>
<1>1. /\ ToolInv /\ RestTypeOK /\ ProxyTypeOK /\ LinesOnce /\ AnswersOnce /\ PartsOK
      /\ \A q \in Request : PlaceOK(q)
  BY Parts
<1>2. /\ Quiet /\ UNCHANGED <<tool, handler, cancelled, leaked, copied, server>>
  BY DEF CloseInput, InputEnds, StopInput, Quiet, tool, handler, client, stdin, inbound,
         outbound, dirs
<1>3. ToolInv'
  BY <1>1, <1>2, AsideOK DEF handler, effects
<1>4. RestTypeOK'
  <2>1. caught' \in BOOLEAN
    <3>1. caught \in BOOLEAN
      BY <1>1 DEF RestTypeOK
    <3> QED BY <3>1, Zenon DEF CloseInput, InputEnds, StopInput, Entering
  <2> QED BY <1>1, <1>2, <2>1, ZenonT(30)
          DEF CloseInput, InputEnds, StopInput, Quiet, RestTypeOK, stdin, inbound
<1>5. PartsOK'
  BY <1>1, <1>2 DEF CloseInput, InputEnds, StopInput, Quiet, PartsOK, stdin, inbound, RestTypeOK
<1>6. UNCHANGED input \/ \A q \in Request : ~Visited(q) /\ ~Visited(q)'
  BY DEF CloseInput, InputEnds, StopInput, Visited, inbound
<1> QED BY <1>2, <1>3, <1>4, <1>5, <1>6, QuietOK DEF Quiet

LEMMA ExitsOK ==
  ASSUME IInv, ServerEnds \/ ServerDies
  PROVE  IInv'
<1>1. /\ ToolInv /\ RestTypeOK /\ ProxyTypeOK /\ LinesOnce /\ AnswersOnce /\ PartsOK
      /\ \A q \in Request : PlaceOK(q)
  BY Parts
<1>2. /\ Killed /\ (Fails \/ UNCHANGED failures)
      /\ server = "up" /\ server' = "exited"
      /\ connector' = IF container THEN "up" ELSE "gone"
      /\ UNCHANGED <<container, call, cancelled, lines, ended, answers, input, visiting, table,
                     output, serving, stopping, staged, leaked, copied, caught>>
  BY DEF ServerEnds, ServerDies, Exits, client, stdin, inbound, outbound, dirs
<1>3. ToolInv' /\ (\A r \in Request : at'[r] = "off") /\ UNCHANGED <<kind, read>>
  BY <1>1, <1>2, KilledOK
<1>4. /\ AnswersOnce' /\ \A q \in Request : Returning(q)' <=> Returning(q)
      /\ LinesOnce' /\ \A q \in Request : Queued(q)' <=> Queued(q)
  BY <1>1, <1>2, AnswersKept, LinesKept
<1>5. RestTypeOK'
  BY <1>1, <1>2 DEF RestTypeOK
<1>6. PartsOK'
  BY <1>1, <1>2, <1>3 DEF PartsOK
<1>7. ASSUME NEW q \in Request PROVE PlaceOK(q)'
  <2>1. PlaceOK(q) /\ at'[q] = "off"
    BY <1>1, <1>3
  <2> QED BY <1>2, <1>3, <1>4, <2>1 DEF PlaceOK, Waiting, Visited, Served
<1> QED BY <1>3, <1>4, <1>5, <1>6, <1>7, Parts

------------------------------------------------------------------------------
(* inputDone. *)

(* The line is one of a call that no server has seen, or a cancellation.   *)
LEMMA TakesLine ==
  ASSUME IInv, NEW what \in {"call", "cancel"}, ReadsLine(what)
  PROVE  /\ Line \in Request /\ container /\ connector = "up" /\ input = "read"
         /\ lines' \in Seq({"call", "cancel"} \X Request) /\ LinesOnce' /\ AnswersOnce'
         /\ \A q \in Request : q # Line \/ what # "call" => (Queued(q)' <=> Queued(q))
         /\ \A q \in Request : q = Line /\ what = "call" => ~Queued(q)'
         /\ \A q \in Request : Returning(q)' <=> Returning(q)
         /\ what = "call" => /\ call[Line] = "open" /\ at[Line] = "off" /\ Line \notin read
                             /\ ~Visited(Line) /\ ~Returning(Line) /\ ~Served(Line)
                             /\ Line \notin table /\ Line \notin staged
         /\ UNCHANGED <<tool, kind, container, call, cancelled, ended, server, answers, output,
                        serving, stopping, leaked, copied, caught, connector>>
<1>1. ProxyTypeOK /\ LinesOnce /\ AnswersOnce /\ \A q \in Request : PlaceOK(q)
  BY Parts
<1>2. /\ container /\ connector = "up" /\ input = "read"
      /\ UNCHANGED <<tool, kind, container, call, cancelled, ended, server, answers, output,
                     serving, stopping, leaked, copied, caught, connector>>
  BY DEF ReadsLine, tool, client, outbound
<1>3. /\ Line \in Request
      /\ lines' \in Seq({"call", "cancel"} \X Request) /\ LinesOnce'
      /\ \A q \in Request : q # Line \/ what # "call" => (Queued(q)' <=> Queued(q))
      /\ \A q \in Request : q = Line /\ what = "call" => Queued(q) /\ ~Queued(q)'
  BY <1>1, LineRead
<1>4. AnswersOnce' /\ \A q \in Request : Returning(q)' <=> Returning(q)
  BY <1>1, <1>2, AnswersKept
<1>5. ASSUME what = "call"
      PROVE  /\ call[Line] = "open" /\ at[Line] = "off" /\ Line \notin read
             /\ ~Visited(Line) /\ ~Returning(Line) /\ ~Served(Line)
             /\ Line \notin table /\ Line \notin staged
  BY <1>1, <1>3, <1>5 DEF PlaceOK, Waiting
<1> QED BY <1>2, <1>3, <1>4, <1>5

(* Forward hands a call no server has seen to a server that is there. *)
LEMMA ForwardOK ==
  ASSUME IInv, NEW r \in Request, Forward(r), UNCHANGED tool, at[r] = "off", r \notin read
  PROVE  /\ ToolInv' /\ UNCHANGED read
         /\ \/ UNCHANGED at
            \/ server = "up" /\ ~stopping /\ at'[r] = "admit"
         /\ \A q \in Request \ {r} : at'[q] = at[q]
<1>1. ToolInv
  BY Parts
<1>2. CASE Accept(r) /\ server = "up" /\ ~stopping
  BY <1>1, <1>2, AcceptOK DEF ToolInv, TypeOK
<1>3. CASE UNCHANGED handler
  BY <1>1, <1>3, AsideOK DEF handler, effects
<1> QED BY <1>2, <1>3 DEF Forward

LEMMA VisitCancelOK ==
  ASSUME IInv, VisitCancel
  PROVE  IInv' /\ UNCHANGED <<kind, container, call, staged, leaked, copied, at, connector>>
<1>1. /\ ToolInv /\ RestTypeOK /\ PartsOK /\ \A q \in Request : PlaceOK(q)
  BY Parts
<1>2. /\ Line \in Request /\ container /\ connector = "up" /\ input = "read"
      /\ lines' \in Seq({"call", "cancel"} \X Request) /\ LinesOnce' /\ AnswersOnce'
      /\ \A q \in Request : (Queued(q)' <=> Queued(q)) /\ (Returning(q)' <=> Returning(q))
      /\ UNCHANGED <<tool, kind, container, call, cancelled, ended, server, answers, output,
                     serving, stopping, leaked, copied, caught, connector>>
      /\ UNCHANGED <<input, visiting, table, staged>>
  BY TakesLine DEF VisitCancel, inbound
<1>3. ToolInv' /\ UNCHANGED <<at, read>>
  <2>1. CASE Abort(Line)
    <3>1. PICK r \in Request : r = Line
      BY <1>2
    <3>2. Abort(r)
      BY <2>1, <3>1
    <3> QED BY <1>1, <1>2, <3>2, AbortOK
  <2>2. CASE UNCHANGED handler
    BY <1>1, <1>2, <2>2, AsideOK DEF handler, effects
  <2> QED BY <2>1, <2>2 DEF VisitCancel, AbortsThere
<1>4. RestTypeOK'
  BY <1>1, <1>2 DEF RestTypeOK
<1>5. PartsOK'
  BY <1>1, <1>2, <1>3 DEF PartsOK
<1>6. ASSUME NEW q \in Request PROVE PlaceOK(q)'
  BY <1>1, <1>2, <1>3, SameOK DEF Same
<1> QED BY <1>2, <1>3, <1>4, <1>5, <1>6, Parts

(* A call's line is visited: what becomes of it. *)
LEMMA CallLine ==
  ASSUME IInv, NEW r \in Request, r = Line, ReadsLine("call"), RestTypeOK', ToolInv',
         UNCHANGED read, \A q \in Request \ {r} : at'[q] = at[q],
         UNCHANGED at \/ (server = "up" /\ ~stopping /\ at'[r] = "admit"),
         \/ UNCHANGED <<input, visiting>>
         \/ input' \in {"stage", "undo"} /\ visiting' = r /\ UNCHANGED at,
         table' = table \/ (table' = table \cup {r} /\ UNCHANGED <<input, visiting>>),
         staged' = staged \/ staged' = staged \cup {r},
         staged' # staged => r \in table' \/ (visiting' = r /\ input' \in {"stage", "undo"}),
         at'[r] = "admit" => kind[r] = "get" \/ (r \in table' /\ r \in staged'),
         input' = "stage" => r \in staged'
  PROVE  IInv'
<1>1. /\ ToolInv /\ RestTypeOK /\ PartsOK /\ \A q \in Request : PlaceOK(q)
  BY Parts
<1>2. /\ container /\ connector = "up" /\ input = "read"
      /\ LinesOnce' /\ AnswersOnce'
      /\ \A q \in Request : q # r => (Queued(q)' <=> Queued(q))
      /\ ~Queued(r)'
      /\ \A q \in Request : Returning(q)' <=> Returning(q)
      /\ call[r] = "open" /\ at[r] = "off" /\ r \notin read
      /\ ~Visited(r) /\ ~Returning(r) /\ ~Served(r)
      /\ r \notin table /\ r \notin staged
      /\ UNCHANGED <<tool, kind, container, call, cancelled, ended, server, answers, output,
                     serving, stopping, leaked, copied, caught, connector>>
  BY TakesLine
<1>3. PartsOK'
  BY <1>1, <1>2 DEF PartsOK
<1>4. ASSUME NEW q \in Request PROVE PlaceOK(q)'
  <2>1. CASE q # r
    <3>1. ~Visited(q)
      BY <1>2 DEF Visited
    <3>2. UNCHANGED <<input, visiting>> \/ ~Visited(q)'
      BY <2>1 DEF Visited
    <3> QED BY <1>1, <1>2, <2>1, <3>1, <3>2, SameOK DEF Same
  <2>2. CASE q = r
    <3>1. UNCHANGED at \/ at'[r] = "admit"
      OBVIOUS
    <3>2. CASE UNCHANGED <<input, visiting>>
      <4>1. ~Visited(r)' /\ ~Served(r)' /\ input' # "stage" /\ input' # "refuse" /\ ~Waiting(r)'
        BY <1>2, <3>2 DEF Visited, Served, Waiting
      <4>2. ~(output' = "copy" /\ serving' = r)
        BY <4>1 DEF Served
      <4> QED BY <1>2, <2>2, <3>1, <3>2, <4>1, <4>2 DEF PlaceOK
    <3>3. CASE input' \in {"stage", "undo"} /\ visiting' = r /\ UNCHANGED at
      <4>1. Visited(r)' /\ ~Served(r)' /\ ~(output' = "copy" /\ serving' = r) /\ r \notin table'
        BY <1>2, <3>3 DEF Visited, Served
      <4> QED BY <1>2, <2>2, <3>3, <4>1 DEF PlaceOK, Waiting
    <3> QED BY <3>2, <3>3
  <2> QED BY <2>1, <2>2
<1> QED BY <1>2, <1>3, <1>4, Parts

LEMMA VisitOtherOK ==
  ASSUME IInv, VisitOther
  PROVE  IInv'
<1>1. PICK r \in Request : r = Line
  BY TakesLine DEF VisitOther
<1>2. ReadsLine("call") /\ kind[r] = "get" /\ Forward(r) /\ UNCHANGED <<input, visiting, table, staged>>
  BY <1>1 DEF VisitOther, inbound
<1>3. /\ lines' \in Seq({"call", "cancel"} \X Request) /\ at[r] = "off" /\ r \notin read
      /\ UNCHANGED <<tool, container, call, cancelled, ended, server, answers, output,
                     serving, stopping, leaked, copied, caught, connector>>
  BY <1>1, <1>2, TakesLine
<1>4. RestTypeOK'
  BY <1>2, <1>3, Parts DEF RestTypeOK
<1>5. /\ ToolInv' /\ UNCHANGED read /\ \A q \in Request \ {r} : at'[q] = at[q]
      /\ UNCHANGED at \/ (server = "up" /\ ~stopping /\ at'[r] = "admit")
  BY <1>2, <1>3, ForwardOK
<1>6. input' # "stage"
  BY <1>1, <1>2, TakesLine
<1> QED BY <1>1, <1>2, <1>4, <1>5, <1>6, CallLine

LEMMA VisitSendOK ==
  ASSUME IInv, VisitSend
  PROVE  IInv'
<1>1. PICK r \in Request : r = Line
  BY TakesLine DEF VisitSend
<1>2. /\ ReadsLine("call") /\ staged' = staged \cup {r}
      /\ input' = "stage" /\ visiting' = r /\ UNCHANGED <<handler, table>>
  BY <1>1 DEF VisitSend, MakesDir
<1>3. /\ lines' \in Seq({"call", "cancel"} \X Request)
      /\ UNCHANGED <<tool, container, call, cancelled, ended, server, answers, output,
                     serving, stopping, leaked, copied, caught, connector>>
  BY <1>1, <1>2, TakesLine
<1>4. RestTypeOK'
  BY <1>2, <1>3, Parts DEF RestTypeOK
<1>5. ToolInv' /\ UNCHANGED <<at, read>>
  BY <1>2, <1>3, Parts, AsideOK DEF handler, effects
<1>6. r \in staged' /\ at'[r] # "admit"
  BY <1>1, <1>2, <1>5, TakesLine
<1> QED BY <1>1, <1>2, <1>4, <1>5, <1>6, CallLine

LEMMA VisitSaveOK ==
  ASSUME IInv, VisitSave
  PROVE  IInv'
<1>1. PICK r \in Request : r = Line
  BY TakesLine DEF VisitSave
<1>2. ReadsLine("call")
  BY DEF VisitSave
<1>3. /\ lines' \in Seq({"call", "cancel"} \X Request) /\ at[r] = "off" /\ r \notin read
      /\ UNCHANGED <<tool, container, call, cancelled, ended, server, answers, output,
                     serving, stopping, leaked, copied, caught, connector>>
  BY <1>1, <1>2, TakesLine
<1>4. CASE /\ staged' = staged \cup {r}
           /\ table' = table \cup {r}
           /\ Forward(r)
           /\ UNCHANGED <<input, visiting>>
  <2>1. RestTypeOK'
    BY <1>3, <1>4, Parts DEF RestTypeOK
  <2> QED BY <1>1, <1>2, <1>3, <1>4, <2>1, ForwardOK, CallLine
<1>5. CASE /\ Fails
           /\ staged' = staged \/ staged' = staged \cup {r}
           /\ input' = "undo" /\ visiting' = r
           /\ UNCHANGED <<at, admitted, aborted, again, effects, result, table>>
  <2>1. RestTypeOK'
    BY <1>3, <1>5, Parts DEF RestTypeOK
  <2>2. ToolInv' /\ UNCHANGED <<at, read>>
    BY <1>3, <1>5, Parts, AsideOK DEF effects
  <2> QED BY <1>1, <1>2, <1>3, <1>5, <2>1, <2>2, CallLine
<1> QED BY <1>1, <1>4, <1>5 DEF VisitSave, MakesDir, inbound

(* A step of inputDone with the call it visits. *)
LEMMA Visiting ==
  ASSUME IInv, NEW r \in Request, r = visiting, input \in {"stage", "undo", "refuse"},
         RestTypeOK', ToolInv',
         UNCHANGED <<kind, container, lines, ended, server, answers, output, serving, stopping,
                     connector, read>>,
         \A q \in Request \ {r} : /\ at'[q] = at[q] /\ call'[q] = call[q]
                                  /\ q \in staged' <=> q \in staged,
         UNCHANGED at \/ (server = "up" /\ ~stopping /\ at'[r] = "admit"),
         \/ /\ table' = table \cup {r} /\ input = "stage" /\ input' = "read"
            /\ UNCHANGED <<staged, call>>
         \/ /\ UNCHANGED <<table, visiting, call, at>>
            /\ input' = "undo" \/ (input' = "refuse" /\ r \notin staged')
         \/ /\ UNCHANGED <<table, staged, at>> /\ input = "refuse" /\ input' = "read"
            /\ call'[r] = "error"
  PROVE  IInv'
<1>1. /\ ToolInv /\ RestTypeOK /\ LinesOnce /\ AnswersOnce /\ PartsOK /\ PlaceOK(r)
      /\ \A q \in Request : PlaceOK(q)
  BY Parts
<1>2. LinesOnce' /\ AnswersOnce'
      /\ \A q \in Request : (Queued(q)' <=> Queued(q)) /\ (Returning(q)' <=> Returning(q))
  BY <1>1, LinesKept, AnswersKept
<1>3. /\ Visited(r) /\ call[r] = "open" /\ at[r] = "off" /\ r \notin read /\ ~Queued(r)
      /\ ~Returning(r) /\ r \notin table /\ ~Served(r) /\ container
  BY <1>1 DEF PlaceOK, Visited, Waiting, PartsOK
<1>4. PartsOK'
  BY <1>1, <1>3 DEF PartsOK, RestTypeOK
<1>5. ASSUME NEW q \in Request PROVE PlaceOK(q)'
  <2>1. CASE q # r
    <3>1. ~Visited(q) /\ ~Visited(q)'
      BY <2>1 DEF Visited
    <3> QED BY <1>1, <1>2, <2>1, <3>1, SameOK DEF Same
  <2>2. CASE q = r
    <3>1. ~Served(r)' /\ ~Queued(r)' /\ ~Returning(r)' /\ ~(output' = "copy" /\ serving' = r)
      BY <1>2, <1>3 DEF Served
    <3>2. CASE table' = table \cup {r} /\ input = "stage" /\ input' = "read"
               /\ UNCHANGED <<staged, call>>
      <4>1. r \in staged' /\ r \in table' /\ ~Visited(r)' /\ call'[r] = "open"
        BY <1>1, <1>3, <3>2 DEF PlaceOK, Visited
      <4> QED BY <2>2, <3>1, <3>2, <4>1 DEF PlaceOK, Waiting
    <3>3. CASE /\ UNCHANGED <<table, visiting, call, at>>
               /\ input' = "undo" \/ (input' = "refuse" /\ r \notin staged')
      <4>1. Visited(r)' /\ call'[r] = "open" /\ at'[r] = "off" /\ r \notin table'
        BY <1>3, <3>3 DEF Visited
      <4> QED BY <1>3, <2>2, <3>1, <3>3, <4>1 DEF PlaceOK, Waiting
    <3>4. CASE /\ UNCHANGED <<table, staged, at>> /\ input = "refuse" /\ input' = "read"
               /\ call'[r] = "error"
      <4>1. ~Visited(r)' /\ r \notin staged' /\ at'[r] = "off" /\ r \notin table'
        BY <1>1, <1>3, <3>4 DEF Visited, PlaceOK
      <4> QED BY <1>3, <2>2, <3>1, <3>4, <4>1 DEF PlaceOK, Waiting
    <3> QED BY <3>2, <3>3, <3>4
  <2> QED BY <2>1, <2>2
<1> QED BY <1>2, <1>4, <1>5, Parts

(* The call it is at. *)
LEMMA Visit ==
  ASSUME IInv, input \in {"stage", "undo", "refuse"}
  PROVE  /\ visiting \in Request
         /\ call[visiting] = "open" /\ at[visiting] = "off" /\ visiting \notin read
         /\ visiting \notin table /\ container /\ connector = "up"
         /\ input = "stage" => visiting \in staged
<1>1. PartsOK /\ RestTypeOK /\ visiting \in Request /\ PlaceOK(visiting)
  BY Parts DEF PartsOK
<1>2. Visited(visiting)
  BY DEF Visited
<1> QED BY <1>1, <1>2 DEF PlaceOK, Waiting, PartsOK, RestTypeOK

LEMMA StageEndsOK ==
  ASSUME IInv, StageEnds
  PROVE  IInv'
<1>1. input = "stage"
  BY DEF StageEnds
<1>2. PICK r \in Request : r = visiting
  BY <1>1, Visit
<1>3. call[r] = "open" /\ at[r] = "off" /\ r \notin read /\ r \notin table
  BY <1>1, <1>2, Visit
<1>4. UNCHANGED <<tool, kind, container, call, cancelled, lines, ended, server, answers, output,
                  serving, stopping, leaked, copied, caught, connector>>
  BY DEF StageEnds, tool, client, stdin, outbound
<1>5. CASE /\ table' = table \cup {r} /\ Forward(r)
           /\ input' = "read" /\ visiting' = Nobody /\ UNCHANGED staged
  <2>1. RestTypeOK'
    BY <1>4, <1>5, Parts DEF RestTypeOK
  <2>2. /\ ToolInv' /\ UNCHANGED read /\ \A q \in Request \ {r} : at'[q] = at[q]
        /\ UNCHANGED at \/ (server = "up" /\ ~stopping /\ at'[r] = "admit")
    BY <1>3, <1>4, <1>5, ForwardOK
  <2> QED BY <1>1, <1>2, <1>4, <1>5, <2>1, <2>2, Visiting
<1>6. CASE /\ Fails /\ staged' \in {staged, staged \ {r}} /\ input' = "undo"
           /\ UNCHANGED <<at, admitted, aborted, again, effects, result, visiting, table>>
  <2>1. RestTypeOK'
    BY <1>4, <1>6, Parts DEF RestTypeOK
  <2>2. ToolInv' /\ UNCHANGED <<at, read>>
    BY <1>4, <1>6, Parts, AsideOK DEF effects
  <2>3. \A q \in Request \ {r} : /\ at'[q] = at[q] /\ call'[q] = call[q]
                                /\ q \in staged' <=> q \in staged
    BY <1>4, <1>6, <2>2
  <2> QED BY <1>1, <1>2, <1>4, <1>6, <2>1, <2>2, <2>3, Visiting
<1> QED BY <1>2, <1>5, <1>6 DEF StageEnds

LEMMA RemovesTyped ==
  ASSUME RestTypeOK, NEW R, Removes(R)
  PROVE  /\ staged' = staged \ R /\ leaked' \subseteq Request
         /\ Fails \/ UNCHANGED failures
BY DEF RestTypeOK, Removes

LEMMA UndoOK ==
  ASSUME IInv, Undo
  PROVE  IInv'
<1>1. input = "undo"
  BY DEF Undo
<1>2. PICK r \in Request : r = visiting
  BY <1>1, Visit
<1>3. UNCHANGED <<tool, kind, at, read, container, call, cancelled, lines, ended, server, answers,
                  visiting, table, output, serving, stopping, copied, caught, connector>>
  BY DEF Undo, tool, client, stdin, outbound, effects
<1>4. staged' = staged \ {r} /\ leaked' \subseteq Request /\ (Fails \/ UNCHANGED failures)
  BY <1>2, RemovesTyped, Parts DEF Undo
<1>5. RestTypeOK'
  BY <1>3, <1>4, Parts DEF RestTypeOK, Undo
<1>6. ToolInv'
  BY <1>4, Parts, AsideOK DEF Undo
<1>7. \A q \in Request \ {r} : /\ at'[q] = at[q] /\ call'[q] = call[q]
                              /\ q \in staged' <=> q \in staged
  BY <1>3, <1>4
<1>8. input' = "refuse" /\ r \notin staged'
  BY <1>4 DEF Undo
<1> QED BY <1>1, <1>2, <1>3, <1>5, <1>6, <1>7, <1>8, Visiting

LEMMA RefuseOK ==
  ASSUME IInv, Refuse
  PROVE  IInv'
<1>1. input = "refuse"
  BY DEF Refuse
<1>2. PICK r \in Request : r = visiting
  BY <1>1, Visit
<1>3. UNCHANGED <<tool, handler, kind, at, read, container, cancelled, lines, ended, server,
                  answers, table, output, serving, stopping, staged, leaked, copied,
                  caught, connector>>
  BY DEF Refuse, tool, handler, stdin, outbound, dirs
<1>4. /\ call' \in [Request -> {"new", "open", "ok", "error"}] /\ call'[r] = "error"
      /\ \A q \in Request \ {r} : call'[q] = call[q]
      /\ input' = "read" /\ visiting' = Nobody
  BY <1>2, Parts DEF Refuse, Answer, RestTypeOK
<1>5. RestTypeOK'
  BY <1>3, <1>4, Parts DEF RestTypeOK
<1>6. ToolInv'
  BY <1>3, Parts, AsideOK DEF handler, effects
<1>7. \A q \in Request \ {r} : /\ at'[q] = at[q] /\ call'[q] = call[q]
                              /\ q \in staged' <=> q \in staged
  BY <1>3, <1>4
<1> QED BY <1>1, <1>2, <1>3, <1>4, <1>5, <1>6, <1>7, Visiting

------------------------------------------------------------------------------
(* outputDone, and the end. *)

LEMMA RelayOK ==
  ASSUME IInv, Relay
  PROVE  IInv'
<1>1. /\ ToolInv /\ RestTypeOK /\ ProxyTypeOK /\ LinesOnce /\ AnswersOnce /\ PartsOK
      /\ \A q \in Request : PlaceOK(q)
  BY Parts
<1>2. /\ output = "read" /\ answers # <<>> /\ answers' = Tail(answers)
      /\ UNCHANGED <<tool, handler, kind, at, read, container, cancelled, lines, ended, server,
                     input, visiting, stopping, staged, leaked, copied, caught, connector>>
  BY DEF Relay, tool, handler, stdin, inbound, dirs
<1>3. /\ answers' \in Seq(Request \X Results) /\ AnswersOnce'
      /\ Head(answers) \in Request \X Results
      /\ \A q \in Request : q # Head(answers)[1] => (Returning(q)' <=> Returning(q))
      /\ \A q \in Request : q = Head(answers)[1] => Returning(q) /\ ~Returning(q)'
  BY <1>1, <1>2, AnswerRead
<1>4. PICK r \in Request, how \in Results : r = Head(answers)[1] /\ how = Head(answers)[2]
  BY <1>3
<1>5. LinesOnce' /\ \A q \in Request : Queued(q)' <=> Queued(q)
  BY <1>1, <1>2, LinesKept
<1>6. call[r] = "open" /\ at[r] = "off" /\ ~Waiting(r) /\ ~Returning(r)'
      /\ ~Queued(r) /\ ~Visited(r) /\ container /\ connector = "up"
  BY <1>1, <1>2, <1>3, <1>4 DEF PlaceOK, Waiting, PartsOK, RestTypeOK
<1>7. \A q \in Request : ~Served(q)
  BY <1>2 DEF Served
<1>8. ToolInv'
  BY <1>1, <1>2, AsideOK DEF handler, effects
<1>9. ASSUME call' = call \/ call' = [call EXCEPT ![r] = how],
             output' \in {"read", "copy", "remove"}, serving' \in Request \cup {Nobody},
             output' \in {"copy", "remove"} => serving' = r,
             table' = table \ {r}, r \in staged => output' # "read",
             output' = "copy" => call' = call /\ kind[r] = "save",
             output' # "copy" => call' # call
      PROVE  IInv'
  <2>1. /\ call' \in [Request -> {"new", "open", "ok", "error"}]
        /\ \A q \in Request \ {r} : call'[q] = call[q]
        /\ call'[r] # "new" /\ (output' = "copy" => call'[r] = "open")
    BY <1>1, <1>6, <1>9 DEF RestTypeOK, Results
  <2>2. RestTypeOK'
    BY <1>1, <1>2, <1>3, <1>9, <2>1 DEF RestTypeOK
  <2>3. PartsOK'
    BY <1>1, <1>2, <1>6, <1>9 DEF PartsOK
  <2>4. ASSUME NEW q \in Request PROVE PlaceOK(q)'
    <3>1. CASE q # r
      <4>1. ~Served(q)'
        BY <1>9, <3>1 DEF Served
      <4> QED BY <1>1, <1>2, <1>3, <1>4, <1>5, <1>7, <1>9, <2>1, <3>1, <4>1, SameOK DEF Same
    <3>2. CASE q = r
      <4>1. ~Queued(r)' /\ ~Visited(r)' /\ r \notin table' /\ at'[r] = "off"
            /\ ~(input' = "stage" /\ visiting' = r) /\ ~(input' = "refuse" /\ visiting' = r)
        BY <1>2, <1>5, <1>6, <1>9 DEF Visited
      <4>2. ~Waiting(r)'
        BY <2>1, <4>1 DEF Waiting
      <4>3. r \in staged' => Served(r)'
        BY <1>2, <1>9 DEF Served
      <4> QED BY <1>2, <1>6, <1>9, <2>1, <3>2, <4>1, <4>2, <4>3 DEF PlaceOK
    <3> QED BY <3>1, <3>2
  <2> QED BY <1>3, <1>5, <1>8, <2>2, <2>3, <2>4, Parts
<1>10. call[r] # how /\ [call EXCEPT ![r] = how] # call
  BY <1>1, <1>6 DEF RestTypeOK, Results
<1>11. CASE r \notin table /\ Answer(r, how) /\ UNCHANGED <<table, output, serving>>
  <2>1. r \notin staged
    BY <1>1, <1>6, <1>7, <1>11 DEF PlaceOK
  <2> QED BY <1>1, <1>2, <1>9, <1>10, <1>11, <2>1 DEF Answer, RestTypeOK
<1>12. CASE /\ table' = table \ {r} /\ serving' = r
            /\ IF kind[r] = "save" /\ how = "ok"
               THEN output' = "copy" /\ UNCHANGED call
               ELSE output' = "remove" /\ Answer(r, how)
  BY <1>9, <1>10, <1>12 DEF Answer
<1> QED BY <1>4, <1>11, <1>12 DEF Relay, outbound

(* The call whose answer outputDone works on. *)
LEMMA Serve ==
  ASSUME IInv, output \in {"copy", "remove"}
  PROVE  /\ serving \in Request
         /\ at[serving] = "off" /\ ~Returning(serving) /\ serving \notin table
         /\ ~Waiting(serving) /\ container /\ connector = "up"
         /\ output = "copy" => call[serving] = "open" /\ kind[serving] = "save"
<1>1. PartsOK /\ RestTypeOK /\ serving \in Request /\ PlaceOK(serving)
  BY Parts DEF PartsOK
<1>2. Served(serving)
  BY DEF Served
<1> QED BY <1>1, <1>2 DEF PlaceOK, PartsOK, RestTypeOK

LEMMA CopyOK ==
  ASSUME IInv, Copy
  PROVE  IInv'
<1>1. /\ ToolInv /\ RestTypeOK /\ LinesOnce /\ AnswersOnce /\ PartsOK
      /\ \A q \in Request : PlaceOK(q)
  BY Parts
<1>2. /\ output = "copy" /\ output' = "remove" /\ (Fails \/ UNCHANGED failures)
      /\ UNCHANGED <<tool, kind, at, read, admitted, aborted, again, effects, result, container,
                     cancelled, lines, ended, server, answers, input, visiting, table, serving,
                     stopping, staged, leaked, caught, connector>>
  BY DEF Copy, tool, effects, stdin, inbound
<1>3. PICK r \in Request : r = serving
  BY <1>2, Serve
<1>4. /\ at[r] = "off" /\ ~Returning(r) /\ r \notin table /\ ~Waiting(r) /\ container
      /\ connector = "up"
  BY <1>2, <1>3, Serve
<1>5. /\ call' \in [Request -> {"new", "open", "ok", "error"}] /\ call'[r] \in {"ok", "error"}
      /\ \A q \in Request \ {r} : call'[q] = call[q]
      /\ copied' \subseteq Request
  BY <1>1, <1>3 DEF Copy, Answer, RestTypeOK
<1>6. /\ LinesOnce' /\ \A q \in Request : Queued(q)' <=> Queued(q)
      /\ AnswersOnce' /\ \A q \in Request : Returning(q)' <=> Returning(q)
  BY <1>1, <1>2, LinesKept, AnswersKept
<1>7. ToolInv'
  BY <1>1, <1>2, AsideOK
<1>8. RestTypeOK'
  BY <1>1, <1>2, <1>5 DEF RestTypeOK
<1>9. PartsOK'
  BY <1>1, <1>2, <1>4 DEF PartsOK
<1>10. ASSUME NEW q \in Request PROVE PlaceOK(q)'
  <2>1. CASE q # r
    BY <1>1, <1>2, <1>3, <1>5, <1>6, <2>1, SameOK DEF Same, Served
  <2>2. CASE q = r
    <3>1. ~Waiting(r)' /\ ~Queued(r)' /\ ~Visited(r)' /\ ~Returning(r)' /\ Served(r)'
      BY <1>2, <1>3, <1>4, <1>5, <1>6 DEF Waiting, Visited, Served
    <3> QED BY <1>1, <1>2, <1>4, <1>5, <2>2, <3>1 DEF PlaceOK, Visited
  <2> QED BY <2>1, <2>2
<1> QED BY <1>6, <1>7, <1>8, <1>9, <1>10, Parts

LEMMA RemoveServedOK ==
  ASSUME IInv, RemoveServed
  PROVE  IInv'
<1>1. /\ ToolInv /\ RestTypeOK /\ LinesOnce /\ AnswersOnce /\ PartsOK
      /\ \A q \in Request : PlaceOK(q)
  BY Parts
<1>2. /\ output = "remove" /\ output' = "read" /\ serving' = Nobody
      /\ UNCHANGED <<tool, kind, at, read, admitted, aborted, again, effects, result, container,
                     call, cancelled, lines, ended, server, answers, input, visiting, table,
                     stopping, copied, caught, connector>>
  BY DEF RemoveServed, tool, effects, client, stdin, inbound
<1>3. PICK r \in Request : r = serving
  BY <1>2, Serve
<1>4. /\ at[r] = "off" /\ ~Returning(r) /\ r \notin table /\ ~Waiting(r) /\ container
      /\ connector = "up"
  BY <1>2, <1>3, Serve
<1>5. staged' = staged \ {r} /\ leaked' \subseteq Request /\ (Fails \/ UNCHANGED failures)
  BY <1>1, <1>3, RemovesTyped DEF RemoveServed
<1>6. /\ LinesOnce' /\ \A q \in Request : Queued(q)' <=> Queued(q)
      /\ AnswersOnce' /\ \A q \in Request : Returning(q)' <=> Returning(q)
  BY <1>1, <1>2, LinesKept, AnswersKept
<1>7. ToolInv'
  BY <1>1, <1>2, <1>5, AsideOK
<1>8. RestTypeOK'
  BY <1>1, <1>2, <1>5 DEF RestTypeOK
<1>9. PartsOK'
  BY <1>1, <1>2, <1>4 DEF PartsOK
<1>10. ASSUME NEW q \in Request PROVE PlaceOK(q)'
  <2>1. CASE q # r
    BY <1>1, <1>2, <1>3, <1>5, <1>6, <2>1, SameOK DEF Same, Served
  <2>2. CASE q = r
    <3>1. ~Waiting(r)' /\ ~Queued(r)' /\ ~Visited(r)' /\ ~Returning(r)' /\ ~Served(r)'
      BY <1>2, <1>3, <1>4, <1>6 DEF Waiting, Visited, Served
    <3> QED BY <1>1, <1>2, <1>4, <1>5, <2>2, <3>1 DEF PlaceOK, Visited
  <2> QED BY <2>1, <2>2
<1> QED BY <1>6, <1>7, <1>8, <1>9, <1>10, Parts

LEMMA SweepOK ==
  ASSUME IInv, Sweep
  PROVE  IInv' /\ staged' = {}
<1>1. /\ ToolInv /\ RestTypeOK /\ LinesOnce /\ AnswersOnce /\ PartsOK
      /\ \A q \in Request : PlaceOK(q)
  BY Parts
<1>2. /\ container /\ stopping /\ input = "end" /\ answers = <<>> /\ output = "read"
      /\ table' = {} /\ connector' = "gone" /\ Removes(table)
      /\ UNCHANGED <<tool, kind, at, read, admitted, aborted, again, effects, result, container,
                     call, cancelled, lines, ended, server, answers, input, visiting, output,
                     serving, stopping, copied, caught>>
  BY DEF Sweep, tool, effects, client, stdin, inbound, outbound
<1>3. staged' = staged \ table /\ leaked' \subseteq Request /\ (Fails \/ UNCHANGED failures)
  BY <1>1, <1>2, RemovesTyped
<1>4. staged' = {}
  BY <1>1, <1>2, <1>3 DEF PlaceOK, Visited, Served, RestTypeOK
<1>5. /\ LinesOnce' /\ \A q \in Request : Queued(q)' <=> Queued(q)
      /\ AnswersOnce' /\ \A q \in Request : Returning(q)' <=> Returning(q)
  BY <1>1, <1>2, LinesKept, AnswersKept
<1>6. ToolInv'
  BY <1>1, <1>2, <1>3, AsideOK
<1>7. RestTypeOK'
  BY <1>1, <1>2, <1>3, <1>4 DEF RestTypeOK
<1>8. PartsOK'
  BY <1>1, <1>2 DEF PartsOK
<1>9. ASSUME NEW q \in Request PROVE PlaceOK(q)'
  <2>1. at[q] = "off" /\ ~Returning(q) /\ ~Served(q) /\ ~Served(q)' /\ ~Visited(q) /\ ~Visited(q)'
    BY <1>1, <1>2, <1>5 DEF PartsOK, Returning, Visited, Served
  <2> QED BY <1>1, <1>2, <1>4, <1>5, <2>1 DEF PlaceOK, Waiting
<1> QED BY <1>4, <1>5, <1>6, <1>7, <1>8, <1>9, Parts

LEMMA StutterOK ==
  ASSUME IInv, UNCHANGED vars
  PROVE  IInv'
<1>1. UNCHANGED <<tool, handler, container, client, stdin, server, answers, inbound, table,
                  outbound, stopping, dirs, caught, connector>>
  BY DEF vars, proxy
<1>2. Quiet /\ UNCHANGED <<tool, handler, cancelled, leaked, copied, server, ended, input, stopping,
                           caught>>
  BY <1>1 DEF Quiet, tool, handler, client, stdin, inbound, outbound, dirs
<1>3. ToolInv'
  BY <1>2, Parts, AsideOK DEF handler, effects
<1>4. RestTypeOK' /\ PartsOK'
  BY <1>2, Parts DEF Quiet, RestTypeOK, PartsOK
<1> QED BY <1>2, <1>3, <1>4, QuietOK

LEMMA Inductive == IInv /\ [Next]_vars => IInv'
<1> SUFFICES ASSUME IInv, [Next]_vars PROVE IInv'
  OBVIOUS
<1>1. ASSUME NEW r \in Request, Submit(r) \/ Cancel(r) \/ ServerStep(r) \/ Respond(r)
      PROVE  IInv'
  BY <1>1, SubmitOK, CancelOK, ServerStepOK, RespondOK
<1>2. CASE CloseInput \/ InputEnds \/ StopInput
  BY <1>2, EndsOK
<1>3. CASE ServerEnds \/ ServerDies
  BY <1>3, ExitsOK
<1>4. CASE VisitCancel \/ VisitOther \/ VisitSend \/ VisitSave
  BY <1>4, VisitCancelOK, VisitOtherOK, VisitSendOK, VisitSaveOK
<1>5. CASE StageEnds \/ Undo \/ Refuse
  BY <1>5, StageEndsOK, UndoOK, RefuseOK
<1>6. CASE OutputStep
  BY <1>6, RelayOK, CopyOK, RemoveServedOK DEF OutputStep
<1>7. CASE Sweep
  BY <1>7, SweepOK
<1>8. CASE UNCHANGED vars
  BY <1>8, StutterOK
<1> QED BY <1>1, <1>2, <1>3, <1>4, <1>5, <1>6, <1>7, <1>8 DEF Next, InputStep

LEMMA InitOK == ProxyInit => IInv
<1> SUFFICES ASSUME ProxyInit PROVE IInv
  OBVIOUS
<1>1. TypeOK /\ RestTypeOK
  <2>1. 0 \in 0 .. MaxFailures
    BY MaxFailuresAssumption
  <2>2. TypeOK
    BY <2>1 DEF ProxyInit, Init, TypeOK, Results, Working
  <2>3. call \in [Request -> {"new", "open", "ok", "error"}]
    BY DEF ProxyInit
  <2>4. lines \in Seq({"call", "cancel"} \X Request) /\ answers \in Seq(Request \X Results)
    BY DEF ProxyInit
  <2> QED BY <2>2, <2>3, <2>4 DEF ProxyInit, RestTypeOK
<1>2. ASSUME NEW r \in Request PROVE HandlerOK(r) /\ PlaceOK(r)
  BY <1>2, <1>1 DEF ProxyInit, Init, HandlerOK, PlaceOK, Queued, Visited, Returning, Served,
     Waiting, Working, Results
<1>3. LinesOnce /\ AnswersOnce /\ PartsOK
  BY DEF ProxyInit, Init, LinesOnce, AnswersOnce, PartsOK
<1> QED BY <1>1, <1>2, <1>3, TypesSplit DEF IInv, ToolInv

------------------------------------------------------------------------------
(* The types of client, queues, proxy and server hold throughout, and a    *)
(* call is in one place at a time.                                         *)
THEOREM Invariance == Spec => []IInv
BY InitOK, Inductive, PTL DEF Spec

(* Every variable of the model keeps its type. *)
THEOREM TypeCorrect == Spec => []ProxyTypeOK
<1>1. IInv => ProxyTypeOK
  BY DEF IInv
<1> QED BY <1>1, Invariance, PTL

(* An admission is held exactly while the handler it was granted for is    *)
(* at work, wherever the handler fails, starts over, is aborted or dies.   *)
THEOREM HandlersAreAdmitted == Spec => []AdmissionSpansHandler
<1>1. IInv => AdmissionSpansHandler
  BY DEF IInv, ToolInv, HandlerOK, AdmissionSpansHandler
<1> QED BY <1>1, Invariance, PTL

(* Rows the daemon has marked read are in what the handler returns. *)
THEOREM ReadRowsAreReported == Spec => []ReadIsReported
<1>1. IInv => ReadIsReported
  BY DEF IInv, ToolInv, HandlerOK, ReadIsReported
<1> QED BY <1>1, Invariance, PTL

------------------------------------------------------------------------------
(* The refinement of TransferContract. *)

Saves == {r \in Request : kind[r] = "save"}
CallSeen == [r \in Request |-> IF call[r] = "open" /\ connector = "gone" THEN "lost" ELSE call[r]]
Used == {r \in Request : container /\ kind[r] # "get" /\ at[r] # "off"}
Up == connector = "up"

ContractStep == [Contract!Next /\ UNCHANGED Saves]_(Contract!vars)

(* As long as the connector is there a call is what the client has of it.  *)
LEMMA SeenUp ==
  /\ RestTypeOK /\ connector = "up" => CallSeen = call
  /\ RestTypeOK' /\ connector' = "up" => CallSeen' = call'
<1>1. RestTypeOK /\ connector = "up" => CallSeen = call
  BY DEF RestTypeOK, CallSeen
<1>2. RestTypeOK' /\ connector' = "up" => CallSeen' = call'
  BY DEF RestTypeOK, CallSeen
<1> QED BY <1>1, <1>2

LEMMA Stays ==
  ASSUME UNCHANGED <<kind, container, call, staged, leaked, copied, connector>>, Used' = Used
  PROVE  ContractStep
BY DEF ContractStep, Contract!vars, Used

LEMMA SubmitRefines ==
  ASSUME IInv, NEW r \in Request, Submit(r)
  PROVE  ContractStep
<1>1. IInv' /\ RestTypeOK /\ RestTypeOK' /\ PartsOK
  BY SubmitOK, Parts, TypesSplit DEF IInv
<1>2. /\ call[r] = "new" /\ connector = "up" /\ call' = [call EXCEPT ![r] = "open"]
      /\ UNCHANGED <<kind, container, staged, leaked, copied, connector>>
      /\ container => UNCHANGED at
  BY DEF Submit, Answer, tool, dirs, handler
<1>3. CallSeen = call /\ CallSeen' = call'
  BY <1>1, <1>2, SeenUp
<1>4. Used' = Used /\ Saves' = Saves
  BY <1>2 DEF Used, Saves
<1>5. Contract!Submit(r)
  BY <1>2, <1>3, <1>4 DEF Contract!Submit, CallSeen, Used
<1> QED BY <1>4, <1>5 DEF ContractStep, Contract!Next

LEMMA RespondRefines ==
  ASSUME IInv, NEW r \in Request, Respond(r)
  PROVE  ContractStep
<1>1. RestTypeOK /\ RestTypeOK' /\ PartsOK /\ ToolInv /\ PlaceOK(r) /\ HandlerOK(r)
  BY RespondOK, Parts, TypesSplit DEF IInv, ToolInv
<1>2. at[r] = "reply" /\ at' = [at EXCEPT ![r] = "off"]
      /\ UNCHANGED <<kind, container, staged, leaked, connector>>
  BY <1>1, RepliedOK DEF Respond
<1>3. at'[r] = "off" /\ \A q \in Request \ {r} : at'[q] = at[q]
  BY <1>1, <1>2 DEF ToolInv, TypeOK
<1>4. call[r] = "open" /\ connector = "up" /\ CallSeen = call /\ CallSeen' = call' /\ Saves' = Saves
  BY <1>1, <1>2, SeenUp DEF PlaceOK, PartsOK, RestTypeOK, Saves
<1>5. CASE UNCHANGED <<call, copied>>
  <2>1. Used' = Used \ {r}
    BY <1>2, <1>3 DEF Used
  <2>2. Contract!Leave({r})
    BY <1>2, <1>4, <1>5, <2>1 DEF Contract!Leave, CallSeen, Used
  <2> QED BY <1>4, <2>2 DEF ContractStep, Contract!Next
<1>6. CASE ~container /\ Answer(r, result[r]) /\ copied' = copied \cup ({r} \cap written)
  <2>1. Used = {} /\ Used' = {}
    BY <1>2, <1>6 DEF Used
  <2>2. result[r] \in {"ok", "error"}
    BY <1>1 DEF ToolInv, TypeOK, Results
  <2>3. copied' \in {copied, copied \cup ({r} \cap Saves)}
        /\ (result[r] = "ok" /\ r \in Saves => r \in copied')
    BY <1>1, <1>6 DEF HandlerOK, Saves
  <2>4. ASSUME NEW how \in {"ok", "error"}, how = result[r] PROVE Contract!Answer(r, how)
    BY <1>2, <1>4, <1>6, <2>1, <2>3, <2>4 DEF Contract!Answer, Answer, CallSeen, Used, Saves
  <2>5. Contract!Answer(r, "ok") \/ Contract!Answer(r, "error")
    BY <2>2, <2>4
  <2> QED BY <1>4, <2>5 DEF ContractStep, Contract!Next
<1> QED BY <1>5, <1>6 DEF Respond

LEMMA ExitsRefines ==
  ASSUME IInv, ServerEnds \/ ServerDies
  PROVE  ContractStep
<1>1. /\ RestTypeOK /\ RestTypeOK' /\ PartsOK /\ ToolInv /\ (\A r \in Request : at'[r] = "off")
      /\ UNCHANGED kind
  <2>1. Killed /\ (Fails \/ UNCHANGED failures)
    BY DEF ServerEnds, ServerDies, Exits
  <2> QED BY <2>1, ExitsOK, Parts, KilledOK, TypesSplit DEF IInv
<1>2. /\ server = "up" /\ connector' = IF container THEN "up" ELSE "gone"
      /\ UNCHANGED <<container, call, staged, leaked, copied>>
  BY DEF ServerEnds, ServerDies, Exits, client, dirs
<1>3. Used' = {} /\ Saves' = Saves
  BY <1>1, <1>2 DEF Used, Saves
<1>4. CASE container
  <2>1. connector = "up" /\ connector' = "up"
    BY <1>1, <1>2, <1>4 DEF PartsOK, RestTypeOK
  <2>2. CallSeen' = CallSeen
    BY <1>1, <1>2, <2>1, SeenUp
  <2>3. Used' = Used \ Request
    BY <1>3 DEF Used
  <2>4. Contract!Leave(Request)
    BY <1>2, <2>1, <2>2, <2>3 DEF Contract!Leave, CallSeen, Used
  <2> QED BY <1>3, <2>4 DEF ContractStep, Contract!Next
<1>5. CASE ~container
  <2>1. connector = "up" /\ connector' = "gone" /\ staged = {}
    BY <1>1, <1>2, <1>5 DEF PartsOK
  <2>2. CallSeen = call
        /\ CallSeen' = [r \in Request |-> IF CallSeen[r] = "open" THEN "lost" ELSE CallSeen[r]]
    BY <1>1, <1>2, <2>1, SeenUp DEF CallSeen
  <2>3. Contract!Remove(staged, {})
    BY <1>2, <1>5, <2>1 DEF Contract!Remove
  <2>4. Contract!Gone
    BY <1>2, <1>3, <2>1, <2>2, <2>3 DEF Contract!Gone, CallSeen, Used
  <2> QED BY <1>3, <2>1, <2>4 DEF ContractStep, Contract!Next
<1> QED BY <1>4, <1>5

(* The proxy works on a call while the connector is there. *)
LEMMA StagesRefines ==
  ASSUME IInv, NEW r \in Request, call[r] = "open", connector = "up", RestTypeOK',
         UNCHANGED <<kind, container, call, leaked, copied, connector>>,
         at[r] = "off", container, \A q \in Request \ {r} : at'[q] = at[q],
         at' = at \/ kind[r] = "get" \/ (at'[r] # "off" /\ staged' = staged \cup {r}),
         staged' = staged \/ staged' = staged \cup {r},
         staged' # staged => kind[r] # "get"
  PROVE  ContractStep
<1>1. CallSeen' = CallSeen /\ CallSeen[r] = "open" /\ Saves' = Saves
  BY SeenUp, Parts DEF Saves
<1>2. CASE Used' = Used
  <2>1. CASE staged' = staged
    BY <1>2, <2>1, Stays
  <2>2. CASE staged' = staged \cup {r}
    <3>1. Contract!Stage(r)
      BY <1>1, <1>2, <2>2 DEF Contract!Stage, CallSeen, Used
    <3> QED BY <1>1, <3>1 DEF ContractStep, Contract!Next
  <2> QED BY <2>1, <2>2
<1>3. CASE Used' # Used
  <2>1. at'[r] # "off" /\ staged' = staged \cup {r} /\ kind[r] # "get"
    BY <1>3 DEF Used
  <2>2. Used' = Used \cup {r}
    BY <2>1 DEF Used
  <2>3. Contract!Use(r)
    BY <1>1, <2>1, <2>2 DEF Contract!Use, CallSeen, Used
  <2> QED BY <1>1, <2>3 DEF ContractStep, Contract!Next
<1> QED BY <1>2, <1>3

LEMMA VisitRefines ==
  ASSUME IInv, VisitOther \/ VisitSend \/ VisitSave
  PROVE  ContractStep
<1>1. ReadsLine("call")
  BY DEF VisitOther, VisitSend, VisitSave
<1>2. PICK r \in Request : r = Line
  BY <1>1, TakesLine
<1>3. /\ container /\ connector = "up" /\ call[r] = "open" /\ at[r] = "off" /\ r \notin read
      /\ UNCHANGED <<tool, kind, container, call, leaked, copied, connector>>
  BY <1>1, <1>2, TakesLine
<1>4. RestTypeOK'
  BY VisitOtherOK, VisitSendOK, VisitSaveOK, TypesSplit DEF IInv
<1>5. CASE VisitOther
  <2>1. kind[r] = "get" /\ staged' = staged /\ \A q \in Request \ {r} : at'[q] = at[q]
    BY <1>2, <1>3, <1>5, ForwardOK DEF VisitOther
  <2> QED BY <1>3, <1>4, <2>1, StagesRefines
<1>6. CASE VisitSend
  <2>1. kind[r] = "send" /\ staged' = staged \cup {r} /\ UNCHANGED at
    BY <1>2, <1>6 DEF VisitSend, MakesDir, handler
  <2> QED BY <1>3, <1>4, <2>1, StagesRefines
<1>7. CASE VisitSave
  <2>1. CASE staged' = staged \cup {r} /\ Forward(r)
    <3>1. /\ \A q \in Request \ {r} : at'[q] = at[q]
          /\ at' = at \/ at'[r] # "off"
      BY <1>3, <2>1, ForwardOK
    <3>2. kind[r] = "save"
      BY <1>2, <1>7 DEF VisitSave
    <3> QED BY <1>3, <1>4, <2>1, <3>1, <3>2, StagesRefines
  <2>2. CASE (UNCHANGED staged \/ staged' = staged \cup {r}) /\ UNCHANGED at
    <3>1. kind[r] = "save"
      BY <1>2, <1>7 DEF VisitSave
    <3> QED BY <1>3, <1>4, <2>2, <3>1, StagesRefines
  <2> QED BY <1>2, <1>7, <2>1, <2>2 DEF VisitSave, MakesDir
<1> QED BY <1>5, <1>6, <1>7

LEMMA CleanRefines ==
  ASSUME IInv, RestTypeOK', NEW r \in Request, at[r] = "off",
         NEW L \in SUBSET ({r} \cap staged), staged' = staged \ {r}, leaked' = leaked \cup L,
         UNCHANGED <<kind, container, call, copied, connector, at>>
  PROVE  ContractStep
<1> DEFINE R == {r} \cap staged
<1>1. CallSeen' = CallSeen /\ Used' = Used /\ Saves' = Saves /\ R \cap Used = {}
  BY DEF CallSeen, Used, Saves
<1>2. R \in SUBSET staged /\ L \in SUBSET R /\ staged' = staged \ R
  OBVIOUS
<1>3. Contract!Remove(R, L)
  BY <1>1, <1>2 DEF Contract!Remove, Used
<1>4. Contract!Clean(R, L)
  BY <1>1, <1>3 DEF Contract!Clean, CallSeen, Used
<1> QED BY <1>1, <1>2, <1>4 DEF ContractStep, Contract!Next

LEMMA StageEndsRefines ==
  ASSUME IInv, StageEnds
  PROVE  ContractStep
<1>1. input = "stage"
  BY DEF StageEnds
<1>2. PICK r \in Request : r = visiting
  BY <1>1, Visit
<1>3. /\ call[r] = "open" /\ at[r] = "off" /\ r \notin read /\ container /\ connector = "up"
      /\ r \in staged
  BY <1>1, <1>2, Visit
<1>4. UNCHANGED <<tool, kind, container, call, leaked, copied, connector>> /\ RestTypeOK'
  BY StageEndsOK, TypesSplit DEF StageEnds, tool, client, IInv
<1>5. CASE Forward(r) /\ UNCHANGED staged
  <2>1. /\ \A q \in Request \ {r} : at'[q] = at[q]
        /\ at' = at \/ at'[r] # "off"
    BY <1>3, <1>4, <1>5, ForwardOK
  <2>2. staged' = staged \cup {r}
    BY <1>3, <1>5
  <2> QED BY <1>3, <1>4, <1>5, <2>1, <2>2, StagesRefines
<1>6. CASE staged' \in {staged, staged \ {r}} /\ UNCHANGED at
  <2>1. CASE staged' = staged
    BY <1>4, <1>6, <2>1, Stays DEF Used
  <2>2. CASE staged' = staged \ {r}
    <3>1. leaked' = leaked \cup {}
      BY <1>4
    <3> QED BY <1>3, <1>4, <1>6, <2>2, <3>1, CleanRefines
  <2> QED BY <1>6, <2>1, <2>2
<1> QED BY <1>2, <1>5, <1>6 DEF StageEnds

LEMMA UndoRefines ==
  ASSUME IInv, Undo
  PROVE  ContractStep
<1>1. input = "undo"
  BY DEF Undo
<1>2. PICK r \in Request : r = visiting
  BY <1>1, Visit
<1>3. at[r] = "off"
  BY <1>1, <1>2, Visit
<1>4. UNCHANGED <<kind, container, call, copied, connector, at>> /\ RestTypeOK'
  BY UndoOK, TypesSplit DEF Undo, tool, client, IInv
<1>5. PICK L \in SUBSET ({r} \cap staged) : leaked' = leaked \cup L
  <2>1. CASE UNCHANGED leaked
    <3>1. leaked' = leaked \cup {}
      BY <2>1
    <3> QED BY <3>1
  <2> QED BY <1>2, <2>1 DEF Undo, Removes
<1> QED BY <1>2, <1>3, <1>4, <1>5, CleanRefines DEF Undo, Removes

LEMMA RemoveServedRefines ==
  ASSUME IInv, RemoveServed
  PROVE  ContractStep
<1>1. output = "remove"
  BY DEF RemoveServed
<1>2. PICK r \in Request : r = serving
  BY <1>1, Serve
<1>3. at[r] = "off"
  BY <1>1, <1>2, Serve
<1>4. UNCHANGED <<kind, container, call, copied, connector, at>> /\ RestTypeOK'
  BY RemoveServedOK, TypesSplit DEF RemoveServed, tool, client, IInv
<1>5. PICK L \in SUBSET ({r} \cap staged) : leaked' = leaked \cup L
  <2>1. CASE UNCHANGED leaked
    <3>1. leaked' = leaked \cup {}
      BY <2>1
    <3> QED BY <3>1
  <2> QED BY <1>2, <2>1 DEF RemoveServed, Removes
<1> QED BY <1>2, <1>3, <1>4, <1>5, CleanRefines DEF RemoveServed, Removes

(* The proxy answers a call. *)
LEMMA AnswerRefines ==
  ASSUME IInv, RestTypeOK', NEW r \in Request, NEW how \in {"ok", "error"}, Answer(r, how),
         call[r] = "open", at[r] = "off", connector = "up",
         copied' = copied \/ copied' = copied \cup ({r} \cap Saves),
         how = "ok" /\ kind[r] = "save" => r \in copied',
         UNCHANGED <<kind, container, staged, leaked, connector, at>>
  PROVE  ContractStep
<1>1. CallSeen = call /\ CallSeen' = call' /\ Used' = Used /\ Saves' = Saves /\ r \notin Used
  BY SeenUp, Parts DEF Used, Saves
<1>2. how = "ok" /\ r \in Saves => r \in copied'
  BY DEF Saves
<1>3. Contract!Answer(r, how)
  BY <1>1, <1>2 DEF Contract!Answer, Answer, CallSeen, Used, Saves
<1>4. Contract!Answer(r, "ok") \/ Contract!Answer(r, "error")
  BY <1>3
<1> QED BY <1>1, <1>4 DEF ContractStep, Contract!Next

LEMMA RefuseRefines ==
  ASSUME IInv, Refuse
  PROVE  ContractStep
<1>1. input = "refuse"
  BY DEF Refuse
<1>2. PICK r \in Request : r = visiting
  BY <1>1, Visit
<1>3. call[r] = "open" /\ at[r] = "off" /\ connector = "up"
  BY <1>1, <1>2, Visit
<1>4. UNCHANGED <<kind, container, staged, leaked, copied, connector, at>> /\ RestTypeOK'
      /\ Answer(r, "error")
  BY <1>2, RefuseOK, TypesSplit DEF Refuse, tool, handler, dirs, IInv
<1> QED BY <1>3, <1>4, AnswerRefines

LEMMA RelayRefines ==
  ASSUME IInv, Relay
  PROVE  ContractStep
<1>1. /\ RestTypeOK' /\ PartsOK /\ RestTypeOK /\ answers # <<>>
      /\ UNCHANGED <<kind, container, staged, leaked, copied, connector, at>>
  BY RelayOK, Parts, TypesSplit DEF Relay, tool, handler, dirs, IInv
<1>2. PICK r \in Request, how \in {"ok", "error"} : r = Head(answers)[1] /\ how = Head(answers)[2]
  <2>1. Head(answers) \in Request \X Results
    BY Parts, AnswerRead DEF Relay
  <2> QED BY <2>1 DEF Results
<1>3. Returning(r)
  BY <1>2, Parts, AnswerRead DEF Relay
<1>4. call[r] = "open" /\ at[r] = "off" /\ (kind[r] # "get" => r \in table) /\ connector = "up"
  BY <1>1, <1>3, Parts DEF PlaceOK, PartsOK, RestTypeOK
<1>5. CASE Answer(r, how) /\ ~(kind[r] = "save" /\ how = "ok")
  BY <1>1, <1>4, <1>5, AnswerRefines
<1>6. CASE UNCHANGED call
  BY <1>1, <1>6, Stays DEF Used
<1>7. \/ Answer(r, how) /\ ~(kind[r] = "save" /\ how = "ok")
      \/ UNCHANGED call
  BY <1>2, <1>4 DEF Relay
<1> QED BY <1>5, <1>6, <1>7

LEMMA CopyRefines ==
  ASSUME IInv, Copy
  PROVE  ContractStep
<1>1. output = "copy"
  BY DEF Copy
<1>2. PICK r \in Request : r = serving
  BY <1>1, Serve
<1>3. call[r] = "open" /\ at[r] = "off" /\ connector = "up" /\ kind[r] = "save"
  BY <1>1, <1>2, Serve
<1>4. UNCHANGED <<kind, container, staged, leaked, connector, at>> /\ RestTypeOK'
  BY CopyOK, TypesSplit DEF Copy, tool, IInv
<1>5. r \in Saves
  BY <1>3 DEF Saves
<1>6. CASE copied' = copied \cup {r} /\ Answer(r, "ok")
  <2>1. copied' = copied \cup ({r} \cap Saves) /\ r \in copied'
    BY <1>5, <1>6
  <2> QED BY <1>3, <1>4, <1>6, <2>1, AnswerRefines
<1>7. CASE Answer(r, "error") /\ UNCHANGED copied
  BY <1>3, <1>4, <1>7, AnswerRefines
<1> QED BY <1>2, <1>6, <1>7 DEF Copy

LEMMA SweepRefines ==
  ASSUME IInv, Sweep
  PROVE  ContractStep
<1>1. /\ RestTypeOK /\ RestTypeOK' /\ PartsOK /\ staged' = {}
      /\ \A q \in Request : PlaceOK(q)
  BY SweepOK, Parts, TypesSplit DEF IInv
<1>2. /\ connector = "up" /\ connector' = "gone" /\ stopping /\ Removes(table)
      /\ UNCHANGED <<kind, container, call, copied, at>>
  BY DEF Sweep, tool, client
<1>3. /\ CallSeen = call /\ Saves' = Saves
      /\ CallSeen' = [r \in Request |-> IF CallSeen[r] = "open" THEN "lost" ELSE CallSeen[r]]
  BY <1>1, <1>2, SeenUp DEF CallSeen, Saves
<1>4. Used = {} /\ Used' = {}
  BY <1>1, <1>2 DEF PartsOK, Used
<1>5. PICK L \in SUBSET staged : leaked' = leaked \cup L
  <2>1. CASE UNCHANGED leaked
    <3>1. leaked' = leaked \cup {}
      BY <2>1
    <3> QED BY <3>1
  <2> QED BY <1>2, <2>1 DEF Removes
<1>6. Contract!Remove(staged, L)
  BY <1>1, <1>4, <1>5 DEF Contract!Remove, Used
<1>7. Contract!Gone
  BY <1>2, <1>3, <1>4, <1>5, <1>6 DEF Contract!Gone, CallSeen, Used
<1> QED BY <1>2, <1>3, <1>7 DEF ContractStep, Contract!Next

LEMMA NextRefines == IInv /\ [Next]_vars => ContractStep
<1> SUFFICES ASSUME IInv, [Next]_vars PROVE ContractStep
  OBVIOUS
<1>1. ASSUME NEW r \in Request, Submit(r) \/ Respond(r) PROVE ContractStep
  BY <1>1, SubmitRefines, RespondRefines
<1>2. ASSUME NEW r \in Request, Cancel(r) PROVE ContractStep
  BY <1>2, CancelOK, Stays DEF Used
<1>3. ASSUME NEW r \in Request, ServerStep(r) PROVE ContractStep
  <2>1. Used' = Used
    BY <1>3, ServerStepOK DEF Used
  <2> QED BY <1>3, <2>1, ServerStepOK, Stays
<1>4. CASE CloseInput \/ InputEnds \/ StopInput
  BY <1>4, EndsOK, Stays DEF Used
<1>5. CASE ServerEnds \/ ServerDies
  BY <1>5, ExitsRefines
<1>6. CASE VisitCancel
  BY <1>6, VisitCancelOK, Stays DEF Used
<1>7. CASE VisitOther \/ VisitSend \/ VisitSave
  BY <1>7, VisitRefines
<1>8. CASE StageEnds \/ Undo \/ Refuse
  BY <1>8, StageEndsRefines, UndoRefines, RefuseRefines
<1>9. CASE OutputStep
  BY <1>9, RelayRefines, CopyRefines, RemoveServedRefines DEF OutputStep
<1>10. CASE Sweep
  BY <1>10, SweepRefines
<1>11. CASE UNCHANGED vars
  BY <1>11, Stays DEF vars, tool, handler, proxy, client, dirs, Used
<1> QED BY <1>1, <1>2, <1>3, <1>4, <1>5, <1>6, <1>7, <1>8, <1>9, <1>10, <1>11 DEF Next, InputStep

(* Proxy, server and handlers together do what TransferContract allows:    *)
(* one answer a call, a save that succeeds only with the file on the host, *)
(* a staged copy that outlives its handler and not its connector.          *)
THEOREM Refinement == Spec => ContractSpec
<1>1. ProxyInit => Contract!Init
  BY DEF ProxyInit, Init, Contract!Init
<1>2. IInv /\ [Next]_vars => [Contract!Next /\ UNCHANGED Saves]_(Contract!vars)
  BY NextRefines DEF ContractStep
<1> QED BY <1>1, <1>2, Invariance, PTL DEF Spec, ContractSpec, Contract!Spec, Saves
==============================================================================
