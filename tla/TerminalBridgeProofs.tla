------------------------ MODULE TerminalBridgeProofs ------------------------
(***************************************************************************)
(* The terminal bridge implements Outcome, for every number of streams,    *)
(* file sends, inputs and chunks.                                          *)
(*                                                                         *)
(* Only the batches matter: Inv says what each place of a batch implies    *)
(* about what was written of it, and every action changes one batch in one *)
(* of three ways that Outcome allows.                                      *)
(***************************************************************************)
EXTENDS TerminalBridge, FiniteSetTheorems, TLAPS

Batch == [at : {"new", "attach", "lock", "write", "broken", "read", "press", "answered"},
          kind : {"text", "key", "release"}, on : Sessions \cup {None}, sent : Nat,
          effect : {"none", "some", "all"},
          outcome : {"pending", "not_sent", "occupied", "forwarded", "unknown"}]

\* What is written of a batch, by where it is: nothing before its first chunk,
\* and all of it after its last.
Progress(b) ==
    /\ batch[b].outcome = "pending" <=> batch[b].at # "answered"
    /\ batch[b].at \in {"new", "attach", "lock", "read", "press"} =>
          batch[b].effect = "none" /\ batch[b].sent = 0
    /\ batch[b].at = "write" => (batch[b].effect = "all" <=> batch[b].sent = Size(b))

Inv == batch \in [Batches -> Batch] /\ \A b \in Batches : Progress(b)

-----------------------------------------------------------------------------
\* The three ways a step changes what Outcome sees of a batch.
Unseen(b)    == batch'[b].effect = batch[b].effect /\ batch'[b].outcome = batch[b].outcome
Grown(b)     == /\ batch[b].outcome = "pending" /\ batch'[b].outcome = "pending"
                /\ batch[b].effect # "all" /\ batch'[b].effect \in {"some", "all"}
Concluded(b) == /\ batch[b].outcome = "pending" /\ batch'[b].outcome # "pending"
                /\ batch[b].effect # "none" => batch'[b].effect # "none"
                /\ batch[b].effect = "all" => batch'[b].effect = "all"
                /\ batch'[b].outcome \in {"not_sent", "occupied"} => batch'[b].effect = "none"
                /\ batch'[b].outcome = "forwarded" => batch'[b].effect = "all"

\* A step that leaves the other batches alone and changes b in one of these ways.
Moves(b) ==
    /\ batch' = [batch EXCEPT ![b] = batch'[b]]
    /\ batch'[b] \in Batch
    /\ Progress(b)'
    /\ Unseen(b) \/ Grown(b) \/ Concluded(b)

\* Such a step keeps the invariant.
LEMMA MovesKeepInv == ASSUME Inv, NEW b \in Batches, Moves(b) PROVE Inv'
<1>1. batch' \in [Batches -> Batch]
  BY DEF Inv, Moves
<1>2. ASSUME NEW c \in Batches PROVE Progress(c)'
  <2>1. CASE c = b
    BY <2>1 DEF Moves
  <2>2. CASE c # b
    <3>1. batch'[c] = batch[c]
      BY <2>2 DEF Inv, Moves
    <3> QED
      BY <3>1 DEF Inv, Progress, Size
  <2> QED
    BY <2>1, <2>2
<1> QED
  BY <1>1, <1>2 DEF Inv

\* Such a step is one of Outcome's, or a stutter.
LEMMA MovesImplement ==
    ASSUME Inv, NEW b \in Batches, Moves(b)
    PROVE  [Answers!Next]_Answers!vars
<1> DEFINE eff == [c \in Batches |-> batch[c].effect]
           ans == [c \in Batches |-> AnswerFor(batch[c].outcome)]
           next == [c \in Batches |-> batch'[c].effect]
           told == [c \in Batches |-> AnswerFor(batch'[c].outcome)]
           now == batch'[b].effect
           reply == AnswerFor(batch'[b].outcome)
<1>0. /\ batch \in [Batches -> Batch] /\ batch' \in [Batches -> Batch]
      /\ \A c \in Batches : c # b => batch'[c] = batch[c]
  BY DEF Inv, Moves
<1>1. next = [eff EXCEPT ![b] = now] /\ told = [ans EXCEPT ![b] = reply]
  BY <1>0
<1>2. eff[b] = batch[b].effect /\ ans[b] = AnswerFor(batch[b].outcome)
  OBVIOUS
<1>3. CASE Unseen(b)
  <2>1. next = eff /\ told = ans
    BY <1>0, <1>3 DEF Unseen
  <2> QED
    BY <2>1 DEF Answers!vars
<1>4. CASE Grown(b)
  <2>1. ans[b] = "pending" /\ told = ans
    BY <1>0, <1>4 DEF Grown, AnswerFor
  <2>2. eff[b] # "all" /\ now \in {"some", "all"}
    BY <1>4 DEF Grown
  <2> HIDE DEF now
  <2>3. Answers!Act(b)
    BY <1>1, <2>1, <2>2 DEF Answers!Act
  <2> QED
    BY <2>3 DEF Answers!Next
<1>5. CASE Concluded(b)
  <2>1. ans[b] = "pending" /\ reply \in {"not_done", "done", "unknown"}
    BY <1>0, <1>5 DEF Concluded, AnswerFor, Batch
  <2>2. /\ reply = "not_done" => now = "none"
        /\ reply = "done" => now = "all"
    BY <1>0, <1>5 DEF Concluded, AnswerFor, Batch
  <2>3. /\ now \in Answers!Effects
        /\ eff[b] # "none" => now # "none"
        /\ eff[b] = "all" => now = "all"
    BY <1>0, <1>5 DEF Batch, Answers!Effects, Concluded
  <2> HIDE DEF now, reply
  <2>4. PICK given \in {"not_done", "done", "unknown"} : given = reply
    BY <2>1
  <2>5. Answers!Answer(b, given)
    BY <1>1, <2>1, <2>2, <2>3, <2>4 DEF Answers!Answer
  <2> QED
    BY <2>5 DEF Answers!Next
<1> QED
  BY <1>3, <1>4, <1>5 DEF Moves

-----------------------------------------------------------------------------
\* An answer that is true of what was written moves its batch.
LEMMA AnsweredMoves ==
    ASSUME Inv, NEW b \in Batches, batch[b].at # "answered",
           NEW outcome \in {"not_sent", "occupied", "forwarded", "unknown"},
           outcome \in {"not_sent", "occupied"} => batch[b].effect = "none",
           outcome = "forwarded" => batch[b].effect = "all",
           Answered(b, outcome)
    PROVE  Moves(b)
<1>1. batch[b] \in Batch /\ batch[b].outcome = "pending"
  BY DEF Inv, Progress
<1>2. batch' = [batch EXCEPT ![b] = [NoBatch EXCEPT !.at = "answered", !.effect = batch[b].effect, !.outcome = outcome]]
  BY DEF Answered
<1>3. batch'[b] = [at |-> "answered", kind |-> "text", on |-> None, sent |-> 0,
                   effect |-> batch[b].effect, outcome |-> outcome]
  BY <1>2 DEF Inv, NoBatch
<1>4. batch'[b] \in Batch /\ Progress(b)'
  BY <1>1, <1>3 DEF Batch, Progress
<1>5. Concluded(b)
  BY <1>1, <1>3 DEF Concluded
<1> QED
  BY <1>2, <1>3, <1>4, <1>5 DEF Moves

LEMMA TypeMoves == ASSUME Inv, NEW b \in Inputs, Type(b) PROVE Moves(b)
<1>0. b \in Batches /\ batch[b] \in Batch /\ batch[b].effect = "none" /\ batch[b].outcome = "pending"
  BY DEF Inv, Type, Batches, Progress
<1>1. PICK s \in Streams, kind \in {"text", "key", "release"} :
        batch' = [batch EXCEPT ![b] = [NoBatch EXCEPT !.at = "lock", !.kind = kind, !.on = s]]
  BY DEF Type
<1>2. batch'[b] = [at |-> "lock", kind |-> kind, on |-> s, sent |-> 0, effect |-> "none", outcome |-> "pending"]
  BY <1>0, <1>1 DEF Inv, NoBatch
<1>3. batch' = [batch EXCEPT ![b] = batch'[b]]
  BY <1>0, <1>1, <1>2 DEF NoBatch
<1>4. batch'[b] \in Batch /\ Progress(b)' /\ Unseen(b)
  BY <1>0, <1>2 DEF Unseen, Batch, Progress, Sessions
<1> QED
  BY <1>3, <1>4 DEF Moves

LEMMA SendByHandleMoves == ASSUME Inv, NEW b \in Sends, SendByHandle(b) PROVE Moves(b)
<1>0. b \in Batches /\ batch[b] \in Batch /\ batch[b].effect = "none" /\ batch[b].outcome = "pending"
  BY DEF Inv, SendByHandle, Batches, Progress
<1>1. PICK s \in Streams : batch' = [batch EXCEPT ![b] = [NoBatch EXCEPT !.at = "lock", !.on = s]]
  BY DEF SendByHandle
<1>2. batch'[b] = [at |-> "lock", kind |-> "text", on |-> s, sent |-> 0, effect |-> "none", outcome |-> "pending"]
  BY <1>0, <1>1 DEF Inv, NoBatch
<1>3. batch' = [batch EXCEPT ![b] = batch'[b]]
  BY <1>0, <1>1, <1>2 DEF NoBatch
<1>4. batch'[b] \in Batch /\ Progress(b)' /\ Unseen(b)
  BY <1>0, <1>2 DEF Unseen, Batch, Progress, Sessions
<1> QED
  BY <1>3, <1>4 DEF Moves

LEMMA SendAloneMoves == ASSUME Inv, NEW b \in Sends, SendAlone(b) PROVE Moves(b)
<1>0. b \in Batches /\ batch[b] \in Batch /\ batch[b].effect = "none" /\ batch[b].outcome = "pending"
  BY DEF Inv, SendAlone, Batches, Progress
<1>1. CASE session'[b].at = "own"
  <2>1. batch' = [batch EXCEPT ![b] = [NoBatch EXCEPT !.at = "attach", !.on = b]]
    BY <1>1 DEF SendAlone
  <2>2. batch'[b] = [at |-> "attach", kind |-> "text", on |-> b, sent |-> 0, effect |-> "none", outcome |-> "pending"]
    BY <1>0, <2>1 DEF Inv, NoBatch
  <2>3. batch' = [batch EXCEPT ![b] = batch'[b]]
    BY <1>0, <2>1, <2>2 DEF NoBatch
  <2>4. batch'[b] \in Batch /\ Progress(b)' /\ Unseen(b)
    BY <1>0, <2>2 DEF Unseen, Batch, Progress, Sessions
  <2> QED
    BY <2>3, <2>4 DEF Moves
<1>2. CASE session'[b].at # "own"
  <2>1. batch' = [batch EXCEPT ![b] = [NoBatch EXCEPT !.at = "answered", !.outcome = "not_sent"]]
    BY <1>2 DEF SendAlone
  <2>2. batch'[b] = [at |-> "answered", kind |-> "text", on |-> None, sent |-> 0, effect |-> "none", outcome |-> "not_sent"]
    BY <1>0, <2>1 DEF Inv, NoBatch
  <2>3. batch' = [batch EXCEPT ![b] = batch'[b]]
    BY <1>0, <2>1, <2>2 DEF NoBatch
  <2>4. batch'[b] \in Batch /\ Progress(b)' /\ Concluded(b)
    BY <1>0, <2>2 DEF Concluded, Batch, Progress
  <2> QED
    BY <2>3, <2>4 DEF Moves
<1> QED
  BY <1>1, <1>2

\* A batch that only goes to another place, with nothing written yet.
LEMMA PlaceMoves ==
    ASSUME Inv, NEW b \in Batches, NEW place \in {"write", "read", "press"},
           batch[b].at \in {"attach", "lock", "read"},
           batch' = [batch EXCEPT ![b].at = place]
    PROVE  Moves(b)
<1>0. batch[b] \in Batch /\ batch[b].effect = "none" /\ batch[b].outcome = "pending" /\ batch[b].sent = 0
  BY DEF Inv, Progress
<1>1. batch'[b] = [batch[b] EXCEPT !.at = place]
  BY DEF Inv
<1>2. batch'[b] \in Batch
  BY <1>0, <1>1 DEF Batch
<1>3. Size(b)' # 0
  BY ChunksAssumption DEF Size
<1>4. Progress(b)' /\ Unseen(b)
  BY <1>0, <1>1, <1>2, <1>3 DEF Progress, Unseen, Batch
<1>5. batch' = [batch EXCEPT ![b] = batch'[b]]
  BY <1>1 DEF Inv
<1> QED
  BY <1>2, <1>4, <1>5 DEF Moves

LEMMA AttachAloneMoves == ASSUME Inv, NEW b \in Sends, AttachAlone(b) PROVE Moves(b)
<1>0. b \in Batches /\ batch[b].at = "attach" /\ batch[b].effect = "none"
  BY DEF Inv, AttachAlone, Batches, Progress
<1>1. CASE batch' = [batch EXCEPT ![b].at = "write"]
  BY <1>0, <1>1, PlaceMoves
<1>2. ASSUME NEW outcome \in {"not_sent", "occupied"}, Answered(b, outcome) PROVE Moves(b)
  BY <1>0, <1>2, AnsweredMoves
<1> QED
  BY <1>1, <1>2 DEF AttachAlone

LEMMA LockMoves == ASSUME Inv, NEW b \in Batches, Lock(b) PROVE Moves(b)
<1>0. batch[b].at = "lock" /\ batch[b].effect = "none"
  BY DEF Inv, Lock, Progress
<1>1. CASE batch' = [batch EXCEPT ![b].at = "read"]
  BY <1>0, <1>1, PlaceMoves
<1>2. CASE batch' = [batch EXCEPT ![b].at = "write"]
  BY <1>0, <1>2, PlaceMoves
<1>3. CASE Answered(b, "not_sent")
  BY <1>0, <1>3, AnsweredMoves
<1> QED
  BY <1>1, <1>2, <1>3 DEF Lock

LEMMA ReadForKeyMoves == ASSUME Inv, NEW b \in Batches, ReadForKey(b) PROVE Moves(b)
<1>0. batch[b].at = "read" /\ batch[b].effect = "none"
  BY DEF Inv, ReadForKey, Progress
<1>1. CASE Answered(b, "not_sent")
  BY <1>0, <1>1, AnsweredMoves
<1>2. CASE batch' = [batch EXCEPT ![b].at = "press"]
  BY <1>0, <1>2, PlaceMoves
<1> QED
  BY <1>1, <1>2 DEF ReadForKey

LEMMA PressMoves == ASSUME Inv, NEW b \in Batches, Press(b) PROVE Moves(b)
<1>0. batch[b] \in Batch /\ batch[b].at = "press" /\ batch[b].effect = "none" /\ batch[b].outcome = "pending"
  BY DEF Inv, Press, Progress
<1>1. CASE Answered(b, "not_sent")
  BY <1>0, <1>1, AnsweredMoves
<1>2. ASSUME NEW pressed \in BOOLEAN, NEW outcome \in {"forwarded", LostAnswer},
             outcome = "forwarded" => pressed,
             batch' = [batch EXCEPT ![b].at = "answered", ![b].outcome = outcome, ![b].on = None,
                                    ![b].effect = IF pressed THEN "all" ELSE "none",
                                    ![b].kind = "text", ![b].on = None]
      PROVE  Moves(b)
  <2> DEFINE now == IF pressed THEN "all" ELSE "none"
  <2>1. outcome \in {"forwarded", "unknown"}
    BY <1>2 DEF LostAnswer
  <2>2. batch'[b] = [at |-> "answered", kind |-> "text", on |-> None, sent |-> batch[b].sent,
                     effect |-> now, outcome |-> outcome]
    BY <1>0, <1>2 DEF Inv, Batch
  <2>3. now \in {"none", "all"} /\ (outcome = "forwarded" => now = "all") /\ batch[b].sent \in Nat
    BY <1>0, <1>2 DEF Batch
  <2>4. batch' = [batch EXCEPT ![b] = batch'[b]]
    BY <1>2, <2>2 DEF Inv
  <2> HIDE DEF now
  <2>5. batch'[b] \in Batch /\ Progress(b)'
    BY <2>1, <2>2, <2>3 DEF Batch, Progress
  <2>6. Concluded(b)
    BY <1>0, <2>1, <2>2, <2>3 DEF Concluded
  <2> QED
    BY <2>4, <2>5, <2>6 DEF Moves
<1> QED
  BY <1>1, <1>2 DEF Press

LEMMA FinishMoves == ASSUME Inv, NEW b \in Batches, Finish(b) PROVE Moves(b)
<1>1. CASE /\ batch[b].at \in {"write", "broken"}
           /\ Stop(b)
  <2> DEFINE outcome == IF AnythingWritten(b) THEN "unknown" ELSE "not_sent"
  <2>1. /\ Answered(b, outcome) /\ outcome \in {"not_sent", "occupied", "forwarded", "unknown"}
        /\ outcome # "forwarded" /\ (outcome \in {"not_sent", "occupied"} => batch[b].effect = "none")
    BY <1>1 DEF Stop, AnythingWritten
  <2> HIDE DEF outcome
  <2> QED
    BY <1>1, <2>1, AnsweredMoves
<1>2. CASE /\ batch[b].at = "write" /\ batch[b].sent = Size(b)
           /\ Answered(b, IF batch[b].on = b /\ ~signedIn THEN "unknown" ELSE "forwarded")
  <2>1. batch[b].effect = "all"
    BY <1>2 DEF Inv, Progress
  <2> DEFINE outcome == IF batch[b].on = b /\ ~signedIn THEN "unknown" ELSE "forwarded"
  <2>2. outcome \in {"forwarded", "unknown"} /\ Answered(b, outcome)
    BY <1>2
  <2> HIDE DEF outcome
  <2> QED
    BY <1>2, <2>1, <2>2, AnsweredMoves
<1> QED
  BY <1>1, <1>2 DEF Finish

LEMMA WriteMoves == ASSUME Inv, NEW b \in Batches, Write(b) PROVE Moves(b)
<1> DEFINE now == batch[b].sent + 1
<1>0. /\ batch[b] \in Batch /\ batch[b].at = "write" /\ batch[b].outcome = "pending"
      /\ batch[b].effect # "all" /\ now \in Nat
  BY DEF Inv, Write, Progress, Batch, Size
<1>1. CASE batch' = [batch EXCEPT ![b].sent = now, ![b].effect = IF now = Size(b) THEN "all" ELSE "some"]
  <2> DEFINE more == IF now = Size(b) THEN "all" ELSE "some"
  <2>1. batch'[b] = [batch[b] EXCEPT !.sent = now, !.effect = more] /\ batch' = [batch EXCEPT ![b] = batch'[b]]
    BY <1>1 DEF Inv
  <2>2. more \in {"some", "all"} /\ (more = "all" <=> now = Size(b))
    OBVIOUS
  <2> HIDE DEF more, now
  <2>3. batch'[b] \in Batch /\ batch'[b].at = "write" /\ batch'[b].kind = batch[b].kind
        /\ batch'[b].sent = now /\ batch'[b].effect = more /\ batch'[b].outcome = "pending"
    BY <1>0, <2>1, <2>2 DEF Batch
  <2>4. Progress(b)' /\ Grown(b)
    BY <1>0, <2>2, <2>3 DEF Progress, Size, Grown
  <2> QED
    BY <2>1, <2>3, <2>4 DEF Moves
<1>2. CASE batch' = [batch EXCEPT ![b].at = "broken", ![b].effect = "some"]
  <2>1. batch'[b] = [batch[b] EXCEPT !.at = "broken", !.effect = "some"] /\ batch' = [batch EXCEPT ![b] = batch'[b]]
    BY <1>2 DEF Inv
  <2>2. batch'[b] \in Batch /\ batch'[b].at = "broken" /\ batch'[b].effect = "some" /\ batch'[b].outcome = "pending"
    BY <1>0, <2>1 DEF Batch
  <2> QED
    BY <1>0, <2>1, <2>2 DEF Moves, Progress, Grown
<1> QED
  BY <1>1, <1>2 DEF Write

-----------------------------------------------------------------------------
\* Every step leaves the batches alone or moves one.
LEMMA NextMoves == ASSUME Inv, [Next]_vars PROVE UNCHANGED batch \/ \E b \in Batches : Moves(b)
<1> USE DEF Batches
<1>1. ASSUME NEW b \in Inputs, Type(b) PROVE Moves(b)
  BY <1>1, TypeMoves
<1>2. ASSUME NEW b \in Sends, SendByHandle(b) \/ SendAlone(b) \/ AttachAlone(b) PROVE Moves(b)
  BY <1>2, SendByHandleMoves, SendAloneMoves, AttachAloneMoves
<1>3. ASSUME NEW b \in Batches, BatchStep(b) PROVE Moves(b)
  BY <1>3, LockMoves, WriteMoves, FinishMoves, ReadForKeyMoves, PressMoves DEF BatchStep
<1>4. ASSUME NEW s \in Sessions,
             OpenStream(s) \/ FirstFrame(s) \/ End(s) \/ Unregister(s) \/ Exit(s) \/ Close(s) \/ Closed(s) \/ Leave(s)
      PROVE  UNCHANGED batch
  BY <1>4 DEF OpenStream, FirstFrame, End, Unregister, Exit, Close, Closed, Leave
<1>5. SignOut \/ Replace \/ Shutdown \/ ShutdownReturns \/ UNCHANGED vars => UNCHANGED batch
  BY DEF SignOut, Replace, Shutdown, ShutdownReturns, vars
<1> QED
  BY <1>1, <1>2, <1>3, <1>4, <1>5 DEF Next, Sessions

LEMMA InitInv == Init => Inv
<1> SUFFICES ASSUME Init PROVE Inv
  OBVIOUS
<1>1. \A b \in Batches : batch[b] = NoBatch
  BY DEF Init
<1>2. NoBatch \in Batch
  BY DEF NoBatch, Batch
<1> QED
  BY <1>1, <1>2 DEF Init, Inv, Progress, NoBatch

LEMMA NextInv == Inv /\ [Next]_vars => Inv'
<1> SUFFICES ASSUME Inv, [Next]_vars PROVE Inv'
  OBVIOUS
<1>1. CASE UNCHANGED batch
  BY <1>1 DEF Inv, Progress, Size
<1> QED
  BY <1>1, NextMoves, MovesKeepInv

\* What is written of a batch agrees with where it is (terminal_batch.go:121-169,
\* terminal_keys.go:149-204).
THEOREM BatchesProgress == Spec => []Inv
BY InitInv, NextInv, PTL DEF Spec

\* What a browser is told about its input, keys and files is never wrong: the
\* bridge implements Outcome (terminal_batch.go:101-169, terminal_keys.go:149-204,
\* herdr/actions.go:395-427).
THEOREM BridgeImplementsOutcome == Spec => AnswersAreTruthful
<1>1. Init => Answers!Init
  BY DEF Init, Answers!Init, NoBatch, AnswerFor
<1>2. Inv /\ [Next]_vars => [Answers!Next]_Answers!vars
  <2> SUFFICES ASSUME Inv, [Next]_vars PROVE [Answers!Next]_Answers!vars
    OBVIOUS
  <2>1. CASE UNCHANGED batch
    BY <2>1 DEF Answers!vars
  <2> QED
    BY <2>1, NextMoves, MovesImplement
<1> QED
  BY <1>1, <1>2, BatchesProgress, PTL DEF Spec, AnswersAreTruthful, Answers!Spec

\* What Outcome promises holds of every behaviour it allows: one of its steps
\* keeps the answers true, and an answer that was given keeps what it said.
LEMMA OutcomeKeepsTruth ==
    Answers!TypeOK /\ Answers!Truthful /\ [Answers!Next]_Answers!vars => Answers!TypeOK' /\ Answers!Truthful'
<1> SUFFICES ASSUME Answers!TypeOK, Answers!Truthful, [Answers!Next]_Answers!vars
             PROVE  Answers!TypeOK' /\ Answers!Truthful'
  OBVIOUS
<1>1. CASE UNCHANGED Answers!vars
  BY <1>1 DEF Answers!vars, Answers!TypeOK, Answers!Truthful
<1>2. ASSUME NEW r \in Batches, Answers!Act(r) PROVE Answers!TypeOK' /\ Answers!Truthful'
  BY <1>2 DEF Answers!Act, Answers!TypeOK, Answers!Truthful, Answers!Effects, Answers!Answers
<1>3. ASSUME NEW r \in Batches, NEW given \in {"not_done", "done", "unknown"}, Answers!Answer(r, given)
      PROVE  Answers!TypeOK' /\ Answers!Truthful'
  BY <1>3 DEF Answers!Answer, Answers!TypeOK, Answers!Truthful, Answers!Effects, Answers!Answers
<1> QED
  BY <1>1, <1>2, <1>3 DEF Answers!Next

\* No answer is ever wrong: what was answered "not_done" never happens, and what
\* was answered "done" was done in full (terminal_batch.go:101-169, terminal_keys.go:149-204).
THEOREM BridgeAnswersStayTrue == Spec => []Answers!Truthful
<1>1. Answers!Init => Answers!TypeOK /\ Answers!Truthful
  BY DEF Answers!Init, Answers!TypeOK, Answers!Truthful, Answers!Effects, Answers!Answers
<1> QED
  BY <1>1, OutcomeKeepsTruth, BridgeImplementsOutcome, PTL DEF AnswersAreTruthful, Answers!Spec

-----------------------------------------------------------------------------
(***************************************************************************)
(* What a child reads on its stdin.                                        *)
(*                                                                         *)
(* A batch that writes to a stream has its lock, and a stream that is let  *)
(* go is only let go under it; so what was written of a batch that is not  *)
(* through is the last thing written, and a release is written by the one  *)
(* batch that still has control or after control has ended.                *)
(***************************************************************************)

Session == [at : Places, child : {"none", "running", "exited"}, controlled : BOOLEAN,
            active : BOOLEAN, lock : Batches \cup {None}, typing : Inputs \cup {None},
            stopped : BOOLEAN, written : Seq(Batches \cup {None})]

\* What StdinStaysInOrder says of one stdin.
InOrder(w) ==
    /\ \A i, k \in DOMAIN w : \A j \in i .. k : w[i] = w[k] /\ w[i] # None => w[j] = w[i]
    /\ \A i, j \in DOMAIN w : i < j /\ w[i] = None => w[j] = None

Has(w, x) == \E i \in DOMAIN w : w[i] = x

\* Where a batch is: the session it writes to, the lock it has and the control
\* that it needs.
Placed(b) == LET s == batch[b].on IN
    /\ batch[b].at \in {"new", "answered"} <=> s = None
    /\ s # None => s \in Streams \/ (s = b /\ b \in Sends)
    /\ s \in Streams => session[s].at # "new"
    /\ batch[b].kind = "release" => b \in Inputs
    /\ batch[b].at \in {"lock", "read", "press"} => s # b
    /\ batch[b].at = "attach" => s = b /\ session[b].written = <<>>
    /\ s = b => session[b].at = "own"
    /\ batch[b].at \in {"write", "broken"} /\ s # b =>
          session[s].lock = b /\ session[s].at \notin {"reap", "closed"}
    /\ batch[b].at = "write" => session[s].controlled
    /\ batch[b].at \in {"read", "press"} => session[s].lock = b \/ session[s].at = "closed"
    /\ b \in Sends /\ batch[b].at = "new" => session[b].at = "new"

\* A release that is written and not yet answered.
Releasing(s, b) ==
    /\ b \in Inputs /\ batch[b].on = s /\ batch[b].kind = "release" /\ session[s].lock = b
    /\ batch[b].at = "broken" \/ (batch[b].at = "write" /\ batch[b].sent = 1)

\* What was written to a session, and by whom.
Kept(s) == LET w == session[s].written IN
    /\ session[s].at \in {"new", "starting", "reap", "closed"} => ~session[s].controlled
    /\ session[s].at = "new" => ~session[s].active
    /\ session[s].at \in {"new", "starting"} => w = <<>>
    /\ Has(w, None) /\ session[s].controlled => \E b \in Batches : Releasing(s, b)
    /\ \A b \in Batches : Has(w, b) =>
          \/ batch[b].at \in {"answered", "broken"}
          \/ batch[b].at = "write" /\ batch[b].on = s /\ batch[b].sent > 0 /\ w[Len(w)] = b

StdinInv ==
    /\ Inv
    /\ session \in [Sessions -> Session]
    /\ \A b \in Batches : Placed(b)
    /\ \A s \in Sessions : Kept(s)
    /\ \A s \in Sessions : InOrder(session[s].written)

-----------------------------------------------------------------------------
\* Nothing is out of order in what is empty.
LEMMA EmptyInOrder == InOrder(<<>>) /\ \A x : ~Has(<<>>, x)
BY DEF InOrder, Has

\* What is appended is there, last, after what was.
LEMMA AppendHas ==
    ASSUME NEW S, NEW w \in Seq(S), NEW x \in S
    PROVE  /\ Append(w, x) \in Seq(S)
           /\ Append(w, x)[Len(Append(w, x))] = x
           /\ \A y : Has(Append(w, x), y) <=> Has(w, y) \/ y = x
<1> DEFINE v == Append(w, x)
<1>1. /\ v \in Seq(S) /\ Len(v) = Len(w) + 1 /\ v[Len(w) + 1] = x /\ DOMAIN v = 1 .. Len(w) + 1
      /\ DOMAIN w = 1 .. Len(w) /\ Len(w) \in Nat /\ \A i \in 1 .. Len(w) : v[i] = w[i]
  OBVIOUS
<1> HIDE DEF v
<1>2. ASSUME NEW y PROVE Has(v, y) <=> Has(w, y) \/ y = x
  <2>1. Has(w, y) => Has(v, y)
    BY <1>1 DEF Has
  <2>2. y = x => Has(v, y)
    BY <1>1 DEF Has
  <2>3. ASSUME Has(v, y), y # x PROVE Has(w, y)
    <3>1. PICK i \in DOMAIN v : v[i] = y
      BY <2>3 DEF Has
    <3>2. i \in 1 .. Len(w)
      BY <1>1, <2>3, <3>1
    <3> QED
      BY <1>1, <3>1, <3>2 DEF Has
  <2> QED
    BY <2>1, <2>2, <2>3
<1> QED
  BY <1>1, <1>2 DEF v

\* A release may be written last, and so may a chunk of the batch that wrote
\* last or has not written, when there was no release.
LEMMA AppendInOrder ==
    ASSUME NEW S, NEW w \in Seq(S), NEW x \in S, InOrder(w),
           x # None => ~Has(w, None) /\ (Has(w, x) => w[Len(w)] = x)
    PROVE  InOrder(Append(w, x))
<1> DEFINE v == Append(w, x)
<1>1. /\ v \in Seq(S) /\ Len(v) = Len(w) + 1 /\ v[Len(w) + 1] = x /\ DOMAIN v = 1 .. Len(w) + 1
      /\ DOMAIN w = 1 .. Len(w) /\ Len(w) \in Nat /\ \A i \in 1 .. Len(w) : v[i] = w[i]
  OBVIOUS
<1> HIDE DEF v
<1>2. ASSUME NEW i \in DOMAIN v, NEW k \in DOMAIN v, NEW j \in i .. k, v[i] = v[k], v[i] # None
      PROVE  v[j] = v[i]
  <2>0. i \in Nat /\ j \in Nat /\ k \in Nat /\ i <= j /\ j <= k /\ 1 <= i /\ k <= Len(w) + 1
    BY <1>1
  <2>1. CASE k <= Len(w)
    <3>1. i \in DOMAIN w /\ k \in DOMAIN w /\ j \in i .. k /\ v[i] = w[i] /\ v[j] = w[j] /\ v[k] = w[k]
      BY <1>1, <2>0, <2>1
    <3> QED
      BY <1>2, <3>1 DEF InOrder
  <2>2. CASE k = Len(w) + 1 /\ i = Len(w) + 1
    BY <2>0, <2>2
  <2>3. CASE k = Len(w) + 1 /\ i <= Len(w)
    <3>1. v[k] = x /\ i \in DOMAIN w /\ w[i] = x /\ x # None
      BY <1>1, <1>2, <2>0, <2>3
    <3>2. w[Len(w)] = x /\ Len(w) \in DOMAIN w
      BY <1>1, <2>0, <2>3, <3>1 DEF Has
    <3>3. CASE j = k
      BY <1>2, <3>3
    <3>4. CASE j # k
      <4>1. j \in i .. Len(w) /\ v[j] = w[j] /\ v[i] = w[i]
        BY <1>1, <2>0, <2>3, <3>4
      <4> QED
        BY <3>1, <3>2, <4>1 DEF InOrder
    <3> QED
      BY <3>3, <3>4
  <2> QED
    BY <1>1, <2>0, <2>1, <2>2, <2>3
<1>3. ASSUME NEW i \in DOMAIN v, NEW j \in DOMAIN v, i < j, v[i] = None PROVE v[j] = None
  <2>0. i \in DOMAIN w /\ w[i] = None
    BY <1>1, <1>3
  <2>1. CASE j = Len(w) + 1
    BY <1>1, <2>0, <2>1 DEF Has
  <2>2. CASE j # Len(w) + 1
    <3>1. j \in DOMAIN w /\ v[j] = w[j]
      BY <1>1, <2>2
    <3> QED
      BY <1>3, <2>0, <3>1 DEF InOrder
  <2> QED
    BY <2>1, <2>2
<1>4. InOrder(v)
  BY <1>2, <1>3 DEF InOrder
<1> QED
  BY <1>4 DEF v

-----------------------------------------------------------------------------
\* A session whose stdin, control and lock a step leaves alone.
Same(s) == /\ session'[s].at = session[s].at /\ session'[s].controlled = session[s].controlled
           /\ session'[s].active = session[s].active /\ session'[s].lock = session[s].lock
           /\ session'[s].written = session[s].written

\* A batch that a step leaves alone, with its session.
LEMMA SamePlaced ==
    ASSUME NEW c \in Batches, Placed(c), batch'[c] = batch[c],
           batch[c].on # None => Same(batch[c].on), c \in Sends => Same(c)
    PROVE  Placed(c)'
BY BridgeNames DEF Placed, Same, Batches

\* A session that a step leaves alone, when a batch that changes has written
\* nothing or is through and was no release.
LEMMA SameKept ==
    ASSUME StdinInv, NEW s \in Sessions, Same(s),
           \A c \in Batches : \/ batch'[c] = batch[c]
                              \/ batch[c].at \in {"new", "attach", "lock", "read", "press"}
                              \/ batch'[c].at \in {"answered", "broken"} /\ batch[c].on # s
    PROVE  Kept(s)' /\ InOrder(session'[s].written)
<1>1. InOrder(session'[s].written) /\ Kept(s)
  BY DEF StdinInv, Same
<1>2. ASSUME Has(session'[s].written, None), session'[s].controlled PROVE \E b \in Batches : Releasing(s, b)'
  <2>1. PICK b \in Batches : Releasing(s, b)
    BY <1>1, <1>2 DEF Same, Kept
  <2>2. batch'[b] = batch[b]
    BY <2>1 DEF Releasing
  <2> QED
    BY <2>1, <2>2 DEF Releasing, Same
<1>3. ASSUME NEW c \in Batches, Has(session'[s].written, c)
      PROVE  \/ batch'[c].at \in {"answered", "broken"}
             \/ /\ batch'[c].at = "write" /\ batch'[c].on = s /\ batch'[c].sent > 0
                /\ session'[s].written[Len(session'[s].written)] = c
  BY <1>1, <1>3 DEF Kept, Same
<1> QED
  BY <1>1, <1>2, <1>3 DEF Kept, Same

\* The invariant after a step, from its parts.
LEMMA StdinNext ==
    ASSUME StdinInv, [Next]_vars, session' \in [Sessions -> Session],
           \A c \in Batches : Placed(c)',
           \A s \in Sessions : Kept(s)' /\ InOrder(session'[s].written)
    PROVE  StdinInv'
BY NextInv DEF StdinInv

\* What the sessions of two batches have to do with each other.
LEMMA SendsAreAlone ==
    ASSUME StdinInv, NEW b \in Batches, NEW c \in Batches, batch[c].on = b, batch[c].on # None
    PROVE  c = b \/ b \notin Sends
BY BridgeKinds DEF StdinInv, Placed

\* The lock that a batch writes under is the only one.
LEMMA OneWriter ==
    ASSUME StdinInv, NEW b \in Batches, NEW c \in Batches,
           batch[b].at \in {"write", "broken"}, batch[c].at \in {"write", "broken"},
           batch[b].on = batch[c].on
    PROVE  b = c
<1>1. Placed(b) /\ Placed(c) /\ batch[b].on # None
  BY DEF StdinInv, Placed
<1>2. CASE batch[b].on = b
  BY <1>1, <1>2, BridgeKinds DEF Placed, Batches
<1>3. CASE batch[b].on = c
  BY <1>1, <1>3, BridgeKinds DEF Placed, Batches
<1>4. CASE batch[b].on # b /\ batch[b].on # c
  BY <1>1, <1>4 DEF Placed
<1> QED
  BY <1>2, <1>3, <1>4

-----------------------------------------------------------------------------
\* Steps that leave the batches and all that StdinInv says of the sessions.
LEMMA QuietStdin ==
    ASSUME StdinInv, [Next]_vars, UNCHANGED batch, session' \in [Sessions -> Session],
           \A s \in Sessions : Same(s)
    PROVE  StdinInv'
<1>1. \A c \in Batches : batch[c].on # None => batch[c].on \in Sessions
  BY DEF StdinInv, Inv, Batch
<1>2. \A c \in Batches : Placed(c)'
  BY <1>1, SamePlaced DEF StdinInv, Sessions
<1>3. \A s \in Sessions : Kept(s)' /\ InOrder(session'[s].written)
  BY SameKept
<1> QED
  BY <1>2, <1>3, StdinNext

\* Steps of one session, with its stdin, its lock and its batches left alone.
LEMMA SessionStdin ==
    ASSUME StdinInv, [Next]_vars, UNCHANGED batch, NEW s \in Sessions,
           session' \in [Sessions -> Session],
           \A q \in Sessions : q # s => Same(q),
           \A c \in Batches : batch[c].on = s => Placed(c)',
           s \in Sends => \A c \in Batches : batch[c].on # None /\ c = s => Placed(c)',
           s \in Sends /\ s \in Batches => batch[s].at # "new",
           Kept(s)', InOrder(session'[s].written)
    PROVE  StdinInv'
<1>1. \A c \in Batches : batch[c].on # None => batch[c].on \in Sessions
  BY DEF StdinInv, Inv, Batch
<1>2. ASSUME NEW c \in Batches PROVE Placed(c)'
  <2>1. CASE batch[c].on = s
    BY <2>1
  <2>2. CASE batch[c].on # s /\ c # s
    <3>1. c \in Sends => c \in Sessions
      BY DEF Sessions
    <3> QED
      BY <1>1, <2>2, <3>1, SamePlaced DEF StdinInv
  <2>3. CASE batch[c].on # s /\ c = s
    BY <1>1, <2>3, SamePlaced DEF StdinInv, Placed, Same, Sessions
  <2> QED
    BY <2>1, <2>2, <2>3
<1>3. \A q \in Sessions : Kept(q)' /\ InOrder(session'[q].written)
  BY SameKept
<1> QED
  BY <1>2, <1>3, StdinNext

\* Steps of a batch that has written nothing, or answers it, and of its session.
LEMMA BatchStdin ==
    ASSUME StdinInv, [Next]_vars, NEW b \in Batches, NEW s \in Sessions,
           \A c \in Batches : c # b => batch'[c] = batch[c],
           \/ batch[b].at \in {"new", "attach", "lock", "read", "press"}
           \/ batch'[b].at \in {"answered", "broken"} /\ batch[b].on = s,
           session' \in [Sessions -> Session],
           \A q \in Sessions : q # s => Same(q),
           \A c \in Batches : c # b /\ (batch[c].on = s \/ c = s) => Placed(c)',
           Placed(b)', Kept(s)', InOrder(session'[s].written)
    PROVE  StdinInv'
<1>1. \A c \in Batches : batch[c].on # None => batch[c].on \in Sessions
  BY DEF StdinInv, Inv, Batch
<1>2. ASSUME NEW c \in Batches PROVE Placed(c)'
  <2>1. CASE c = b \/ batch[c].on = s \/ c = s
    BY <2>1
  <2>2. CASE c # b /\ batch[c].on # s /\ c # s
    <3>1. c \in Sends => c \in Sessions
      BY DEF Sessions
    <3> QED
      BY <1>1, <2>2, <3>1, SamePlaced DEF StdinInv
  <2> QED
    BY <2>1, <2>2
<1>3. ASSUME NEW q \in Sessions PROVE Kept(q)' /\ InOrder(session'[q].written)
  <2>1. CASE q = s
    BY <2>1
  <2>2. CASE q # s
    <3>1. \A c \in Batches : \/ batch'[c] = batch[c]
                             \/ batch[c].at \in {"new", "attach", "lock", "read", "press"}
                             \/ batch'[c].at \in {"answered", "broken"} /\ batch[c].on # q
      BY <2>2
    <3> QED
      BY <2>2, <3>1, SameKept
  <2> QED
    BY <2>1, <2>2
<1> QED
  BY <1>2, <1>3, StdinNext

-----------------------------------------------------------------------------
\* A session that starts, or does not, is a new one: nobody writes to it.
LEMMA FreshTypes ==
    /\ [NoSession EXCEPT !.at = "starting", !.child = "running"] \in Session
    /\ [NoSession EXCEPT !.at = "own", !.child = "running"] \in Session
    /\ [NoSession EXCEPT !.at = "closed"] \in Session
<1>1. <<>> \in Seq(Batches \cup {None})
  OBVIOUS
<1> QED
  BY <1>1 DEF NoSession, Session, Places

LEMMA OpenStreamStdin == ASSUME StdinInv, [Next]_vars, NEW s \in Streams, OpenStream(s) PROVE StdinInv'
<1>0. s \in Sessions /\ session[s].at = "new" /\ UNCHANGED batch /\ session \in [Sessions -> Session]
  BY DEF OpenStream, Sessions, StdinInv
<1>1. PICK r \in {[NoSession EXCEPT !.at = "starting", !.child = "running"], [NoSession EXCEPT !.at = "closed"]} :
        session' = [session EXCEPT ![s] = r]
  BY DEF OpenStream, Start
<1>2. r \in Session /\ r.at \in {"starting", "closed"} /\ r.controlled = FALSE /\ r.written = <<>>
  BY <1>1, FreshTypes DEF NoSession
<1>3. session' \in [Sessions -> Session] /\ session'[s] = r /\ \A q \in Sessions : q # s => Same(q)
  BY <1>0, <1>1, <1>2 DEF Same
<1>4. \A c \in Batches : batch[c].on # s
  BY <1>0 DEF StdinInv, Placed
<1>5. Kept(s)' /\ InOrder(session'[s].written)
  BY <1>2, <1>3, EmptyInOrder DEF Kept
<1> QED
  BY <1>0, <1>3, <1>4, <1>5, SessionStdin, BridgeKinds

\* Herdr's control is taken over: only the child of the other session is affected.
LEMMA AttachOthers ==
    ASSUME StdinInv, NEW s \in Sessions, NEW now \in Session, Attach(s, now)
    PROVE  session' \in [Sessions -> Session] /\ session'[s] = now /\ \A q \in Sessions : q # s => Same(q)
<1>1. session \in [Sessions -> Session]
  BY DEF StdinInv
<1>2. \A q \in Sessions : q # s => session'[q] \in {session[q], [session[q] EXCEPT !.child = "exited"]}
  BY DEF Attach
<1>3. \A q \in Sessions : [session[q] EXCEPT !.child = "exited"] \in Session
  BY <1>1 DEF Session
<1>4. session'[s] = now
  BY DEF Attach
<1>5. session' \in [Sessions -> Session]
  <2>1. session' = [q \in Sessions |-> session'[q]]
    BY DEF Attach
  <2>2. \A q \in Sessions : session'[q] \in Session
    BY <1>1, <1>2, <1>3, <1>4
  <2> QED
    BY <2>1, <2>2
<1>6. \A q \in Sessions : q # s => Same(q)
  BY <1>1, <1>2 DEF Session, Same
<1> QED
  BY <1>4, <1>5, <1>6

LEMMA FirstFrameStdin == ASSUME StdinInv, [Next]_vars, NEW s \in Streams, FirstFrame(s) PROVE StdinInv'
<1> DEFINE now == [session[s] EXCEPT !.at = "open", !.controlled = TRUE, !.active = TRUE]
<1>0. s \in Sessions /\ session[s].at = "starting" /\ UNCHANGED batch /\ session[s] \in Session
      /\ Attach(s, now) /\ s \notin Sends
  BY BridgeKinds DEF FirstFrame, Sessions, StdinInv
<1>1. /\ now \in Session /\ now.at = "open" /\ now.controlled = TRUE /\ now.written = session[s].written
      /\ now.lock = session[s].lock
  BY <1>0 DEF Session, Places
<1> HIDE DEF now
<1>2. session' \in [Sessions -> Session] /\ session'[s] = now /\ \A q \in Sessions : q # s => Same(q)
  BY <1>0, <1>1, AttachOthers
<1>3. session[s].written = <<>> /\ Kept(s)
  BY <1>0 DEF StdinInv, Kept
<1>4. Kept(s)' /\ InOrder(session'[s].written)
  BY <1>0, <1>1, <1>2, <1>3, EmptyInOrder DEF Kept
<1>5. ASSUME NEW c \in Batches, batch[c].on = s PROVE Placed(c)'
  <2>1. Placed(c)
    BY DEF StdinInv
  <2>2. batch[c] = batch'[c] /\ c # s
    BY <1>0, BridgeKinds DEF Batches
  <2> QED
    BY <1>0, <1>1, <1>2, <1>5, <2>1, <2>2, BridgeNames DEF Placed
<1> QED
  BY <1>0, <1>2, <1>4, <1>5, SessionStdin

\* A session that goes to another place before its end keeps what it wrote.
LEMMA PlaceStdin ==
    ASSUME StdinInv, [Next]_vars, UNCHANGED batch, NEW s \in Sessions, NEW r \in Session,
           session' = [session EXCEPT ![s] = r],
           session[s].at \in {"starting", "open", "unregister"}, r.at \in {"unregister", "close"},
           r.lock = session[s].lock, r.controlled = session[s].controlled, r.written = session[s].written
    PROVE  StdinInv'
<1>0. session \in [Sessions -> Session] /\ Kept(s) /\ InOrder(session[s].written)
  BY DEF StdinInv
<1>1. session' \in [Sessions -> Session] /\ session'[s] = r /\ \A q \in Sessions : q # s => Same(q)
  BY <1>0 DEF Same
<1>2. \A b \in Batches : Releasing(s, b) => Releasing(s, b)'
  BY <1>1 DEF Releasing
<1>3. Kept(s)' /\ InOrder(session'[s].written)
  BY <1>0, <1>1, <1>2 DEF Kept
<1>4. ASSUME NEW c \in Batches, batch[c].on = s PROVE Placed(c)'
  <2>1. Placed(c) /\ batch'[c] = batch[c]
    BY DEF StdinInv
  <2>2. c # s
    BY <1>4, <2>1 DEF Placed
  <2>3. s # None
    BY BridgeNames DEF Sessions
  <2> QED
    BY <1>1, <1>4, <2>1, <2>2, <2>3 DEF Placed
<1>5. ASSUME NEW c \in Batches, batch[c].on # None, c = s PROVE Placed(c)'
  BY <1>1, <1>5 DEF StdinInv, Placed
<1>6. s \in Batches /\ s \in Sends => batch[s].at # "new"
  BY DEF StdinInv, Placed
<1> QED
  BY <1>1, <1>3, <1>4, <1>5, <1>6, SessionStdin

LEMMA EndStdin == ASSUME StdinInv, [Next]_vars, NEW s \in Streams, End(s) PROVE StdinInv'
<1> DEFINE r == [session[s] EXCEPT !.at = "unregister"]
<1>1. s \in Sessions /\ session[s] \in Session
  BY DEF StdinInv, Sessions
<1>2. r \in Session /\ session' = [session EXCEPT ![s] = r]
  BY <1>1 DEF End, Session, Places
<1> QED
  BY <1>1, <1>2, PlaceStdin DEF End, Session

LEMMA UnregisterStdin == ASSUME StdinInv, [Next]_vars, NEW s \in Streams, Unregister(s) PROVE StdinInv'
<1> DEFINE r == [session[s] EXCEPT !.at = "close", !.active = FALSE]
<1>1. s \in Sessions /\ session[s] \in Session
  BY DEF StdinInv, Sessions
<1>2. r \in Session /\ session' = [session EXCEPT ![s] = r]
  BY <1>1 DEF Unregister, Session, Places, StdinInv
<1> QED
  BY <1>1, <1>2, PlaceStdin DEF Unregister, Session

LEMMA ExitStdin == ASSUME StdinInv, [Next]_vars, NEW s \in Sessions, Exit(s) PROVE StdinInv'
<1>0. session \in [Sessions -> Session] /\ session' = [session EXCEPT ![s].child = "exited"] /\ UNCHANGED batch
  BY DEF StdinInv, Exit
<1>1. session' \in [Sessions -> Session] /\ \A q \in Sessions : Same(q)
  BY <1>0 DEF Same, Session
<1> QED
  BY <1>0, <1>1, QuietStdin

\* Control ends with a release, which waits for the batch that has the lock.
LEMMA CloseStdin == ASSUME StdinInv, [Next]_vars, NEW s \in Sessions, Close(s) PROVE StdinInv'
<1> DEFINE w == session[s].written
           r == session'[s]
<1>0. /\ session \in [Sessions -> Session] /\ session[s] \in Session /\ session[s].at = "close"
      /\ session[s].lock = None /\ UNCHANGED batch /\ Kept(s) /\ InOrder(w)
  BY DEF StdinInv, Close
<1>1. PICK v \in {w, Append(w, None)} :
        r = [session[s] EXCEPT !.at = "reap", !.controlled = FALSE, !.written = v]
  BY <1>0 DEF Close
<1>2. w \in Seq(Batches \cup {None}) /\ None \in Batches \cup {None}
  BY <1>0 DEF Session
<1> HIDE DEF w
<1>3. /\ v \in Seq(Batches \cup {None}) /\ InOrder(v)
      /\ \A c \in Batches : Has(v, c) => Has(w, c)
  <2>1. CASE v = w
    BY <1>0, <1>2, <2>1
  <2>2. CASE v = Append(w, None)
    <3>1. v \in Seq(Batches \cup {None}) /\ \A y : Has(v, y) <=> Has(w, y) \/ y = None
      BY <1>2, <2>2, AppendHas
    <3>2. InOrder(v)
      BY <1>0, <1>2, <2>2, AppendInOrder
    <3> QED
      BY <3>1, <3>2, BridgeNames DEF Batches
  <2> QED
    BY <1>1, <2>1, <2>2
<1>4. r \in Session /\ r.at = "reap" /\ r.controlled = FALSE /\ r.written = v /\ r.lock = None
  BY <1>0, <1>1, <1>3 DEF Session, Places
<1>5. session' \in [Sessions -> Session] /\ \A q \in Sessions : q # s => Same(q)
  BY <1>0, <1>4 DEF Same, Close
<1>6. ASSUME NEW c \in Batches, batch[c].on = s PROVE Placed(c)' /\ batch[c].at \notin {"write", "broken"}
  <2>1. Placed(c) /\ batch'[c] = batch[c] /\ s # None /\ c # None /\ c # s
    BY <1>0, <1>6, BridgeNames DEF StdinInv, Sessions, Placed, Batches
  <2> QED
    BY <1>0, <1>4, <1>6, <2>1 DEF Placed
<1>7. ASSUME NEW c \in Batches, batch[c].on # None, c = s PROVE Placed(c)'
  <2>1. Placed(c) /\ batch'[c] = batch[c] /\ batch[c].on \in Sessions
    BY <1>0, <1>7 DEF StdinInv, Inv, Batch
  <2>2. CASE batch[c].on # s
    BY <1>5, <1>7, <2>1, <2>2 DEF Placed, Same
  <2> QED
    BY <1>6, <2>2
<1>8. s \in Batches /\ s \in Sends => batch[s].at # "new"
  BY <1>0 DEF StdinInv, Placed
<1>9. ASSUME NEW c \in Batches, Has(v, c) PROVE batch[c].at \in {"answered", "broken"}
  BY <1>0, <1>3, <1>6, <1>9 DEF Kept, w
<1>10. Kept(s)'
  BY <1>0, <1>4, <1>9 DEF Kept
<1> HIDE DEF r
<1> QED
  BY <1>0, <1>3, <1>4, <1>5, <1>6, <1>7, <1>8, <1>10, SessionStdin DEF r

\* A session that is forgotten has no batch that is writing.
LEMMA ClosedStdin == ASSUME StdinInv, [Next]_vars, NEW s \in Sessions, Closed(s) PROVE StdinInv'
<1> DEFINE r == [NoSession EXCEPT !.at = "closed", !.child = session[s].child, !.typing = session[s].typing]
<1>0. /\ session \in [Sessions -> Session] /\ session[s] \in Session /\ session[s].at = "reap"
      /\ UNCHANGED batch /\ Kept(s) /\ session' = [session EXCEPT ![s] = r]
  BY DEF StdinInv, Closed
<1>1. <<>> \in Seq(Batches \cup {None})
  OBVIOUS
<1>2. r \in Session /\ r.at = "closed" /\ r.controlled = FALSE /\ r.written = <<>>
  BY <1>0, <1>1 DEF Session, NoSession, Places
<1> HIDE DEF r
<1>3. session' \in [Sessions -> Session] /\ session'[s] = r /\ \A q \in Sessions : q # s => Same(q)
  BY <1>0, <1>2 DEF Same
<1>4. Kept(s)' /\ InOrder(session'[s].written)
  BY <1>2, <1>3, EmptyInOrder DEF Kept
<1>5. ASSUME NEW c \in Batches, batch[c].on = s PROVE Placed(c)'
  <2>1. Placed(c) /\ batch'[c] = batch[c] /\ s # None /\ c # s
    BY <1>0, <1>5, BridgeNames DEF StdinInv, Sessions, Placed
  <2>2. batch[c].at \notin {"write", "broken"}
    BY <1>0, <1>5, <2>1 DEF Placed
  <2> QED
    BY <1>2, <1>3, <1>5, <2>1, <2>2 DEF Placed
<1>6. ASSUME NEW c \in Batches, batch[c].on # None, c = s PROVE Placed(c)'
  BY <1>0, <1>3, <1>5, <1>6 DEF StdinInv, Placed
<1>7. s \in Batches /\ s \in Sends => batch[s].at # "new"
  BY <1>0 DEF StdinInv, Placed
<1> QED
  BY <1>0, <1>3, <1>4, <1>5, <1>6, <1>7, SessionStdin

LEMMA AroundStdin ==
    ASSUME StdinInv, [Next]_vars,
           (\E r \in Sends : Leave(r)) \/ SignOut \/ Replace \/ Shutdown \/ ShutdownReturns \/ UNCHANGED vars
    PROVE  StdinInv'
<1>1. UNCHANGED <<session, batch>>
  BY DEF Leave, SignOut, Replace, Shutdown, ShutdownReturns, vars
<1>2. session' \in [Sessions -> Session] /\ \A s \in Sessions : Same(s)
  BY <1>1 DEF StdinInv, Same
<1> QED
  BY <1>1, <1>2, QuietStdin

-----------------------------------------------------------------------------
\* A batch that is where its session is not in doubt.
LEMMA OnSessions ==
    ASSUME StdinInv, NEW b \in Batches, batch[b].at \notin {"new", "answered"}
    PROVE  batch[b].on \in Sessions /\ batch[b].on # None
BY DEF StdinInv, Inv, Batch, Placed

\* An answer gives up the lock, and a release the control with it.
LEMMA AnsweredStdin ==
    ASSUME StdinInv, [Next]_vars, NEW b \in Batches, NEW outcome, Answered(b, outcome),
           batch[b].at \notin {"new", "answered"},
           \/ session[batch[b].on].lock \in {None, b}
           \/ session[batch[b].on].at = "closed"
           \/ batch[b].on = b
    PROVE  StdinInv'
<1>a. PICK s \in Sessions : s = batch[b].on /\ s # None
  BY OnSessions
<1> DEFINE r == session'[s]
           ends == LeavesControl(b)
<1>0. /\ s = batch[b].on /\ s # None /\ session \in [Sessions -> Session] /\ session[s] \in Session
      /\ Placed(b) /\ Kept(s) /\ InOrder(session[s].written) /\ batch \in [Batches -> Batch]
  BY <1>a DEF StdinInv, Inv
<1>1. /\ batch'[b].at = "answered" /\ batch'[b].on = None /\ batch'[b].kind = "text"
      /\ \A c \in Batches : c # b => batch'[c] = batch[c]
  BY <1>0 DEF Answered, NoBatch
<1>2. PICK controls \in BOOLEAN, stops \in BOOLEAN, kept \in Batches \cup {None}, types \in Inputs \cup {None}, place \in Places :
        /\ controls = (session[s].controlled /\ ~ends)
        /\ kept = (IF session[s].lock = b THEN None ELSE session[s].lock)
        /\ place = (IF s = b THEN "close" ELSE session[s].at)
        /\ session' = [session EXCEPT ![s].lock = kept, ![s].typing = types, ![s].controlled = controls,
                                      ![s].stopped = stops, ![s].at = place]
  <2> DEFINE stops == \/ session[s].stopped
                      \/ /\ b \in Inputs
                         /\ \/ batch[b].kind = "release"
                            \/ batch[b].kind = "text" /\ outcome # "forwarded"
             controls == session[s].controlled /\ ~ends
             kept == IF session[s].lock = b THEN None ELSE session[s].lock
             types == IF session[s].typing = b THEN None ELSE session[s].typing
             place == IF s = b THEN "close" ELSE session[s].at
  <2>1. stops \in BOOLEAN /\ controls \in BOOLEAN
    OBVIOUS
  <2>2. kept \in Batches \cup {None} /\ types \in Inputs \cup {None} /\ place \in Places
    BY <1>0 DEF Session, Places
  <2>3. session' = [session EXCEPT ![s].lock = kept, ![s].typing = types, ![s].controlled = controls,
                                   ![s].stopped = stops, ![s].at = place]
    BY <1>0 DEF Answered
  <2> HIDE DEF stops, kept, types, place
  <2> QED
    BY <2>1, <2>2, <2>3 DEF kept, place
<1>b. /\ session' = [session EXCEPT ![s] = r] /\ \A q \in Sessions : q # s => session'[q] = session[q]
      /\ r = [session[s] EXCEPT !.lock = kept, !.typing = types, !.controlled = controls,
                                !.stopped = stops, !.at = place]
  <2>1. session' = [session EXCEPT ![s].lock = kept, ![s].typing = types, ![s].controlled = controls,
                                   ![s].stopped = stops, ![s].at = place]
    BY <1>2
  <2> QED
    BY <1>0, <2>1
<1> HIDE DEF r, ends
<1>3. /\ r.written = session[s].written /\ r.active = session[s].active /\ r.lock = kept
      /\ r.controlled = controls /\ r.at = place /\ r \in Session
  BY <1>0, <1>b DEF Session
<1>4. session' \in [Sessions -> Session] /\ \A q \in Sessions : q # s => Same(q)
  BY <1>0, <1>b, <1>3 DEF Same
<1>d. /\ r.controlled => session[s].controlled
      /\ r.at = "close" \/ r.at = session[s].at
      /\ s # b => r.at = session[s].at
  BY <1>2, <1>3
<1>c. session'[s] = r
  BY DEF r
<1>5. ASSUME NEW c \in Batches, c # b, batch[c].on = s PROVE Placed(c)'
  <2>1. Placed(c) /\ batch'[c] = batch[c] /\ c # None
    BY <1>1, <1>5, BridgeNames DEF StdinInv, Batches
  <2>2. s # b
    BY <1>0, <1>5, <2>1, BridgeKinds DEF Placed, Batches
  <2>3. CASE s = c
    BY <1>0, <1>1, <1>5, <2>1, <2>3, BridgeKinds DEF Placed, Batches
  <2>4. CASE s # c
    <3>1. batch[c].at \in {"write", "broken"} => r.lock = c /\ r.at \notin {"reap", "closed"}
      BY <1>2, <1>3, <1>5, <2>1, <2>2, <2>4 DEF Placed
    <3>2. batch[c].at = "write" => session[s].controlled /\ session[s].lock = c /\ session[s].at # "closed"
      BY <1>5, <2>1, <2>4 DEF Placed
    <3>3. batch[c].at = "write" => FALSE
      BY <1>0, <1>5, <2>1, <2>2, <3>2
    <3>4. batch[c].at \in {"read", "press"} => r.lock = c \/ r.at = "closed"
      BY <1>2, <1>3, <1>5, <2>1, <2>2 DEF Placed
    <3> QED
      BY <1>0, <1>d, <1>5, <2>1, <2>2, <2>4, <3>1, <3>3, <3>4, <1>c DEF Placed
  <2> QED
    BY <2>3, <2>4
<1>6. ASSUME NEW c \in Batches, c # b, c = s PROVE Placed(c)'
  BY <1>0, <1>6, BridgeKinds DEF Placed, Batches
<1>7. Placed(b)'
  BY <1>1, BridgeNames DEF Placed, Batches
<1>8. ASSUME Has(r.written, None), r.controlled PROVE \E c \in Batches : Releasing(s, c)'
  <2>1. PICK c \in Batches : Releasing(s, c)
    BY <1>0, <1>2, <1>3, <1>8 DEF Kept
  <2>2. c # b
    BY <1>2, <1>3, <1>8, <2>1 DEF Releasing, LeavesControl, ends
  <2> QED
    BY <1>1, <1>2, <1>3, <2>1, <2>2, <1>c DEF Releasing
<1>9. ASSUME NEW c \in Batches, Has(r.written, c)
      PROVE  \/ batch'[c].at \in {"answered", "broken"}
             \/ batch'[c].at = "write" /\ batch'[c].on = s /\ batch'[c].sent > 0 /\ r.written[Len(r.written)] = c
  BY <1>0, <1>1, <1>3, <1>9 DEF Kept
<1>10. Kept(s)'
  BY <1>0, <1>3, <1>c, <1>d, <1>8, <1>9 DEF Kept
<1> QED
  BY <1>0, <1>1, <1>3, <1>4, <1>5, <1>6, <1>7, <1>10, BatchStdin, <1>c

LEMMA TypeStdin == ASSUME StdinInv, [Next]_vars, NEW b \in Inputs, Type(b) PROVE StdinInv'
<1>1. PICK s \in Streams, kind \in {"text", "key", "release"} :
        /\ session[s].at \notin {"new", "closed"}
        /\ session' = [session EXCEPT ![s].typing = b]
        /\ batch' = [batch EXCEPT ![b] = [NoBatch EXCEPT !.at = "lock", !.kind = kind, !.on = s]]
  BY DEF Type
<1>2. /\ session \in [Sessions -> Session] /\ batch \in [Batches -> Batch] /\ b \in Batches /\ s \in Sessions
      /\ batch[b].at = "new"
  BY DEF StdinInv, Inv, Batches, Sessions, Type
<1>3. session' \in [Sessions -> Session] /\ \A q \in Sessions : Same(q)
  BY <1>1, <1>2 DEF Session, Same
<1>4. /\ batch'[b].at = "lock" /\ batch'[b].on = s
      /\ \A c \in Batches : c # b => batch'[c] = batch[c]
  BY <1>1, <1>2 DEF NoBatch
<1>5. session'[s].at # "new" /\ s # None /\ s # b
  BY <1>1, <1>2, <1>3, BridgeNames, BridgeKinds DEF Same
<1>6. Placed(b)'
  BY <1>4, <1>5, BridgeKinds DEF Placed
<1>7. \A c \in Batches : batch[c].on # None => batch[c].on \in Sessions
  BY DEF StdinInv, Inv, Batch
<1>8. ASSUME NEW c \in Batches, c # b PROVE Placed(c)'
  <2>1. Placed(c) /\ batch'[c] = batch[c] /\ (c \in Sends => c \in Sessions)
    BY <1>4, <1>8 DEF StdinInv, Sessions
  <2> QED
    BY <1>3, <1>7, <2>1, SamePlaced
<1>9. Kept(s)' /\ InOrder(session'[s].written)
  BY <1>2, <1>3, <1>4, SameKept
<1> QED
  BY <1>2, <1>3, <1>4, <1>6, <1>8, <1>9, BatchStdin

LEMMA SendByHandleStdin == ASSUME StdinInv, [Next]_vars, NEW b \in Sends, SendByHandle(b) PROVE StdinInv'
<1>1. PICK s \in Streams :
        /\ session[s].active
        /\ batch' = [batch EXCEPT ![b] = [NoBatch EXCEPT !.at = "lock", !.on = s]]
  BY DEF SendByHandle
<1>2. /\ session \in [Sessions -> Session] /\ batch \in [Batches -> Batch] /\ b \in Batches /\ s \in Sessions
      /\ batch[b].at = "new" /\ UNCHANGED session
  BY DEF StdinInv, Inv, Batches, Sessions, SendByHandle
<1>3. \A q \in Sessions : Same(q)
  BY <1>2 DEF Same
<1>4. /\ batch'[b].at = "lock" /\ batch'[b].on = s /\ batch'[b].kind = "text"
      /\ \A c \in Batches : c # b => batch'[c] = batch[c]
  BY <1>1, <1>2 DEF NoBatch
<1>5. session[s].at # "new" /\ s # None /\ s # b
  BY <1>1, <1>2, BridgeNames, BridgeKinds DEF StdinInv, Kept
<1>6. Placed(b)'
  BY <1>2, <1>4, <1>5, BridgeKinds DEF Placed
<1>7. \A c \in Batches : batch[c].on # None => batch[c].on \in Sessions
  BY DEF StdinInv, Inv, Batch
<1>8. ASSUME NEW c \in Batches, c # b PROVE Placed(c)'
  <2>1. Placed(c) /\ batch'[c] = batch[c] /\ (c \in Sends => c \in Sessions)
    BY <1>4, <1>8 DEF StdinInv, Sessions
  <2> QED
    BY <1>3, <1>7, <2>1, SamePlaced
<1>9. Kept(s)' /\ InOrder(session'[s].written)
  BY <1>2, <1>3, <1>4, SameKept
<1> QED
  BY <1>2, <1>3, <1>4, <1>6, <1>8, <1>9, BatchStdin

LEMMA SendAloneStdin == ASSUME StdinInv, [Next]_vars, NEW b \in Sends, SendAlone(b) PROVE StdinInv'
<1>0. /\ session \in [Sessions -> Session] /\ batch \in [Batches -> Batch] /\ b \in Batches /\ b \in Sessions
      /\ batch[b].at = "new" /\ batch[b].on = None /\ b # None
  BY BridgeNames DEF StdinInv, Inv, Batches, Sessions, SendAlone, Placed
<1>1. PICK r \in {[NoSession EXCEPT !.at = "own", !.child = "running"], [NoSession EXCEPT !.at = "closed"]} :
        session' = [session EXCEPT ![b] = r]
  BY DEF SendAlone, Start
<1>2. r \in Session /\ r.at \in {"own", "closed"} /\ r.controlled = FALSE /\ r.written = <<>>
  BY <1>1, FreshTypes DEF NoSession
<1>3. session' \in [Sessions -> Session] /\ session'[b] = r /\ \A q \in Sessions : q # b => Same(q)
  BY <1>0, <1>1, <1>2 DEF Same
<1>4. \A c \in Batches : c # b => batch'[c] = batch[c]
  BY <1>0 DEF SendAlone
<1>5. \/ r.at = "own" /\ batch'[b] = [NoBatch EXCEPT !.at = "attach", !.on = b]
      \/ batch'[b] = [NoBatch EXCEPT !.at = "answered", !.outcome = "not_sent"]
  BY <1>0, <1>3 DEF SendAlone
<1>9. /\ batch'[b].kind = "text"
      /\ \/ r.at = "own" /\ batch'[b].at = "attach" /\ batch'[b].on = b
         \/ batch'[b].at = "answered" /\ batch'[b].on = None
  BY <1>5 DEF NoBatch
<1>6. Placed(b)'
  BY <1>0, <1>2, <1>3, <1>9, BridgeKinds, BridgeNames DEF Placed
<1>7. ASSUME NEW c \in Batches, c # b, batch[c].on = b \/ c = b PROVE Placed(c)'
  BY <1>0, <1>7, SendsAreAlone
<1>8. Kept(b)' /\ InOrder(session'[b].written)
  BY <1>2, <1>3, EmptyInOrder DEF Kept
<1> QED
  BY <1>0, <1>3, <1>4, <1>6, <1>7, <1>8, BatchStdin

LEMMA AttachAloneStdin == ASSUME StdinInv, [Next]_vars, NEW b \in Sends, AttachAlone(b) PROVE StdinInv'
<1>0. /\ session \in [Sessions -> Session] /\ batch \in [Batches -> Batch] /\ b \in Batches /\ b \in Sessions
      /\ batch[b].at = "attach" /\ batch[b].on = b /\ b # None /\ session[b] \in Session
      /\ session[b].written = <<>> /\ session[b].at = "own" /\ Placed(b) /\ Kept(b)
  BY BridgeNames DEF StdinInv, Inv, Batches, Sessions, AttachAlone, Placed
<1>1. ASSUME NEW outcome, Answered(b, outcome) PROVE StdinInv'
  BY <1>0, <1>1, AnsweredStdin
<1>2. ASSUME Attach(b, [session[b] EXCEPT !.controlled = TRUE]), batch' = [batch EXCEPT ![b].at = "write"]
      PROVE  StdinInv'
  <2> DEFINE now == [session[b] EXCEPT !.controlled = TRUE]
  <2>1. /\ now \in Session /\ now.at = "own" /\ now.written = <<>> /\ now.controlled = TRUE
        /\ now.active = session[b].active
    BY <1>0 DEF Session
  <2> HIDE DEF now
  <2>2. session' \in [Sessions -> Session] /\ session'[b] = now /\ \A q \in Sessions : q # b => Same(q)
    BY <1>0, <1>2, <2>1, AttachOthers DEF now
  <2>3. /\ batch'[b].at = "write" /\ batch'[b].on = b /\ batch'[b].kind = batch[b].kind
        /\ \A c \in Batches : c # b => batch'[c] = batch[c]
    BY <1>0, <1>2 DEF Batch
  <2>4. Placed(b)'
    BY <1>0, <2>1, <2>2, <2>3, BridgeKinds DEF Placed
  <2>5. ASSUME NEW c \in Batches, c # b, batch[c].on = b \/ c = b PROVE Placed(c)'
    BY <1>0, <2>5, SendsAreAlone
  <2>6. Kept(b)' /\ InOrder(session'[b].written)
    BY <2>1, <2>2, EmptyInOrder DEF Kept
  <2> QED
    BY <1>0, <2>2, <2>3, <2>4, <2>5, <2>6, BatchStdin
<1> QED
  BY <1>1, <1>2 DEF AttachAlone

\* Taking the lock of a session that nobody writes to.
LEMMA LockStdin == ASSUME StdinInv, [Next]_vars, NEW b \in Batches, Lock(b) PROVE StdinInv'
<1>a. PICK s \in Sessions : s = batch[b].on /\ s # None
  BY OnSessions DEF Lock
<1>0. /\ session \in [Sessions -> Session] /\ batch \in [Batches -> Batch] /\ session[s] \in Session
      /\ batch[b].at = "lock" /\ session[s].lock = None /\ Placed(b) /\ Kept(s) /\ InOrder(session[s].written)
      /\ s # b
  BY <1>a DEF StdinInv, Inv, Lock, LockHeld, Placed
<1>1. CASE Answered(b, "not_sent")
  BY <1>0, <1>1, <1>a, AnsweredStdin
<1>2. ASSUME NEW place \in {"read", "write"}, place = "write" => session[s].controlled,
             session' = [session EXCEPT ![s].lock = b], batch' = [batch EXCEPT ![b].at = place]
      PROVE  StdinInv'
  <2>1. /\ session'[s] = [session[s] EXCEPT !.lock = b] /\ session' \in [Sessions -> Session]
        /\ \A q \in Sessions : q # s => Same(q)
    BY <1>0, <1>2 DEF Session, Same
  <2>2. /\ session'[s].lock = b /\ session'[s].at = session[s].at /\ session'[s].written = session[s].written
        /\ session'[s].controlled = session[s].controlled /\ session'[s].active = session[s].active
    BY <1>0, <2>1 DEF Session
  <2>3. /\ batch'[b].at = place /\ batch'[b].on = s /\ batch'[b].kind = batch[b].kind
        /\ \A c \in Batches : c # b => batch'[c] = batch[c]
    BY <1>0, <1>2, <1>a DEF Batch
  <2>4. place = "write" => session[s].at \notin {"reap", "closed"}
    BY <1>0, <1>2 DEF Kept
  <2>5. Placed(b)'
    BY <1>0, <1>2, <1>a, <2>2, <2>3, <2>4 DEF Placed
  <2>6. ASSUME NEW c \in Batches, batch[c].at \in {"write", "broken"}, batch[c].on = s PROVE c = s
    BY <1>0, <2>6, BridgeNames DEF StdinInv, Placed, Batches
  <2>7. ASSUME NEW c \in Batches, c # b, batch[c].on = s \/ c = s PROVE Placed(c)'
    <3>1. Placed(c) /\ batch'[c] = batch[c] /\ c # None
      BY <2>3, <2>7, BridgeNames DEF StdinInv, Batches
    <3>2. CASE batch[c].on = s
      BY <1>0, <1>a, <2>2, <2>6, <3>1, <3>2 DEF Placed
    <3>3. CASE batch[c].on # s
      <4>1. batch[c].on # None => batch[c].on \in Sessions
        BY DEF StdinInv, Inv, Batch
      <4>2. batch[c].on # None => Same(batch[c].on)
        BY <2>1, <3>3, <4>1
      <4>3. session'[c].at = session[c].at
        BY <2>2, <2>7, <3>3
      <4>4. batch[c].on # c
        BY <2>7, <3>3
      <4> QED
        BY <3>1, <4>2, <4>3, <4>4, BridgeNames DEF Placed, Same
    <3> QED
      BY <3>2, <3>3
  <2>8. ASSUME Has(session[s].written, None) PROVE ~session[s].controlled
    BY <1>0, <2>8, BridgeNames DEF Kept, Releasing, Batches
  <2>9. ASSUME NEW c \in Batches, Has(session[s].written, c) PROVE c # b
    BY <1>0, <2>9 DEF Kept
  <2>10. Kept(s)' /\ InOrder(session'[s].written)
    BY <1>0, <2>2, <2>3, <2>8, <2>9 DEF Kept
  <2> QED
    BY <1>0, <2>1, <2>3, <2>5, <2>7, <2>10, BatchStdin
<1> QED
  BY <1>0, <1>1, <1>2, <1>a DEF Lock

\* A chunk or a release is written by the only batch that may write.
LEMMA WriteStdin == ASSUME StdinInv, [Next]_vars, NEW b \in Batches, Write(b) PROVE StdinInv'
<1>a. PICK s \in Sessions : s = batch[b].on /\ s # None
  BY OnSessions DEF Write
<1> DEFINE x == IF batch[b].kind = "release" THEN None ELSE b
           w == session[s].written
           v == Append(w, x)
<1>0. /\ session \in [Sessions -> Session] /\ batch \in [Batches -> Batch] /\ session[s] \in Session
      /\ batch[b] \in Batch /\ batch[b].at = "write" /\ batch[b].sent < Size(b)
      /\ Placed(b) /\ Kept(s) /\ InOrder(w) /\ w \in Seq(Batches \cup {None}) /\ b # None
  BY <1>a, BridgeNames DEF StdinInv, Inv, Write, Session, Batches
<1>1. x \in Batches \cup {None} /\ (x = b \/ (x = None /\ batch[b].kind = "release")) /\ (batch[b].kind = "release" => x = None)
  OBVIOUS
<1>2. session[s].controlled /\ session[s].at \notin {"new", "starting", "reap", "closed"}
  BY <1>0, <1>a DEF Placed, Kept
<1>3. batch[b].kind = "release" => batch[b].sent = 0 /\ s # b /\ b \in Inputs /\ session[s].lock = b
  <2>1. batch[b].kind = "release" => Size(b) = 1
    BY DEF Size
  <2>2. batch[b].kind = "release" => b \in Inputs /\ b \notin Sends
    BY <1>0, BridgeKinds DEF Placed
  <2>3. b \notin Sends => s # b
    BY <1>0, <1>a, BridgeKinds DEF Placed, Batches
  <2> QED
    BY <1>0, <1>a, <2>1, <2>2, <2>3 DEF Batch, Placed
<1>4. ~Has(w, None)
  <2>1. SUFFICES ASSUME NEW r \in Batches, Releasing(s, r) PROVE FALSE
    BY <1>0, <1>2 DEF Kept
  <2>2. r = b
    BY <1>0, <1>a, <2>1, OneWriter DEF Releasing
  <2> QED
    BY <1>0, <2>1, <2>2 DEF Releasing, Size
<1>5. Has(w, b) => w[Len(w)] = b /\ batch[b].sent > 0
  BY <1>0 DEF Kept
<1> HIDE DEF x, w
<1>6. /\ v \in Seq(Batches \cup {None}) /\ InOrder(v) /\ v[Len(v)] = x
      /\ \A y : Has(v, y) <=> Has(w, y) \/ y = x
  <2>1. x # None => ~Has(w, None) /\ (Has(w, x) => w[Len(w)] = x)
    BY <1>1, <1>4, <1>5
  <2> QED
    BY <1>0, <1>1, <2>1, AppendHas, AppendInOrder
<1> HIDE DEF v
<1>7. /\ session'[s] = [session[s] EXCEPT !.written = v] /\ session' = [session EXCEPT ![s] = session'[s]]
      /\ \A q \in Sessions : q # s => session'[q] = session[q]
  BY <1>0, <1>a DEF Write, v, w, x
<1>8. /\ session'[s].written = v /\ session'[s].at = session[s].at /\ session'[s].lock = session[s].lock
      /\ session'[s].controlled = session[s].controlled /\ session'[s].active = session[s].active
      /\ session' \in [Sessions -> Session] /\ \A q \in Sessions : q # s => Same(q)
  <2>1. /\ session'[s].written = v /\ session'[s].at = session[s].at /\ session'[s].lock = session[s].lock
        /\ session'[s].controlled = session[s].controlled /\ session'[s].active = session[s].active
    BY <1>0, <1>7 DEF Session
  <2>2. session'[s] \in Session
    BY <1>0, <1>6, <1>7 DEF Session
  <2>3. session' \in [Sessions -> Session]
    BY <1>0, <1>7, <2>2
  <2> QED
    BY <1>7, <2>1, <2>3 DEF Same
<1>9. /\ \A c \in Batches : c # b => batch'[c] = batch[c]
      /\ batch'[b].on = s /\ batch'[b].kind = batch[b].kind
      /\ \/ batch'[b].at = "write" /\ batch'[b].sent = batch[b].sent + 1
         \/ batch'[b].at = "broken"
  BY <1>0, <1>a DEF Write, Batch
<1>10. ASSUME NEW c \in Batches PROVE Placed(c)'
  <2>1. Placed(c) /\ (batch[c].on # None => batch[c].on \in Sessions)
    BY DEF StdinInv, Inv, Batch
  <2>2. CASE c = b
    BY <1>0, <1>2, <1>8, <1>9, <1>a, <2>2 DEF Placed
  <2>3. CASE c # b
    <3>1. \A q \in Sessions : /\ session'[q].at = session[q].at /\ session'[q].lock = session[q].lock
                              /\ session'[q].controlled = session[q].controlled
      BY <1>8 DEF Same
    <3>2. batch[c].at = "attach" => batch[c].on # s
      BY <1>0, <1>a, <2>1, <2>3, SendsAreAlone, BridgeKinds DEF Placed, Batches
    <3>3. batch[c].at = "attach" => session'[c].written = session[c].written
      BY <1>7, <2>1, <3>2 DEF Placed
    <3>4. batch'[c] = batch[c] /\ (c \in Sends => c \in Sessions) /\ c # None
      BY <1>9, <2>3, BridgeNames DEF Sessions, Batches
    <3>5. None \notin Streams
      BY BridgeNames
    <3>6. CASE batch[c].on = None
      BY <2>1, <3>1, <3>4, <3>5, <3>6 DEF Placed
    <3>7. CASE batch[c].on # None
      BY <2>1, <3>1, <3>3, <3>4, <3>7 DEF Placed
    <3> QED
      BY <3>6, <3>7
  <2> QED
    BY <2>2, <2>3
<1>11. ASSUME Has(v, None) PROVE Releasing(s, b)'
  <2>1. x = None /\ batch[b].kind = "release"
    BY <1>0, <1>1, <1>4, <1>6, <1>11
  <2> QED
    BY <1>3, <1>8, <1>9, <2>1 DEF Releasing
<1>12. ASSUME NEW c \in Batches, Has(v, c)
      PROVE  \/ batch'[c].at \in {"answered", "broken"}
             \/ batch'[c].at = "write" /\ batch'[c].on = s /\ batch'[c].sent > 0 /\ v[Len(v)] = c
  <2>0. c # None /\ batch[b].sent \in Nat
    BY <1>0, BridgeNames DEF Batches, Batch
  <2>1. CASE c = b
    <3>1. CASE x = b
      BY <1>6, <1>9, <2>0, <2>1, <3>1
    <3>2. CASE x # b
      BY <1>1, <1>3, <1>5, <1>6, <1>12, <2>0, <2>1, <3>2
    <3> QED
      BY <3>1, <3>2
  <2>2. CASE c # b
    <3>1. Has(w, c)
      BY <1>1, <1>6, <1>12, <2>0, <2>2
    <3>2. batch[c].at \in {"answered", "broken"}
      BY <1>0, <1>a, <2>2, <3>1, OneWriter DEF Kept, w
    <3> QED
      BY <1>9, <2>2, <3>2
  <2> QED
    BY <2>1, <2>2
<1>13. Kept(s)'
  BY <1>2, <1>8, <1>11, <1>12 DEF Kept
<1>14. ASSUME NEW q \in Sessions, q # s PROVE Kept(q)' /\ InOrder(session'[q].written)
  <2>1. Kept(q) /\ InOrder(session[q].written) /\ Same(q)
    BY <1>8, <1>14 DEF StdinInv
  <2>2. ~Has(session[q].written, b)
    BY <1>0, <1>14, <1>a, <2>1 DEF Kept
  <2>3. \A c \in Batches : Releasing(q, c) => Releasing(q, c)'
    BY <1>9, <1>14, <1>a, <2>1 DEF Releasing, Same
  <2>4. \A c \in Batches : Has(session[q].written, c) => batch'[c] = batch[c]
    BY <1>9, <2>2
  <2> QED
    BY <2>1, <2>3, <2>4 DEF Kept, Same
<1> QED
  BY <1>6, <1>8, <1>10, <1>13, <1>14, StdinNext

LEMMA FinishStdin == ASSUME StdinInv, [Next]_vars, NEW b \in Batches, Finish(b) PROVE StdinInv'
<1>1. batch[b].at \in {"write", "broken"} /\ \E outcome : Answered(b, outcome)
  BY DEF Finish, Stop
<1>2. session[batch[b].on].lock = b \/ batch[b].on = b
  BY <1>1 DEF StdinInv, Placed
<1> QED
  BY <1>1, <1>2, AnsweredStdin

LEMMA ReadForKeyStdin == ASSUME StdinInv, [Next]_vars, NEW b \in Batches, ReadForKey(b) PROVE StdinInv'
<1>a. PICK s \in Sessions : s = batch[b].on /\ s # None
  BY OnSessions DEF ReadForKey
<1>0. /\ session \in [Sessions -> Session] /\ batch \in [Batches -> Batch]
      /\ batch[b].at = "read" /\ Placed(b) /\ (session[s].lock = b \/ session[s].at = "closed")
  BY <1>a DEF StdinInv, Inv, ReadForKey, Placed
<1>1. CASE Answered(b, "not_sent")
  BY <1>0, <1>1, <1>a, AnsweredStdin
<1>2. CASE batch' = [batch EXCEPT ![b].at = "press"] /\ UNCHANGED session
  <2>1. /\ batch'[b].at = "press" /\ batch'[b].on = s /\ batch'[b].kind = batch[b].kind
        /\ \A c \in Batches : c # b => batch'[c] = batch[c]
    BY <1>0, <1>2, <1>a DEF Batch
  <2>2. session' \in [Sessions -> Session] /\ \A q \in Sessions : Same(q)
    BY <1>0, <1>2 DEF Same
  <2>3. Placed(b)'
    BY <1>0, <1>2, <1>a, <2>1 DEF Placed
  <2>4. ASSUME NEW c \in Batches, c # b PROVE Placed(c)'
    <3>1. Placed(c) /\ batch'[c] = batch[c] /\ (c \in Sends => c \in Sessions)
          /\ (batch[c].on # None => batch[c].on \in Sessions)
      BY <2>1, <2>4 DEF StdinInv, Sessions, Inv, Batch
    <3> QED
      BY <2>2, <3>1, SamePlaced
  <2>5. Kept(s)' /\ InOrder(session'[s].written)
    BY <1>0, <2>1, <2>2, SameKept
  <2> QED
    BY <1>0, <2>1, <2>2, <2>3, <2>4, <2>5, BatchStdin
<1> QED
  BY <1>1, <1>2 DEF ReadForKey

\* A key gives up its lock, or finds that its session was forgotten with it.
LEMMA PressStdin == ASSUME StdinInv, [Next]_vars, NEW b \in Batches, Press(b) PROVE StdinInv'
<1>a. PICK s \in Sessions : s = batch[b].on /\ s # None
  BY OnSessions DEF Press
<1>0. /\ session \in [Sessions -> Session] /\ batch \in [Batches -> Batch] /\ session[s] \in Session
      /\ batch[b].at = "press" /\ Placed(b) /\ Kept(s) /\ InOrder(session[s].written)
      /\ (session[s].lock = b \/ session[s].at = "closed") /\ s # b
  BY <1>a DEF StdinInv, Inv, Press, Placed
<1>1. CASE Answered(b, "not_sent")
  BY <1>0, <1>1, <1>a, AnsweredStdin
<1>2. ASSUME NEW outcome, NEW effect,
             session' = [session EXCEPT ![s].lock = None, ![s].typing = None],
             batch' = [batch EXCEPT ![b].at = "answered", ![b].outcome = outcome, ![b].on = None,
                                    ![b].effect = effect, ![b].kind = "text", ![b].on = None]
      PROVE  StdinInv'
  <2>1. /\ session'[s] = [session[s] EXCEPT !.lock = None, !.typing = None]
        /\ \A q \in Sessions : q # s => session'[q] = session[q]
        /\ session' = [session EXCEPT ![s] = session'[s]]
    BY <1>0, <1>2
  <2>2. /\ session'[s].lock = None /\ session'[s].at = session[s].at /\ session'[s].written = session[s].written
        /\ session'[s].controlled = session[s].controlled /\ session'[s].active = session[s].active
        /\ session'[s] \in Session
    BY <1>0, <2>1 DEF Session
  <2>3. session' \in [Sessions -> Session] /\ \A q \in Sessions : q # s => Same(q)
    BY <1>0, <2>1, <2>2 DEF Same
  <2>4. /\ batch'[b].at = "answered" /\ batch'[b].on = None /\ batch'[b].kind = "text"
        /\ \A c \in Batches : c # b => batch'[c] = batch[c]
    BY <1>0, <1>2 DEF Batch
  <2>5. Placed(b)'
    BY <2>4, BridgeNames DEF Placed, Batches
  <2>6. ASSUME NEW c \in Batches, c # b, batch[c].on = s \/ c = s PROVE Placed(c)'
    <3>1. Placed(c) /\ batch'[c] = batch[c] /\ c # None
          /\ (batch[c].on # None => batch[c].on \in Sessions)
      BY <2>4, <2>6, BridgeNames DEF StdinInv, Batches, Inv, Batch
    <3>2. CASE batch[c].on = s
      <4>1. s \in Streams
        BY <1>0, <1>a DEF Placed
      <4>2. c # s
        BY <4>1, BridgeKinds DEF Batches
      <4>3. batch[c].at \notin {"write", "broken"}
        <5>1. batch[c].at \in {"write", "broken"} => session[s].lock = c /\ session[s].at # "closed"
          BY <3>1, <3>2, <4>2 DEF Placed
        <5> QED
          BY <1>0, <2>6, <5>1
      <4>4. batch[c].at \in {"read", "press"} => session[s].at = "closed"
        BY <1>0, <2>6, <3>1, <3>2 DEF Placed
      <4> QED
        BY <1>a, <2>2, <3>1, <3>2, <4>1, <4>2, <4>3, <4>4 DEF Placed
    <3>3. CASE batch[c].on # s
      <4>1. batch[c].on # None => Same(batch[c].on)
        BY <2>3, <3>1, <3>3
      <4>2. session'[c].at = session[c].at /\ batch[c].on # c
        BY <2>2, <2>6, <3>3
      <4> QED
        BY <3>1, <4>1, <4>2, BridgeNames DEF Placed, Same
    <3> QED
      BY <3>2, <3>3
  <2>7. ASSUME Has(session[s].written, None) PROVE ~session[s].controlled
    <3>1. SUFFICES ASSUME NEW c \in Batches, Releasing(s, c), session[s].controlled PROVE FALSE
      BY <1>0, <2>7 DEF Kept
    <3>2. c = b
      BY <1>0, <3>1 DEF Kept, Releasing
    <3> QED
      BY <1>0, <3>1, <3>2 DEF Releasing
  <2>8. Kept(s)' /\ InOrder(session'[s].written)
    BY <1>0, <2>2, <2>4, <2>7 DEF Kept
  <2> QED
    BY <1>0, <2>3, <2>4, <2>5, <2>6, <2>8, BatchStdin
<1> QED
  <2>1. ASSUME ~Answered(b, "not_sent") PROVE StdinInv'
    <3>1. PICK pressed \in BOOLEAN, outcome \in {"forwarded", LostAnswer} :
            /\ session' = [session EXCEPT ![s].lock = None, ![s].typing = None]
            /\ batch' = [batch EXCEPT ![b].at = "answered", ![b].outcome = outcome, ![b].on = None,
                                      ![b].effect = IF pressed THEN "all" ELSE "none",
                                      ![b].kind = "text", ![b].on = None]
      BY <1>a, <2>1 DEF Press
    <3> QED
      BY <1>2, <3>1
  <2> QED
    BY <1>1, <2>1

-----------------------------------------------------------------------------
LEMMA InitStdin == Init => StdinInv
<1> SUFFICES ASSUME Init PROVE StdinInv
  OBVIOUS
<1>1. /\ session = [s \in Sessions |-> NoSession] /\ batch = [b \in Batches |-> NoBatch]
      /\ NoSession.written = <<>> /\ NoSession.at = "new" /\ NoSession.controlled = FALSE
      /\ NoSession.active = FALSE /\ NoBatch.at = "new" /\ NoBatch.on = None /\ NoBatch.kind = "text"
  BY DEF Init, NoSession, NoBatch
<1>2. NoSession \in Session
  <2>1. <<>> \in Seq(Batches \cup {None})
    OBVIOUS
  <2> QED
    BY <2>1 DEF NoSession, Session, Places
<1>3. \A b \in Batches : Placed(b)
  BY <1>1, BridgeNames DEF Placed, Batches, Sessions
<1>4. \A s \in Sessions : Kept(s) /\ InOrder(session[s].written)
  BY <1>1, EmptyInOrder DEF Kept
<1> QED
  BY <1>1, <1>2, <1>3, <1>4, InitInv DEF StdinInv

LEMMA NextStdin == StdinInv /\ [Next]_vars => StdinInv'
<1> SUFFICES ASSUME StdinInv, [Next]_vars PROVE StdinInv'
  OBVIOUS
<1>1. ASSUME NEW s \in Streams, OpenStream(s) \/ FirstFrame(s) \/ End(s) \/ Unregister(s) PROVE StdinInv'
  BY <1>1, OpenStreamStdin, FirstFrameStdin, EndStdin, UnregisterStdin
<1>2. ASSUME NEW s \in Sessions, Exit(s) \/ Close(s) \/ Closed(s) PROVE StdinInv'
  BY <1>2, ExitStdin, CloseStdin, ClosedStdin
<1>3. ASSUME NEW b \in Inputs, Type(b) PROVE StdinInv'
  BY <1>3, TypeStdin
<1>4. ASSUME NEW b \in Sends, SendByHandle(b) \/ SendAlone(b) \/ AttachAlone(b) PROVE StdinInv'
  BY <1>4, SendByHandleStdin, SendAloneStdin, AttachAloneStdin
<1>5. ASSUME NEW b \in Batches, BatchStep(b) PROVE StdinInv'
  BY <1>5, LockStdin, WriteStdin, FinishStdin, ReadForKeyStdin, PressStdin DEF BatchStep
<1>6. CASE (\E r \in Sends : Leave(r)) \/ SignOut \/ Replace \/ Shutdown \/ ShutdownReturns \/ UNCHANGED vars
  BY <1>6, AroundStdin
<1> QED
  BY <1>1, <1>2, <1>3, <1>4, <1>5, <1>6 DEF Next

\* What a child reads is what was sent, in order: batches of other requests and
\* of other inputs do not come between the chunks of one, and nothing follows
\* the release (terminal_batch.go:61-99; terminal_bridge.go:316-318, 405-423).
THEOREM StdinIsKept == Spec => []StdinStaysInOrder
<1>1. StdinInv => StdinStaysInOrder
  BY DEF StdinInv, StdinStaysInOrder, BatchesStayWhole, NothingFollowsRelease, InOrder
<1> QED
  BY <1>1, InitStdin, NextStdin, PTL DEF Spec

-----------------------------------------------------------------------------
(***************************************************************************)
(* The children that the bridge counts.                                    *)
(*                                                                         *)
(* The session that has the terminal is one whose child runs, and neither  *)
(* one that is new nor one that still waits for control; so who takes it   *)
(* over ends exactly one other child.                                      *)
(***************************************************************************)

Running == {s \in Sessions : session[s].child = "running"}

\* The types of what StdinInv does not speak of.
AroundOK == /\ bridge \in {"open", "closing", "closed"} /\ signedIn \in BOOLEAN /\ current \in BOOLEAN
            /\ gone \subseteq Sessions /\ faults \in 0 .. MaxFaults

SizesOK == \A b \in Batches : batch[b].sent \in 0 .. Chunks

Attached ==
    /\ attached \in Sessions \cup {None}
    /\ attached # None => session[attached].child = "running" /\ session[attached].at \notin {"new", "starting"}
    /\ \A b \in Batches : batch[b].at = "attach" => attached # b
    /\ \A s \in Sessions : session[s].at = "new" => session[s].child = "none"

Counted == /\ IsFiniteSet(Running) /\ waits = Cardinality(Running)
           /\ bridge = "closed" => Running = {}

ChildInv == StdinInv /\ AroundOK /\ SizesOK /\ Attached /\ Counted

-----------------------------------------------------------------------------
LEMMA AroundNext == ASSUME AroundOK, [Next]_vars PROVE AroundOK'
<1> USE BridgeBounds DEF AroundOK
<1>1. ASSUME NEW s \in Streams, OpenStream(s) \/ FirstFrame(s) \/ End(s) \/ Unregister(s) PROVE AroundOK'
  BY <1>1 DEF OpenStream, FirstFrame, End, Unregister, Fault, Sessions
<1>2. ASSUME NEW s \in Sessions, Exit(s) \/ Close(s) \/ Closed(s) PROVE AroundOK'
  BY <1>2 DEF Exit, Close, Closed, Fault
<1>3. ASSUME NEW b \in Inputs, Type(b) PROVE AroundOK'
  BY <1>3 DEF Type
<1>4. ASSUME NEW b \in Sends, SendByHandle(b) \/ SendAlone(b) \/ AttachAlone(b) \/ Leave(b) PROVE AroundOK'
  <2>1. CASE SendByHandle(b) \/ SendAlone(b) \/ AttachAlone(b)
    <3>1. UNCHANGED <<bridge, signedIn, current, gone, faults>>
      BY <2>1 DEF SendByHandle, SendAlone, AttachAlone
    <3> QED
      BY <3>1
  <2>2. CASE Leave(b)
    BY <2>2 DEF Leave, Fault, Sessions
  <2> QED
    BY <1>4, <2>1, <2>2
<1>5. ASSUME NEW b \in Batches, BatchStep(b) PROVE AroundOK'
  <2>1. UNCHANGED <<bridge, signedIn, current, gone, faults>>
    BY <1>5 DEF BatchStep, Lock, Write, Finish, ReadForKey, Press
  <2> QED
    BY <2>1
<1>6. CASE SignOut \/ Replace \/ Shutdown \/ ShutdownReturns \/ UNCHANGED vars
  <2>1. CASE SignOut \/ Replace
    <3>1. UNCHANGED <<bridge, gone>> /\ faults' \in 0 .. MaxFaults
      BY <2>1 DEF SignOut, Replace, Fault
    <3>2. signedIn' \in BOOLEAN /\ current' \in BOOLEAN
      BY <2>1, Zenon DEF SignOut, Replace
    <3> QED
      BY <3>1, <3>2
  <2>2. CASE Shutdown \/ ShutdownReturns \/ UNCHANGED vars
    BY <2>2 DEF Shutdown, ShutdownReturns, vars
  <2> QED
    BY <1>6, <2>1, <2>2
<1> QED
  BY <1>1, <1>2, <1>3, <1>4, <1>5, <1>6 DEF Next

LEMMA SizesNext == ASSUME Inv, SizesOK, [Next]_vars PROVE SizesOK'
<1>0. batch \in [Batches -> Batch] /\ Chunks \in Nat /\ Chunks >= 1
  BY ChunksAssumption DEF Inv
<1>a. ASSUME NEW b \in Batches, batch'[b].sent \in {0, batch[b].sent}, \A c \in Batches : c # b => batch'[c] = batch[c]
      PROVE  SizesOK'
  BY <1>0, <1>a DEF SizesOK
<1>b. ASSUME NEW b \in Batches, NEW outcome, Answered(b, outcome) PROVE SizesOK'
  <2>1. batch'[b].sent = 0 /\ \A c \in Batches : c # b => batch'[c] = batch[c]
    BY <1>0, <1>b DEF Answered, NoBatch
  <2> QED
    BY <1>a, <2>1
<1>c. ASSUME NEW b \in Batches, NEW place, batch' = [batch EXCEPT ![b].at = place] PROVE SizesOK'
  <2>1. batch'[b].sent = batch[b].sent /\ \A c \in Batches : c # b => batch'[c] = batch[c]
    BY <1>0, <1>c DEF Batch
  <2> QED
    BY <1>a, <2>1
<1>d. Sends \subseteq Batches /\ Inputs \subseteq Batches
  BY DEF Batches
<1>1. ASSUME NEW s \in Sessions,
             OpenStream(s) \/ FirstFrame(s) \/ End(s) \/ Unregister(s) \/ Exit(s) \/ Close(s) \/ Closed(s) \/ Leave(s)
      PROVE  SizesOK'
  BY <1>1 DEF OpenStream, FirstFrame, End, Unregister, Exit, Close, Closed, Leave, SizesOK
<1>2. ASSUME NEW b \in Inputs, Type(b) PROVE SizesOK'
  <2>1. b \in Batches /\ batch'[b].sent = 0 /\ \A c \in Batches : c # b => batch'[c] = batch[c]
    BY <1>0, <1>2, <1>d DEF Type, NoBatch
  <2> QED
    BY <1>a, <2>1
<1>3. ASSUME NEW b \in Sends, SendByHandle(b) \/ SendAlone(b) \/ AttachAlone(b) PROVE SizesOK'
  <2>1. CASE SendByHandle(b) \/ SendAlone(b)
    <3>1. b \in Batches /\ \A c \in Batches : c # b => batch'[c] = batch[c]
      BY <1>0, <1>d, <2>1 DEF SendByHandle, SendAlone
    <3>2. ASSUME SendByHandle(b) PROVE batch'[b].sent = 0
      <4>1. PICK s \in Streams : batch'[b] = [NoBatch EXCEPT !.at = "lock", !.on = s]
        BY <1>0, <3>1, <3>2 DEF SendByHandle
      <4> QED
        BY <4>1 DEF NoBatch
    <3>3. ASSUME SendAlone(b) PROVE batch'[b].sent = 0
      <4>1. \/ batch'[b] = [NoBatch EXCEPT !.at = "attach", !.on = b]
            \/ batch'[b] = [NoBatch EXCEPT !.at = "answered", !.outcome = "not_sent"]
        BY <1>0, <3>1, <3>3 DEF SendAlone
      <4> QED
        BY <4>1 DEF NoBatch
    <3>4. batch'[b].sent = 0
      BY <2>1, <3>2, <3>3
    <3> QED
      BY <1>a, <3>1, <3>4
  <2> QED
    BY <1>3, <1>b, <1>c, <1>d, <2>1 DEF AttachAlone
<1>4. ASSUME NEW b \in Batches, Lock(b) \/ Finish(b) \/ ReadForKey(b) PROVE SizesOK'
  BY <1>4, <1>b, <1>c DEF Lock, Finish, Stop, ReadForKey
<1>5. ASSUME NEW b \in Batches, Write(b) PROVE SizesOK'
  <2>1. batch[b] \in Batch /\ Size(b) \in 1 .. Chunks /\ batch[b].sent < Size(b) /\ batch[b].sent \in 0 .. Chunks
    BY <1>0, <1>5 DEF Write, Size, SizesOK
  <2>2. /\ batch'[b].sent \in {batch[b].sent, batch[b].sent + 1}
        /\ \A c \in Batches : c # b => batch'[c] = batch[c]
    BY <1>0, <1>5, <2>1 DEF Write, Batch
  <2>3. batch'[b].sent \in 0 .. Chunks
    BY <1>0, <2>1, <2>2
  <2> QED
    BY <2>2, <2>3 DEF SizesOK
<1>6. ASSUME NEW b \in Batches, Press(b) PROVE SizesOK'
  <2>1. CASE Answered(b, "not_sent")
    BY <1>b, <2>1
  <2>2. CASE ~Answered(b, "not_sent")
    <3>0. PICK pressed \in BOOLEAN, outcome \in {"forwarded", LostAnswer} :
            /\ session' = [session EXCEPT ![batch[b].on].lock = None, ![batch[b].on].typing = None]
            /\ batch' = [batch EXCEPT ![b].at = "answered", ![b].outcome = outcome, ![b].on = None,
                                      ![b].effect = IF pressed THEN "all" ELSE "none",
                                      ![b].kind = "text", ![b].on = None]
      BY <1>6, <2>2 DEF Press
    <3>1. batch'[b].sent = batch[b].sent /\ \A c \in Batches : c # b => batch'[c] = batch[c]
      BY <1>0, <3>0 DEF Batch
    <3> QED
      BY <1>a, <3>1
  <2> QED
    BY <2>1, <2>2
<1>7. CASE SignOut \/ Replace \/ Shutdown \/ ShutdownReturns \/ UNCHANGED vars
  BY <1>7 DEF SignOut, Replace, Shutdown, ShutdownReturns, vars, SizesOK
<1> QED
  BY <1>1, <1>2, <1>3, <1>4, <1>5, <1>6, <1>7 DEF Next, Sessions, BatchStep

-----------------------------------------------------------------------------
\* A child more, or one less.
LEMMA OneMore ==
    ASSUME Counted, NEW s \in Sessions, session[s].child # "running", reserve,
           Running' = Running \cup {s}, waits' = waits + 1, UNCHANGED bridge
    PROVE  Counted'
<1>1. s \notin Running /\ IsFiniteSet(Running) /\ bridge = "open"
  BY DEF Counted, Running, reserve
<1> HIDE DEF Running
<1>2. IsFiniteSet(Running \cup {s}) /\ Cardinality(Running \cup {s}) = Cardinality(Running) + 1
  BY <1>1, FS_AddElement
<1> QED
  BY <1>1, <1>2 DEF Counted

LEMMA OneLess ==
    ASSUME Counted, NEW s \in Sessions, session[s].child = "running",
           Running' = Running \ {s}, waits' = waits - 1, UNCHANGED bridge
    PROVE  Counted'
<1>1. s \in Running /\ IsFiniteSet(Running)
  BY DEF Counted, Running
<1> HIDE DEF Running
<1>2. IsFiniteSet(Running \ {s}) /\ Cardinality(Running \ {s}) = Cardinality(Running) - 1
  BY <1>1, FS_RemoveElement
<1> QED
  BY <1>1, <1>2 DEF Counted

LEMMA AsMany ==
    ASSUME Counted, Running' = Running, waits' = waits, UNCHANGED bridge
    PROVE  Counted'
BY DEF Counted

\* Steps that neither start nor end a child.
LEMMA QuietChildren ==
    ASSUME Attached, Counted, UNCHANGED <<attached, waits, bridge>>,
           \A s \in Sessions : /\ session'[s].child = session[s].child
                               /\ session'[s].at \in {"new", "starting"} => session'[s].at = session[s].at,
           \A b \in Batches : batch'[b].at = "attach" => batch[b].at = "attach"
    PROVE  Attached' /\ Counted'
<1>1. Running' = Running
  BY DEF Running
<1> QED
  BY <1>1, AsMany DEF Attached

\* A batch that is answered leaves the children alone.
LEMMA AnsweredChildren ==
    ASSUME ChildInv, UNCHANGED <<attached, waits, bridge>>, NEW b \in Batches, NEW outcome, Answered(b, outcome)
    PROVE  Attached' /\ Counted'
<1>1. session \in [Sessions -> Session] /\ batch \in [Batches -> Batch]
  BY DEF ChildInv, StdinInv, Inv
<1>2. ASSUME NEW s \in Sessions
      PROVE  session'[s].child = session[s].child /\ session'[s].at \in {session[s].at, "close"}
  <2>1. CASE batch[b].on = None
    BY <1>1, <2>1 DEF Answered
  <2>2. CASE batch[b].on # None /\ s # batch[b].on
    BY <1>1, <2>2 DEF Answered
  <2>3. CASE batch[b].on # None /\ s = batch[b].on
    <3> DEFINE lock == IF session[s].lock = b THEN None ELSE session[s].lock
               typing == IF session[s].typing = b THEN None ELSE session[s].typing
               controlled == session[s].controlled /\ ~LeavesControl(b)
               stopped == \/ session[s].stopped
                          \/ /\ b \in Inputs
                             /\ \/ batch[b].kind = "release"
                                \/ batch[b].kind = "text" /\ outcome # "forwarded"
               at == IF s = b THEN "close" ELSE session[s].at
    <3>1. session' = [session EXCEPT ![s].lock = lock, ![s].typing = typing, ![s].controlled = controlled,
                                     ![s].stopped = stopped, ![s].at = at]
      BY <1>1, <2>3 DEF Answered
    <3> HIDE DEF lock, typing, controlled, stopped
    <3>2. session'[s] = [session[s] EXCEPT !.lock = lock, !.typing = typing, !.controlled = controlled,
                                           !.stopped = stopped, !.at = at]
      BY <1>1, <3>1
    <3> QED
      BY <1>1, <3>2 DEF Session
  <2> QED
    BY <2>1, <2>2, <2>3
<1>3. \A c \in Batches : batch'[c].at = "attach" => batch[c].at = "attach"
  BY <1>1 DEF Answered, NoBatch
<1>4. Attached /\ Counted
  BY DEF ChildInv
<1> QED
  BY <1>2, <1>3, <1>4, QuietChildren

\* A session that is new starts its child, or fails to.
LEMMA StartChildren ==
    ASSUME ChildInv, NEW s \in Sessions, session[s].at = "new", UNCHANGED <<attached, bridge>>,
           NEW started, started.child = "running", NEW failed, failed.child = "none",
           started.at # "new", failed.at # "new", Start(s, started, failed),
           \A b \in Batches : batch'[b].at = "attach" => batch[b].at = "attach" \/ b = s
    PROVE  Attached' /\ Counted'
<1>1. /\ session \in [Sessions -> Session] /\ Attached /\ Counted /\ session[s].child = "none" /\ attached # s
  BY BridgeNames DEF ChildInv, StdinInv, Attached, Sessions
<1>2. CASE session' = [session EXCEPT ![s] = failed] /\ waits' = waits
  <2>1. Running' = Running
    BY <1>1, <1>2 DEF Running
  <2>2. Attached'
    BY <1>1, <1>2 DEF Attached
  <2> QED
    BY <1>1, <1>2, <2>1, <2>2, AsMany
<1>3. CASE reserve /\ session' = [session EXCEPT ![s] = started] /\ waits' = waits + 1
  <2>1. Running' = Running \cup {s}
    BY <1>1, <1>3 DEF Running
  <2>2. Attached'
    BY <1>1, <1>3 DEF Attached
  <2> QED
    BY <1>1, <1>3, <2>1, <2>2, OneMore
<1> QED
  BY <1>2, <1>3 DEF Start, waitsAfterFailure

\* Whoever gets the terminal ends the child that had it, and no other.
LEMMA AttachChildren ==
    ASSUME ChildInv, NEW s \in Sessions, NEW now \in Session, now.child = "running",
           now.at \notin {"new", "starting"}, session[s].child = "running", attached # s,
           Attach(s, now), UNCHANGED bridge,
           \A b \in Batches : batch'[b].at = "attach" => batch[b].at = "attach" /\ b # s
    PROVE  Attached' /\ Counted'
<1>1. session \in [Sessions -> Session] /\ Attached /\ Counted
  BY DEF ChildInv, StdinInv
<1>2. /\ session'[s] = now
      /\ \A q \in Sessions \ {s} : /\ q = attached => session'[q] = [session[q] EXCEPT !.child = "exited"]
                                   /\ q # attached => session'[q] = session[q]
  BY DEF Attach
<1>3. \A q \in Sessions \ {s} : /\ q = attached => session'[q].child = "exited"
                                /\ q # attached => session'[q].child = session[q].child
                                /\ session'[q].at = session[q].at
  <2>1. ASSUME NEW q \in Sessions, q # s
        PROVE  /\ q = attached => session'[q].child = "exited"
               /\ q # attached => session'[q].child = session[q].child
               /\ session'[q].at = session[q].at
    <3>1. session[q] \in Session
      BY <1>1
    <3>2. CASE q = attached
      <4>1. session'[q] = [session[q] EXCEPT !.child = "exited"]
        BY <1>2, <2>1, <3>2
      <4> QED
        BY <3>1, <3>2, <4>1 DEF Session
    <3>3. CASE q # attached
      BY <1>2, <2>1, <3>3
    <3> QED
      BY <3>2, <3>3
  <2> QED
    BY <2>1
<1>4. attached' = s /\ s # None
  BY BridgeNames DEF Attach, Sessions
<1>5. Attached'
  <2>1. ASSUME NEW q \in Sessions, session'[q].at = "new" PROVE session'[q].child = "none"
    <3>1. q # s
      BY <1>2, <2>1
    <3>2. session[q].at = "new"
      BY <1>3, <2>1, <3>1
    <3>3. q # attached
      BY <1>1, <3>2, BridgeNames DEF Attached, Sessions
    <3> QED
      BY <1>1, <1>3, <3>1, <3>2, <3>3 DEF Attached
  <2> QED
    BY <1>2, <1>4, <2>1 DEF Attached
<1>6. CASE attached = None
  <2>1. Running' = Running
    BY <1>2, <1>3, <1>6, BridgeNames DEF Running, Sessions
  <2> QED
    BY <1>1, <1>5, <1>6, <2>1, AsMany DEF Attach
<1>7. CASE attached # None
  <2>1. attached \in Sessions /\ session[attached].child = "running"
    BY <1>1, <1>7 DEF Attached
  <2>2. Running' = Running \ {attached}
    BY <1>2, <1>3, <2>1 DEF Running
  <2> QED
    BY <1>1, <1>5, <1>7, <2>1, <2>2, OneLess DEF Attach
<1> QED
  BY <1>6, <1>7

LEMMA ExitChildren == ASSUME ChildInv, NEW s \in Sessions, Exit(s) PROVE Attached' /\ Counted'
<1>1. session \in [Sessions -> Session] /\ Attached /\ Counted
  BY DEF ChildInv, StdinInv
<1>2. /\ session'[s].child = "exited" /\ session'[s].at = session[s].at
      /\ \A q \in Sessions : q # s => session'[q] = session[q]
  BY <1>1 DEF Exit, Session
<1>3. Running' = Running \ {s}
  BY <1>2 DEF Running
<1>4. session[s].at # "new" /\ s # None
  BY <1>1, BridgeNames DEF Attached, Exit, Sessions
<1>a. attached' = (IF attached = s THEN None ELSE attached) /\ UNCHANGED batch
  BY DEF Exit
<1>5. Attached'
  <2>1. \A q \in Sessions : session'[q].at = "new" => session'[q].child = "none"
    BY <1>1, <1>2, <1>4 DEF Attached
  <2>2. CASE attached \in {s, None}
    BY <1>a, <2>1, <2>2, BridgeNames DEF Attached, Batches
  <2>3. CASE attached \notin {s, None}
    BY <1>1, <1>2, <1>a, <2>1, <2>3 DEF Attached
  <2> QED
    BY <2>2, <2>3
<1> QED
  BY <1>1, <1>3, <1>5, OneLess DEF Exit

LEMMA StreamChildren ==
    ASSUME ChildInv, NEW s \in Streams, OpenStream(s) \/ FirstFrame(s) \/ End(s) \/ Unregister(s)
    PROVE  Attached' /\ Counted'
<1>0. /\ s \in Sessions /\ session \in [Sessions -> Session] /\ session[s] \in Session /\ Attached /\ Counted
      /\ UNCHANGED <<batch, bridge>> /\ s \notin Batches
  BY BridgeKinds DEF ChildInv, StdinInv, Sessions, OpenStream, FirstFrame, End, Unregister, Batches
<1>1. CASE OpenStream(s)
  <2> DEFINE started == [NoSession EXCEPT !.at = "starting", !.child = "running"]
             failed == [NoSession EXCEPT !.at = "closed"]
  <2>1. Start(s, started, failed) /\ session[s].at = "new" /\ UNCHANGED attached
    BY <1>1 DEF OpenStream
  <2>2. started.child = "running" /\ failed.child = "none" /\ started.at # "new" /\ failed.at # "new"
    BY DEF NoSession
  <2> HIDE DEF started, failed
  <2> QED
    BY <1>0, <2>1, <2>2, StartChildren
<1>2. CASE FirstFrame(s)
  <2> DEFINE now == [session[s] EXCEPT !.at = "open", !.controlled = TRUE, !.active = TRUE]
  <2>0. session[s].child = "running" /\ session[s].at = "starting" /\ Attach(s, now)
    BY <1>2 DEF FirstFrame
  <2>1. now \in Session /\ now.child = "running" /\ now.at = "open"
    BY <1>0, <2>0 DEF Session, Places
  <2>3. attached # s
    BY <1>0, <2>0, BridgeNames DEF Attached, Sessions
  <2> HIDE DEF now
  <2>2. \A b \in Batches : batch'[b].at = "attach" => batch[b].at = "attach" /\ b # s
    BY <1>0
  <2> QED
    BY <1>0, <2>0, <2>1, <2>2, <2>3, AttachChildren
<1>3. CASE End(s) \/ Unregister(s)
  <2>1. ASSUME NEW q \in Sessions
        PROVE  /\ session'[q].child = session[q].child
               /\ session'[q].at \in {"new", "starting"} => session'[q].at = session[q].at
    <3>1. CASE q = s
      BY <1>0, <1>3, <3>1 DEF End, Unregister, Session
    <3>2. CASE q # s
      BY <1>0, <1>3, <3>2 DEF End, Unregister
    <3> QED
      BY <3>1, <3>2
  <2>2. UNCHANGED <<attached, waits>>
    BY <1>3 DEF End, Unregister
  <2> QED
    BY <1>0, <2>1, <2>2, QuietChildren
<1> QED
  BY <1>1, <1>2, <1>3

LEMMA CloseChildren ==
    ASSUME ChildInv, NEW s \in Sessions, Close(s) \/ Closed(s)
    PROVE  Attached' /\ Counted'
<1>0. session \in [Sessions -> Session] /\ Attached /\ Counted /\ UNCHANGED <<batch, bridge, attached, waits>>
  BY DEF ChildInv, StdinInv, Close, Closed
<1>1. ASSUME NEW q \in Sessions
      PROVE  /\ session'[q].child = session[q].child
             /\ session'[q].at \in {"new", "starting"} => session'[q].at = session[q].at
  <2>1. CASE q # s
    BY <1>0, <2>1 DEF Close, Closed
  <2>2. CASE q = s /\ Close(s)
    <3>1. PICK w : session'[s] = [session[s] EXCEPT !.at = "reap", !.controlled = FALSE, !.written = w]
      BY <1>0, <2>2 DEF Close
    <3> QED
      BY <1>0, <2>2, <3>1 DEF Session
  <2>3. CASE q = s /\ Closed(s)
    BY <1>0, <2>3 DEF Closed, NoSession
  <2> QED
    BY <2>1, <2>2, <2>3
<1> QED
  BY <1>0, <1>1, QuietChildren

LEMMA SendChildren ==
    ASSUME ChildInv, NEW b \in Sends, SendByHandle(b) \/ SendAlone(b) \/ AttachAlone(b)
    PROVE  Attached' /\ Counted'
<1>0. /\ b \in Sessions /\ b \in Batches /\ session \in [Sessions -> Session] /\ session[b] \in Session
      /\ batch \in [Batches -> Batch] /\ Attached /\ Counted /\ Placed(b)
      /\ UNCHANGED bridge
  BY DEF ChildInv, StdinInv, Inv, Sessions, Batches, SendByHandle, SendAlone, AttachAlone
<1>1. CASE SendByHandle(b)
  BY <1>0, <1>1, QuietChildren DEF SendByHandle, NoBatch
<1>2. CASE SendAlone(b)
  <2> DEFINE started == [NoSession EXCEPT !.at = "own", !.child = "running"]
             failed == [NoSession EXCEPT !.at = "closed"]
  <2>1. Start(b, started, failed) /\ session[b].at = "new" /\ UNCHANGED attached
    BY <1>0, <1>2 DEF SendAlone, Placed
  <2>2. started.child = "running" /\ failed.child = "none" /\ started.at # "new" /\ failed.at # "new"
    BY DEF NoSession
  <2>3. \A c \in Batches : batch'[c].at = "attach" => batch[c].at = "attach" \/ c = b
    BY <1>0, <1>2 DEF SendAlone
  <2> HIDE DEF started, failed
  <2> QED
    BY <1>0, <2>1, <2>2, <2>3, StartChildren
<1>3. CASE AttachAlone(b)
  <2>0. batch[b].at = "attach" /\ batch[b].on = b
    BY <1>0, <1>3 DEF AttachAlone, Placed
  <2>1. ASSUME NEW outcome, Answered(b, outcome), UNCHANGED <<attached, waits>> PROVE Attached' /\ Counted'
    BY <1>0, <2>1, AnsweredChildren
  <2>2. ASSUME session[b].child = "running", Attach(b, [session[b] EXCEPT !.controlled = TRUE]),
               batch' = [batch EXCEPT ![b].at = "write"]
        PROVE  Attached' /\ Counted'
    <3> DEFINE now == [session[b] EXCEPT !.controlled = TRUE]
    <3>1. now \in Session /\ now.child = "running" /\ now.at = "own" /\ attached # b
      BY <1>0, <2>0, <2>2 DEF Session, Placed, Attached
    <3> HIDE DEF now
    <3>2. \A c \in Batches : batch'[c].at = "attach" => batch[c].at = "attach" /\ c # b
      BY <1>0, <2>2 DEF Batch
    <3> QED
      BY <1>0, <2>2, <3>1, <3>2, AttachChildren DEF now
  <2> QED
    BY <1>3, <2>1, <2>2 DEF AttachAlone
<1> QED
  BY <1>1, <1>2, <1>3

LEMMA BatchChildren ==
    ASSUME ChildInv, NEW b \in Batches, BatchStep(b) \/ (b \in Inputs /\ Type(b))
    PROVE  Attached' /\ Counted'
<1>0. /\ session \in [Sessions -> Session] /\ batch \in [Batches -> Batch] /\ Attached /\ Counted
      /\ UNCHANGED <<bridge, attached, waits>>
  BY DEF ChildInv, StdinInv, Inv, BatchStep, Lock, Write, Finish, ReadForKey, Press, Type
<1>1. ASSUME NEW outcome, Answered(b, outcome) PROVE Attached' /\ Counted'
  BY <1>0, <1>1, AnsweredChildren
<1>2. ASSUME \A s \in Sessions : session'[s].child = session[s].child /\ session'[s].at = session[s].at,
             batch'[b].at # "attach", \A c \in Batches : c # b => batch'[c] = batch[c]
      PROVE  Attached' /\ Counted'
  BY <1>0, <1>2, QuietChildren
<1>3. CASE Type(b)
  <2>0. PICK s \in Streams : session' = [session EXCEPT ![s].typing = b]
    BY <1>3 DEF Type
  <2>1. ASSUME NEW q \in Sessions PROVE session'[q].child = session[q].child /\ session'[q].at = session[q].at
    BY <1>0, <2>0 DEF Session
  <2>2. batch'[b].at # "attach" /\ \A c \in Batches : c # b => batch'[c] = batch[c]
    BY <1>0, <1>3 DEF Type, NoBatch
  <2> QED
    BY <1>2, <2>1, <2>2
<1>4. ASSUME NEW s, session' \in {session, [session EXCEPT ![s].lock = b]}, NEW place \in {"read", "write", "press"},
             batch' = [batch EXCEPT ![b].at = place]
      PROVE  Attached' /\ Counted'
  <2>1. ASSUME NEW q \in Sessions PROVE session'[q].child = session[q].child /\ session'[q].at = session[q].at
    <3>1. CASE session' = session
      BY <3>1
    <3>2. CASE session' = [session EXCEPT ![s].lock = b]
      BY <1>0, <3>2 DEF Session
    <3> QED
      BY <1>4, <3>1, <3>2
  <2>2. batch'[b].at # "attach" /\ \A c \in Batches : c # b => batch'[c] = batch[c]
    BY <1>0, <1>4 DEF Batch
  <2> QED
    BY <1>2, <2>1, <2>2
<1>5. CASE Write(b)
  <2>1. \A q \in Sessions : session'[q].child = session[q].child /\ session'[q].at = session[q].at
    BY <1>0, <1>5 DEF Write, Session
  <2>2. batch'[b].at # "attach" /\ \A c \in Batches : c # b => batch'[c] = batch[c]
    BY <1>0, <1>5 DEF Write, Batch
  <2> QED
    BY <1>2, <2>1, <2>2
<1>6. CASE Press(b) /\ ~Answered(b, "not_sent")
  <2>0. PICK pressed \in BOOLEAN, outcome \in {"forwarded", LostAnswer} :
          /\ session' = [session EXCEPT ![batch[b].on].lock = None, ![batch[b].on].typing = None]
          /\ batch' = [batch EXCEPT ![b].at = "answered", ![b].outcome = outcome, ![b].on = None,
                                    ![b].effect = IF pressed THEN "all" ELSE "none",
                                    ![b].kind = "text", ![b].on = None]
    BY <1>6 DEF Press
  <2>1. ASSUME NEW q \in Sessions PROVE session'[q].child = session[q].child /\ session'[q].at = session[q].at
    BY <1>0, <2>0 DEF Session
  <2>2. batch'[b].at # "attach" /\ \A c \in Batches : c # b => batch'[c] = batch[c]
    BY <1>0, <2>0 DEF Batch
  <2> QED
    BY <1>2, <2>1, <2>2
<1>7. CASE Lock(b) \/ ReadForKey(b)
  BY <1>1, <1>4, <1>7 DEF Lock, ReadForKey
<1>8. CASE Finish(b)
  BY <1>1, <1>8 DEF Finish, Stop
<1> QED
  BY <1>1, <1>3, <1>5, <1>6, <1>7, <1>8 DEF BatchStep

-----------------------------------------------------------------------------
LEMMA InitChildren == Init => ChildInv
<1> SUFFICES ASSUME Init PROVE ChildInv
  OBVIOUS
<1>1. /\ \A s \in Sessions : session[s].child = "none"
      /\ \A b \in Batches : batch[b].at = "new" /\ batch[b].sent = 0
      /\ attached = None /\ waits = 0
  BY DEF Init, NoSession, NoBatch
<1>2. Running = {}
  BY <1>1 DEF Running
<1>3. Counted
  BY <1>1, <1>2, FS_EmptySet DEF Counted
<1>4. Attached
  <2>1. \A b \in Batches : batch[b].at # "attach"
    BY <1>1
  <2>2. \A s \in Sessions : session[s].child = "none"
    BY <1>1
  <2> QED
    BY <1>1, <2>1, <2>2 DEF Attached
<1>5. AroundOK
  <2>1. signedIn \in BOOLEAN /\ current \in BOOLEAN
    BY Zenon DEF Init
  <2> QED
    BY <2>1, BridgeBounds DEF Init, AroundOK
<1>6. SizesOK
  BY <1>1, ChunksAssumption DEF SizesOK
<1> QED
  BY <1>3, <1>4, <1>5, <1>6, InitStdin DEF ChildInv

LEMMA NextChildren == ChildInv /\ [Next]_vars => ChildInv'
<1> SUFFICES ASSUME ChildInv, [Next]_vars PROVE ChildInv'
  OBVIOUS
<1>0. StdinInv' /\ AroundOK' /\ SizesOK'
  BY NextStdin, AroundNext, SizesNext DEF ChildInv, StdinInv
<1>1. ASSUME NEW s \in Streams, OpenStream(s) \/ FirstFrame(s) \/ End(s) \/ Unregister(s)
      PROVE  Attached' /\ Counted'
  BY <1>1, StreamChildren
<1>2. ASSUME NEW s \in Sessions, Exit(s) \/ Close(s) \/ Closed(s) PROVE Attached' /\ Counted'
  BY <1>2, ExitChildren, CloseChildren
<1>3. ASSUME NEW b \in Inputs, Type(b) PROVE Attached' /\ Counted'
  BY <1>3, BatchChildren DEF Batches
<1>4. ASSUME NEW b \in Sends, SendByHandle(b) \/ SendAlone(b) \/ AttachAlone(b) PROVE Attached' /\ Counted'
  BY <1>4, SendChildren
<1>5. ASSUME NEW b \in Batches, BatchStep(b) PROVE Attached' /\ Counted'
  BY <1>5, BatchChildren
<1>6. ASSUME (\E r \in Sends : Leave(r)) \/ SignOut \/ Replace \/ UNCHANGED vars
      PROVE  Attached' /\ Counted'
  <2>1. UNCHANGED <<session, batch, attached, waits, bridge>>
    BY <1>6 DEF Leave, SignOut, Replace, vars
  <2>2. Attached /\ Counted
    BY DEF ChildInv
  <2>3. Running' = Running
    BY <2>1 DEF Running
  <2>4. Attached'
    BY <2>1, <2>2 DEF Attached
  <2>5. Counted'
    BY <2>1, <2>2, <2>3, AsMany
  <2> QED
    BY <2>4, <2>5
<1>7. ASSUME Shutdown \/ ShutdownReturns PROVE Attached' /\ Counted'
  <2>1. UNCHANGED <<session, batch, attached, waits>> /\ Running' = Running
    BY <1>7 DEF Shutdown, ShutdownReturns, Running
  <2>2. Attached'
    BY <2>1 DEF ChildInv, Attached
  <2>3. Shutdown => bridge' = "closing"
    BY DEF Shutdown
  <2>4. ShutdownReturns => Running = {}
    <3> HIDE DEF Running
    <3> QED
      BY FS_EmptySet DEF ShutdownReturns, ChildInv, Counted
  <2>5. /\ Counted
        /\ bridge' = "closed" => Running = {}
    BY <1>7, <2>3, <2>4 DEF ChildInv
  <2>6. Counted'
    BY <2>1, <2>5 DEF Counted
  <2> QED
    BY <2>2, <2>6
<1>8. Attached' /\ Counted'
  BY <1>1, <1>2, <1>3, <1>4, <1>5, <1>6, <1>7 DEF Next
<1> QED
  BY <1>0, <1>8 DEF ChildInv

\* The bridge counts each child that it waits for once, whether it exits, is
\* taken over or never starts, and none runs once Close has returned
\* (terminal_bridge.go:75-82, 154-172).
THEOREM ChildrenCounted == Spec => []ChildrenAreCounted
<1>1. ChildInv => BridgeTypeOK
  BY DEF ChildInv, StdinInv, Inv, AroundOK, SizesOK, Attached, Counted, BridgeTypeOK, Session, Batch, Running
<1>2. ChildInv => NoChildAfterClose
  BY DEF ChildInv, Counted, NoChildAfterClose, Running
<1>3. ChildInv => ChildrenAreCounted
  BY <1>1, <1>2 DEF ChildrenAreCounted
<1> QED
  BY <1>3, InitChildren, NextChildren, PTL DEF Spec

=============================================================================
