---------------------------- MODULE GeneratorProofs ----------------------------
(***************************************************************************)
(* Proofs about Generator for any number of files and of writers in flight. *)
(***************************************************************************)
EXTENDS Generator, SequenceTheorems, TLAPS

\* What is left of a sequence without its first element.
LEMMA WithoutFirst ==
    ASSUME NEW s \in Seq(Nat), Len(s) > 0
    PROVE  /\ RemoveAt(s, 1) \in Seq(Nat)
           /\ Len(RemoveAt(s, 1)) = Len(s) - 1
           /\ \A j \in 1 .. Len(s) - 1 : RemoveAt(s, 1)[j] = s[j + 1]
  <1> DEFINE n == Len(s)
             t == SubSeq(s, 2, n)
  <1>1. t \in Seq(Nat) /\ Len(t) = n - 1 /\ \A j \in 1 .. n - 1 : t[j] = s[j + 1]
    <2>1. n \in Nat /\ n > 0 /\ \A j \in 2 .. n : s[j] \in Nat
      OBVIOUS
    <2> HIDE DEF n
    <2>2. /\ t \in Seq(Nat) /\ Len(t) = (IF 2 <= n THEN n - 2 + 1 ELSE 0)
          /\ \A j \in 1 .. n - 2 + 1 : t[j] = s[2 + j - 1]
      BY <2>1, SubSeqProperties
    <2> HIDE DEF t
    <2> QED
      BY <2>1, <2>2
  <1>2. << >> \o t = t
    BY <1>1, ConcatEmptySeq
  <1>3. RemoveAt(s, 1) = SubSeq(s, 1, 0) \o t
    BY DEF RemoveAt
  <1>4. SubSeq(s, 1, 0) = << >>
    BY SubSeqEmpty
  <1>5. RemoveAt(s, 1) = t
    BY <1>2, <1>3, <1>4
  <1> HIDE DEF t
  <1> QED
    BY <1>1, <1>5

-----------------------------------------------------------------------------
(* One lemma per action of the producer and of the writers. *)

\* Nothing has been submitted: the window is empty.
LEMMA GeneratorInit == Init => GeneratorInv
  <1> SUFFICES ASSUME Init PROVE GeneratorInv
    OBVIOUS
  <1>1. /\ total \in 0 .. MaxFiles /\ pc = "produce" /\ submitted = 0 /\ spent = {}
        /\ task = [f \in File |-> "none"] /\ reverters = FALSE /\ verdict = "none"
    BY DEF Init
  <1>2. pending \in Seq(Nat) /\ Len(pending) = 0
    BY EmptySeq DEF Init
  <1>3. File \subseteq Nat
    BY DEF File
  <1>4. GeneratorTypeOK
    <2>1. /\ total \in 0 .. MaxFiles /\ submitted \in 0 .. total /\ Len(pending) <= MaxInFlight
          /\ \A k \in DOMAIN pending : FALSE
          /\ \A k \in 2 .. Len(pending) : pending[k - 1] < pending[k]
      BY <1>1, <1>2, InFlightPositive, FilesNat
    <2>2. task \in [File -> {"none", "open", "write", "written", "failed"}]
      BY <1>1
    <2> QED
      BY <1>1, <2>1, <2>2, Zenon DEF GeneratorTypeOK
  <1>5. WritesBounded
    BY <1>1 DEF WritesBounded
  <1>6. SuccessIsComplete
    BY <1>1, Zenon DEF SuccessIsComplete
  <1>7. Window /\ BehindWritten /\ BehindSpent /\ SpentEnded /\ NotStarted
    BY <1>1, <1>2, <1>3 DEF Window, BehindWritten, BehindSpent, SpentEnded, NotStarted, Oldest
  <1>8. Progress
    BY <1>1, Zenon DEF Progress
  <1> QED
    BY <1>1, <1>2, <1>4, <1>5, <1>6, <1>7, <1>8 DEF GeneratorInv

\* A file is made before it has a place in the deque.
LEMMA ProduceKeeps == GeneratorInv /\ Produce => GeneratorInv'
  <1> SUFFICES ASSUME GeneratorInv, Produce PROVE GeneratorInv'
    OBVIOUS
  <1> USE DEF GeneratorInv, Produce
  <1>1. GeneratorTypeOK'
    BY DEF GeneratorTypeOK, File
  <1>2. WritesBounded' /\ SuccessIsComplete' /\ (pending \in Seq(Nat) /\ spent \subseteq Nat)'
    BY DEF WritesBounded, SuccessIsComplete, File, Running
  <1>3. Window' /\ BehindWritten' /\ BehindSpent' /\ SpentEnded' /\ NotStarted'
    BY DEF Window, BehindWritten, BehindSpent, SpentEnded, NotStarted, Oldest, File
  <1>4. Progress'
    BY DEF Progress, GeneratorTypeOK, Running, File
  <1> QED
    BY <1>1, <1>2, <1>3, <1>4

\* submit() adds a file at the end of the window, and only with room for it.
LEMMA SubmitKeeps == GeneratorInv /\ Submit => GeneratorInv'
  <1> SUFFICES ASSUME GeneratorInv, Submit PROVE GeneratorInv'
    OBVIOUS
  <1> USE InFlightPositive, FilesNat DEF GeneratorInv, Submit
  <1>1. /\ total \in Nat /\ submitted \in Nat /\ submitted < total
        /\ Len(pending) \in Nat /\ Len(pending) < MaxInFlight
    BY DEF GeneratorTypeOK, Progress, Full
  <1>2. /\ pending' \in Seq(Nat) /\ Len(pending') = Len(pending) + 1
        /\ \A k \in 1 .. Len(pending) : pending'[k] = pending[k]
        /\ pending'[Len(pending) + 1] = submitted
    BY <1>1
  <1>3. Oldest' = Oldest /\ Oldest \in Int /\ File' = File
    BY <1>1, <1>2 DEF Oldest, File
  <1>4. task \in [File -> {"none", "open", "write", "written", "failed"}] /\ submitted \in File
    BY <1>1 DEF GeneratorTypeOK, File
  <1>5. /\ task' \in [File -> {"none", "open", "write", "written", "failed"}]
        /\ task'[submitted] = "open" /\ \A f \in File : f # submitted => task'[f] = task[f]
    BY <1>4
  <1>6. \A k \in DOMAIN pending' : k \in 1 .. Len(pending) \/ k = Len(pending) + 1
    BY <1>1, <1>2
  <1>7. Window'
    BY <1>1, <1>2, <1>3, <1>6 DEF Window, Oldest
  <1>8. GeneratorTypeOK'
    <2>1. /\ \A k \in DOMAIN pending' : pending'[k] \in 0 .. submitted' - 1
          /\ \A k \in 2 .. Len(pending') : pending'[k - 1] < pending'[k]
      <3> DEFINE n == Len(pending')
                 o == Oldest'
      <3>1. /\ n \in Nat /\ DOMAIN pending' = 1 .. n
            /\ \A k \in 1 .. n : pending'[k] = o + k - 1
        <4>1. n \in Nat /\ DOMAIN pending' = 1 .. n
          <5> HIDE DEF GeneratorInv, Submit
          <5> QED
            BY <1>2
        <4>2. \A k \in DOMAIN pending' : pending'[k] = o + k - 1
          <5> HIDE DEF GeneratorInv, Submit
          <5> QED
            BY <1>7 DEF Window
        <4> HIDE DEF n, o
        <4> QED
          BY <4>1, <4>2
      <3>2. o \in Nat /\ submitted' = o + n
        <4>1. Oldest = submitted - Len(pending) /\ submitted' = submitted + 1
          BY DEF Oldest
        <4>2. Len(pending) <= submitted
          <5>1. CASE Len(pending) = 0
            BY <1>1, <5>1
          <5>2. CASE Len(pending) > 0
            <6>1. 1 \in DOMAIN pending
              BY <1>1, <5>2
            <6>2. pending[1] = Oldest /\ pending[1] \in Nat
              BY <1>3, <6>1 DEF Window
            <6> QED
              BY <1>1, <4>1, <6>2
          <5> QED
            BY <1>1, <5>1, <5>2
        <4> QED
          BY <1>1, <1>2, <1>3, <4>1, <4>2
      <3> HIDE DEF n, o, GeneratorInv, Submit
      <3> QED
        BY <3>1, <3>2
    <2>2. \A k \in DOMAIN pending' : pending'[k] \notin spent
      BY <1>1, <1>2, <1>3, <1>7 DEF Window, Oldest, BehindSpent
    <2> QED
      BY <1>1, <1>2, <1>3, <1>5, <2>1, <2>2 DEF GeneratorTypeOK
  <1>9. BehindWritten' /\ BehindSpent' /\ NotStarted'
    BY <1>1, <1>3, <1>5 DEF BehindWritten, BehindSpent, NotStarted, Oldest, File
  <1>10. Progress'
    BY <1>1 DEF Progress
  <1>11. WritesBounded'
    <2> SUFFICES ASSUME NEW f \in File, task'[f] \in {"open", "write", "failed"}
                 PROVE  submitted' <= f + MaxInFlight
      BY <1>3 DEF WritesBounded
    <2>1. CASE f = submitted
      BY <1>1, <2>1
    <2>2. CASE f # submitted
      <3>1. task[f] # "written" /\ pc # "gone"
        BY <1>5, <2>2
      <3>2. ~(f < Oldest)
        BY <3>1 DEF BehindWritten
      <3> QED
        BY <1>1, <3>2 DEF Oldest, File
    <2> QED
      BY <2>1, <2>2
  <1>12. SuccessIsComplete'
    BY <1>1 DEF SuccessIsComplete, Progress
  <1>13. SpentEnded'
    <2>1. submitted \notin spent
      BY <1>1, <1>4 DEF SpentEnded, NotStarted
    <2> QED
      BY <1>3, <1>5, <2>1 DEF SpentEnded
  <1> QED
    BY <1>2, <1>7, <1>8, <1>9, <1>10, <1>11, <1>12, <1>13

\* What is asked is the oldest future. If its write has failed, it stays; if not, the window moves.
LEMMA ReapKeeps == ASSUME NEW k, GeneratorInv, Reap(k) PROVE GeneratorInv'
  <1> USE InFlightPositive, FilesNat DEF GeneratorInv
  <1>1. /\ total \in Nat /\ submitted \in Nat /\ submitted <= total
        /\ Len(pending) \in Nat /\ Len(pending) <= MaxInFlight
        /\ task \in [File -> {"none", "open", "write", "written", "failed"}]
    BY DEF GeneratorTypeOK
  <1>2. /\ pc \in {"submit", "drain"} /\ k = 1 /\ Len(pending) > 0
        /\ spent' = spent \cup {pending[1]}
        /\ total' = total /\ submitted' = submitted /\ reverters' = reverters
        /\ verdict' = verdict /\ task' = task
    BY DEF Reap, Reapable
  <1>3. /\ Oldest \in File /\ Oldest = submitted - Len(pending)
        /\ \A j \in 1 .. Len(pending) : pending[j] = Oldest + j - 1
        /\ pending[1] = Oldest
    <2>1. DOMAIN pending = 1 .. Len(pending)
      OBVIOUS
    <2>2. Oldest \in Int /\ Oldest = submitted - Len(pending)
      BY <1>1 DEF Oldest
    <2>3. \A j \in 1 .. Len(pending) : pending[j] = Oldest + j - 1
      BY <2>1 DEF Window
    <2>4. pending[1] = Oldest
      BY <1>1, <1>2, <2>2, <2>3
    <2>5. pending[1] \in 0 .. submitted - 1
      BY <1>1, <1>2, <2>1 DEF GeneratorTypeOK
    <2> QED
      BY <1>1, <2>2, <2>3, <2>4, <2>5 DEF File
  <1>4. File' = File /\ Running' = Running
    BY <1>2 DEF File, Running
  <1>5. CASE task[Oldest] = "failed"
    <2>1. pc' = "unwind" /\ pending' = pending
      BY <1>2, <1>3, <1>5 DEF Reap, AfterThrow
    <2>2. GeneratorTypeOK' /\ WritesBounded' /\ SuccessIsComplete'
      BY <1>2, <1>4, <2>1 DEF GeneratorTypeOK, WritesBounded, SuccessIsComplete
    <2>3. (pending \in Seq(Nat) /\ spent \subseteq Nat)'
      <3>1. pending[1] \in Nat
        BY <1>1, <1>3 DEF File
      <3> QED
        BY <1>2, <2>1, <3>1
    <2>4. Window' /\ BehindWritten' /\ BehindSpent' /\ SpentEnded' /\ NotStarted'
      BY <1>2, <1>3, <1>4, <1>5, <2>1 DEF Window, BehindWritten, BehindSpent, SpentEnded, NotStarted, Oldest
    <2>5. Progress'
      BY <1>2, <1>4, <2>1 DEF Progress
    <2> QED
      BY <2>2, <2>3, <2>4, <2>5
  <1>6. CASE task[Oldest] # "failed"
    <2>1. pc' = pc /\ pending' = RemoveAt(pending, 1) /\ task[Oldest] = "written"
      BY <1>2, <1>3, <1>6 DEF Reap, Reapable
    <2>2. /\ pending' \in Seq(Nat) /\ Len(pending') = Len(pending) - 1
          /\ \A j \in 1 .. Len(pending) - 1 : pending'[j] = pending[j + 1]
      BY <1>2, <2>1, WithoutFirst
    <2>3. Oldest' = Oldest + 1 /\ Oldest \in Nat /\ Oldest = submitted - Len(pending)
      BY <1>1, <1>2, <1>3, <2>2 DEF Oldest, File
    <2>4. DOMAIN pending' = 1 .. Len(pending) - 1 /\ DOMAIN pending = 1 .. Len(pending)
      BY <2>2
    <2>5. \A j \in DOMAIN pending' : pending'[j] = Oldest' + j - 1
      <3> SUFFICES ASSUME NEW j \in DOMAIN pending'
                   PROVE  pending'[j] = Oldest' + j - 1
        OBVIOUS
      <3>1. j \in 1 .. Len(pending) - 1 /\ j \in Nat /\ j + 1 \in 1 .. Len(pending)
        BY <1>1, <2>4
      <3>2. pending'[j] = pending[j + 1] /\ pending[j + 1] = Oldest + (j + 1) - 1
        BY <1>3, <2>2, <3>1
      <3> QED
        BY <2>3, <3>1, <3>2
    <2>6. GeneratorTypeOK'
      <3>1. /\ \A j \in DOMAIN pending' : pending'[j] \in 0 .. submitted' - 1
            /\ \A j \in 2 .. Len(pending') : pending'[j - 1] < pending'[j]
        <4> DEFINE len == Len(pending)
                   p == pending'
                   o == Oldest'
        <4>1. /\ len \in Nat /\ o \in Nat /\ o = submitted - len + 1 /\ submitted' = submitted
              /\ DOMAIN p = 1 .. len - 1 /\ Len(p) = len - 1
              /\ \A j \in 1 .. len - 1 : p[j] = o + j - 1
          BY <1>1, <1>2, <1>3, <2>2, <2>3, <2>4, <2>5
        <4> HIDE DEF len, p, o
        <4>2. /\ \A j \in DOMAIN p : p[j] \in 0 .. submitted - 1
              /\ \A j \in 2 .. Len(p) : p[j - 1] < p[j]
          BY <1>1, <4>1
        <4> QED
          BY <4>1, <4>2 DEF p
      <3>2. \A j \in DOMAIN pending' : pending'[j] \notin spent'
        BY <1>1, <1>2, <1>3, <2>1, <2>3, <2>4, <2>5 DEF BehindSpent
      <3> QED
        BY <1>1, <1>2, <1>4, <2>1, <2>2, <3>1, <3>2 DEF GeneratorTypeOK
    <2>7. WritesBounded' /\ SuccessIsComplete'
      BY <1>2, <1>4, <2>1 DEF WritesBounded, SuccessIsComplete
    <2>8. (spent \subseteq Nat)'
      BY <1>2, <1>3, <2>3
    <2>9. Window'
      BY <2>5 DEF Window
    <2>10. BehindWritten'
      BY <1>1, <1>2, <1>4, <2>1, <2>3 DEF BehindWritten, File
    <2>11. BehindSpent'
      BY <1>2, <1>3, <2>1, <2>3 DEF BehindSpent
    <2>12. NotStarted' /\ Progress'
      BY <1>2, <1>4, <2>1 DEF NotStarted, Progress
    <2>13. SpentEnded'
      BY <1>2, <1>3, <1>4, <2>1 DEF SpentEnded
    <2> QED
      BY <2>2, <2>6, <2>7, <2>8, <2>9, <2>10, <2>11, <2>12, <2>13
  <1> QED
    BY <1>5, <1>6

\* The deque is empty: every file is behind it, and so is written.
LEMMA WriteRevertersKeeps == GeneratorInv /\ WriteReverters => GeneratorInv'
  <1> SUFFICES ASSUME GeneratorInv, WriteReverters PROVE GeneratorInv'
    OBVIOUS
  <1> USE DEF GeneratorInv
  <1>1. /\ pc = "drain" /\ pc' = "return" /\ pending = << >> /\ reverters' = TRUE
        /\ UNCHANGED <<total, submitted, pending, spent, verdict, task>>
    BY DEF WriteReverters, Drained
  <1>2. Len(pending) = 0 /\ submitted = total /\ total \in Nat
    BY <1>1, EmptySeq DEF Progress, GeneratorTypeOK
  <1>3. File' = File /\ Running' = Running /\ Oldest' = Oldest
    BY <1>1 DEF File, Running, Oldest
  <1>4. GeneratorTypeOK' /\ WritesBounded' /\ (pending \in Seq(Nat) /\ spent \subseteq Nat)'
    <2>1. \A j \in DOMAIN pending : pending[j] \notin spent
      BY <1>1 DEF GeneratorTypeOK
    <2> QED
      BY <1>1, <1>3, <2>1 DEF GeneratorTypeOK, WritesBounded
  <1>5. \A f \in File : task[f] = "written"
    BY <1>1, <1>2 DEF BehindWritten, Oldest, File
  <1>6. SuccessIsComplete' /\ Progress'
    BY <1>1, <1>2, <1>3, <1>5 DEF SuccessIsComplete, Progress
  <1>7. Window' /\ BehindWritten' /\ BehindSpent' /\ SpentEnded' /\ NotStarted'
    BY <1>1, <1>3 DEF Window, BehindWritten, BehindSpent, SpentEnded, NotStarted
  <1> QED
    BY <1>4, <1>6, <1>7

\* An exception of the producer leaves the writers and the deque as they are.
LEMMA ThrowKeeps == GeneratorInv /\ Throw => GeneratorInv'
  <1> SUFFICES ASSUME GeneratorInv, Throw PROVE GeneratorInv'
    OBVIOUS
  <1> USE DEF GeneratorInv
  <1>1. /\ pc \in {"produce", "submit", "drain"} /\ pc' = "unwind"
        /\ UNCHANGED <<total, submitted, pending, spent, reverters, verdict, task>>
    BY DEF Throw
  <1>2. File' = File /\ Running' = Running /\ Oldest' = Oldest
    BY <1>1 DEF File, Running, Oldest
  <1>3. GeneratorTypeOK' /\ WritesBounded' /\ (pending \in Seq(Nat) /\ spent \subseteq Nat)'
    BY <1>1, <1>2 DEF GeneratorTypeOK, WritesBounded
  <1>4. SuccessIsComplete' /\ Progress'
    BY <1>1, <1>2 DEF SuccessIsComplete, Progress
  <1>5. Window' /\ BehindWritten' /\ BehindSpent' /\ SpentEnded' /\ NotStarted'
    BY <1>1, <1>2 DEF Window, BehindWritten, BehindSpent, SpentEnded, NotStarted
  <1> QED
    BY <1>3, <1>4, <1>5

\* A thread at work is in the window, and its future has not been asked: the destructor of the
\* deque waits for it.
LEMMA JoinedMeansQuiet == GeneratorInv /\ pc # "gone" /\ Joined => Running = {}
  <1> SUFFICES ASSUME GeneratorInv, pc # "gone", Joined, NEW f \in Running PROVE FALSE
    OBVIOUS
  <1>1. f \in File /\ task[f] \in {"open", "write"}
    BY DEF Running
  <1>2. f \in Nat /\ submitted \in Nat /\ Len(pending) \in Nat /\ DOMAIN pending = 1 .. Len(pending)
    BY <1>1, FilesNat DEF GeneratorInv, GeneratorTypeOK, File
  <1>3. ~(f < Oldest) /\ ~(submitted <= f) /\ f \notin spent
    BY <1>1 DEF GeneratorInv, BehindWritten, NotStarted, SpentEnded
  <1>4. Oldest = submitted - Len(pending)
    BY DEF Oldest
  <1> DEFINE k == f - Oldest + 1
  <1>5. k \in 1 .. Len(pending) /\ f = Oldest + k - 1
    BY <1>2, <1>3, <1>4
  <1>6. k \in DOMAIN pending /\ pending[k] = f
    BY <1>2, <1>5 DEF GeneratorInv, Window
  <1> QED
    BY <1>1, <1>3, <1>6 DEF Joined

\* Nothing is at work any more when the deque is gone: its destructor has waited.
LEMMA ExitKeeps == GeneratorInv /\ Exit => GeneratorInv'
  <1> SUFFICES ASSUME GeneratorInv, Exit PROVE GeneratorInv'
    OBVIOUS
  <1> USE InFlightPositive, FilesNat DEF GeneratorInv
  <1>1. /\ pc \in {"return", "unwind"} /\ pc' = "gone" /\ Running = {}
        /\ pending' = << >> /\ verdict' = (IF pc = "return" THEN "ok" ELSE "error")
        /\ UNCHANGED <<total, submitted, spent, reverters, task>>
    BY JoinedMeansQuiet DEF Exit
  <1>2. /\ pending' \in Seq(Nat) /\ Len(pending') = 0 /\ MaxInFlight \in Nat
        /\ \A j \in DOMAIN pending' : FALSE
        /\ \A j \in 2 .. Len(pending') : pending'[j - 1] < pending'[j]
    BY <1>1, EmptySeq
  <1>3. File' = File /\ Running' = Running
    BY <1>1 DEF File, Running
  <1>4. GeneratorTypeOK' /\ WritesBounded' /\ (spent \subseteq Nat)'
    BY <1>1, <1>2, <1>3 DEF GeneratorTypeOK, WritesBounded
  <1>5. SuccessIsComplete' /\ Progress'
    BY <1>1, <1>3 DEF SuccessIsComplete, Progress
  <1>6. Window' /\ BehindWritten' /\ BehindSpent' /\ SpentEnded' /\ NotStarted'
    BY <1>1, <1>2, <1>3 DEF Window, BehindWritten, BehindSpent, SpentEnded, NotStarted
  <1> QED
    BY <1>2, <1>4, <1>5, <1>6

\* A writer's file is not behind the deque yet, for that is written already.
LEMMA WriterKeeps == ASSUME NEW f \in File, GeneratorInv, Writer(f) PROVE GeneratorInv'
  <1> USE DEF GeneratorInv
  <1>1. PICK outcome \in {"write", "written", "failed"} :
            /\ task[f] \in {"open", "write"} /\ task' = [task EXCEPT ![f] = outcome]
            /\ total' = total /\ pc' = pc /\ submitted' = submitted /\ pending' = pending
            /\ spent' = spent /\ reverters' = reverters /\ verdict' = verdict
    BY DEF Writer, Open, Close, FailedWrite, producerVars
  <1>2. File' = File /\ Oldest' = Oldest
    BY <1>1 DEF File, Oldest
  <1>3. /\ task' \in [File -> {"none", "open", "write", "written", "failed"}]
        /\ task'[f] = outcome /\ \A g \in File : g # f => task'[g] = task[g]
    BY <1>1 DEF GeneratorTypeOK
  <1>4. pc # "gone" /\ verdict = "none" /\ reverters = FALSE
    <2>1. f \in Running
      BY <1>1 DEF Running
    <2>2. pc # "gone"
      BY <2>1 DEF Progress
    <2> QED
      BY <1>1, <2>2 DEF Progress, SuccessIsComplete, GeneratorTypeOK
  <1>5. GeneratorTypeOK' /\ (pending \in Seq(Nat) /\ spent \subseteq Nat)'
    BY <1>1, <1>2, <1>3 DEF GeneratorTypeOK
  <1>6. WritesBounded'
    BY <1>1, <1>2, <1>3 DEF WritesBounded
  <1>7. SuccessIsComplete' /\ Progress'
    BY <1>1, <1>4 DEF SuccessIsComplete, Progress
  <1>8. Window' /\ BehindSpent'
    BY <1>1, <1>2 DEF Window, BehindSpent
  <1>9. BehindWritten' /\ NotStarted'
    BY <1>1, <1>2, <1>3, <1>4 DEF BehindWritten, NotStarted
  <1>10. SpentEnded'
    BY <1>1, <1>2, <1>3 DEF SpentEnded
  <1> QED
    BY <1>5, <1>6, <1>7, <1>8, <1>9, <1>10

\* The invariant speaks of the variables only.
LEMMA GeneratorStutter == GeneratorInv /\ UNCHANGED vars => GeneratorInv'
  <1> SUFFICES ASSUME GeneratorInv, UNCHANGED vars PROVE GeneratorInv'
    OBVIOUS
  <1> USE DEF GeneratorInv
  <1>1. UNCHANGED <<total, pc, submitted, pending, spent, reverters, verdict, task>>
    BY DEF vars, producerVars
  <1>2. File' = File /\ Running' = Running /\ Oldest' = Oldest
    BY <1>1 DEF File, Running, Oldest
  <1>3. GeneratorTypeOK' /\ WritesBounded' /\ SuccessIsComplete' /\ (pending \in Seq(Nat) /\ spent \subseteq Nat)'
    BY <1>1, <1>2 DEF GeneratorTypeOK, WritesBounded, SuccessIsComplete
  <1>4. Window' /\ BehindWritten' /\ BehindSpent' /\ SpentEnded' /\ NotStarted' /\ Progress'
    BY <1>1, <1>2 DEF Window, BehindWritten, BehindSpent, SpentEnded, NotStarted, Progress
  <1> QED
    BY <1>3, <1>4

-----------------------------------------------------------------------------
(* Theorems. *)

\* Every step of gen keeps the invariant.
LEMMA GeneratorStep == GeneratorInv /\ [Next]_vars => GeneratorInv'
  <1> SUFFICES ASSUME GeneratorInv, [Next]_vars PROVE GeneratorInv'
    OBVIOUS
  <1>1. CASE Produce
    BY <1>1, ProduceKeeps
  <1>2. CASE Submit
    BY <1>2, SubmitKeeps
  <1>3. CASE \E k \in 1 .. MaxInFlight : Reap(k)
    BY <1>3, ReapKeeps
  <1>4. CASE WriteReverters
    BY <1>4, WriteRevertersKeeps
  <1>5. CASE Exit
    BY <1>5, ExitKeeps
  <1>6. CASE Throw
    BY <1>6, ThrowKeeps
  <1>7. CASE \E f \in File : Writer(f)
    BY <1>7, WriterKeeps
  <1>8. CASE Ended \/ UNCHANGED vars
    BY <1>8, GeneratorStutter DEF Ended
  <1> QED
    BY <1>1, <1>2, <1>3, <1>4, <1>5, <1>6, <1>7, <1>8 DEF Next, Producer

\* The deque is the window of what has been submitted and not reaped.
LEMMA GeneratorInvariant == Spec => []GeneratorInv
  <1> QED
    BY GeneratorInit, GeneratorStep, PTL DEF Spec

\* The deque is a window of the submitted files and no future in it has been asked before, so
\* that get() never meets an invalid one, for any number of files and of writers in flight.
THEOREM GeneratorDequeOK == Spec => []GeneratorTypeOK
  <1>1. GeneratorInv => GeneratorTypeOK
    BY DEF GeneratorInv
  <1> QED
    BY <1>1, GeneratorInvariant, PTL

\* At most MaxInFlight writer threads live, and a failure is noticed before as many further files
\* have been started.
THEOREM GeneratorWritesBounded == Spec => []WritesBounded
  <1>1. GeneratorInv => WritesBounded
    BY DEF GeneratorInv
  <1> QED
    BY <1>1, GeneratorInvariant, PTL

\* reverters.txt and exit status 0 mean that every file is written, and the program never ends
\* under a thread that writes.
THEOREM GeneratorSuccessIsComplete == Spec => []SuccessIsComplete
  <1>1. GeneratorInv => SuccessIsComplete
    BY DEF GeneratorInv
  <1> QED
    BY <1>1, GeneratorInvariant, PTL
=============================================================================
