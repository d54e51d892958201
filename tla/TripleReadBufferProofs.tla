----------------------- MODULE TripleReadBufferProofs -----------------------
(***************************************************************************)
(* What holds of TripleReadBuffer for any number of buffers, any finite    *)
(* set of threads that stop it, any modulus of the positions and any       *)
(* length of the file.                                                     *)
(***************************************************************************)
EXTENDS TripleReadBuffer, FiniteSetTheorems, TLAPS

USE BufferCountAssumption, ThreadsAssumption, BoundsAssumption

Labels == ProducerLabels \cup ConsumerLabels \cup StopLabels

(* The part of TypeOK that the token argument needs.                       *)
TokenTypes ==
    /\ semaphore \in [Side -> Nat]
    /\ count \in [Side -> Nat]
    /\ pc \in [Threads -> Labels]

(* The inductive invariant of the token argument.  That a count never      *)
(* exceeds the number of buffers follows from the test in safeRelease; the *)
(* balance then bounds the semaphore and every release on its way to it.   *)
TokenInv ==
    /\ TokenTypes
    /\ \A s \in Side : count[s] <= buffer_count
    /\ CountMatchesTokens

-----------------------------------------------------------------------------
(* Threads is finite, so the sets of threads at given labels are.          *)
LEMMA ThreadsFinite == IsFiniteSet(Threads)
<1>1. IsFiniteSet({Producer, Consumer})
  <2>1. IsFiniteSet({}) BY FS_EmptySet
  <2>2. IsFiniteSet({} \cup {Producer}) BY <2>1, FS_AddElement
  <2>3. IsFiniteSet(({} \cup {Producer}) \cup {Consumer}) BY <2>2, FS_AddElement
  <2>4. ({} \cup {Producer}) \cup {Consumer} = {Producer, Consumer} OBVIOUS
  <2> QED BY <2>3, <2>4
<1> QED BY <1>1, FS_Union DEF Threads

(* The threads whose label is in P.                                        *)
At(f, P) == {u \in Threads : f[u] \in P}

(* Moving one thread from a label outside P to one outside P, in, or out   *)
(* changes the number of threads in P by nothing, one, or minus one.       *)
LEMMA MoveThread ==
    ASSUME NEW f \in [Threads -> Labels], NEW g, NEW t \in Threads,
           NEW from, f[t] = from, NEW to, g[t] = to,
           \A u \in Threads \ {t} : g[u] = f[u],
           NEW P
    PROVE  /\ Cardinality(At(f, P)) \in Nat
           /\ Cardinality(At(g, P)) \in Nat
           /\ (from \in P <=> to \in P) => Cardinality(At(g, P)) = Cardinality(At(f, P))
           /\ (from \notin P /\ to \in P)
                 => Cardinality(At(g, P)) = Cardinality(At(f, P)) + 1
           /\ (from \in P /\ to \notin P)
                 => Cardinality(At(f, P)) = Cardinality(At(g, P)) + 1
<1>1. At(f, P) \subseteq Threads /\ At(g, P) \subseteq Threads BY DEF At
<1>2. IsFiniteSet(At(f, P)) /\ IsFiniteSet(At(g, P))
  BY <1>1, ThreadsFinite, FS_Subset
<1>3. Cardinality(At(f, P)) \in Nat /\ Cardinality(At(g, P)) \in Nat
  BY <1>2, FS_CardinalityType
<1>4. (from \in P <=> to \in P) => At(g, P) = At(f, P)
  BY DEF At
<1>5. ASSUME from \notin P, to \in P
      PROVE  Cardinality(At(g, P)) = Cardinality(At(f, P)) + 1
  <2>1. At(g, P) = At(f, P) \cup {t} /\ t \notin At(f, P) BY <1>5 DEF At
  <2> QED BY <2>1, <1>2, FS_AddElement
<1>6. ASSUME from \in P, to \notin P
      PROVE  Cardinality(At(f, P)) = Cardinality(At(g, P)) + 1
  <2>1. At(f, P) = At(g, P) \cup {t} /\ t \notin At(g, P) BY <1>6 DEF At
  <2> QED BY <2>1, <1>2, FS_AddElement
<1> QED BY <1>3, <1>4, <1>5, <1>6

(* Labels at which a thread owes nothing to any count or semaphore.        *)
Settled == {l \in Labels : \A s \in Side : l \notin PostLabels(s) \cup TakeLabels(s)}

(* A label belongs to one side and one kind of debt only.                  *)
LEMMA LabelsApart ==
    \A s, r \in Side :
        /\ PostLabels(s) \subseteq Labels /\ TakeLabels(s) \subseteq Labels
        /\ PostLabels(s) \cap TakeLabels(r) = {}
        /\ s # r => /\ PostLabels(s) \cap PostLabels(r) = {}
                    /\ TakeLabels(s) \cap TakeLabels(r) = {}
BY DEF Side, PostLabels, TakeLabels, Labels, ProducerLabels, ConsumerLabels, StopLabels

(* What moving thread t from one label to another does to the two debts    *)
(* of a side.                                                              *)
LEMMA GotoDebts ==
    ASSUME TokenTypes, NEW t \in Threads, NEW from, NEW to \in Labels,
           Goto(t, from, to), NEW r \in Side
    PROVE  /\ pc' \in [Threads -> Labels]
           /\ Cardinality(Posting(r)) \in Nat /\ Cardinality(Posting(r))' \in Nat
           /\ Cardinality(Taking(r)) \in Nat /\ Cardinality(Taking(r))' \in Nat
           /\ (from \in PostLabels(r) <=> to \in PostLabels(r))
                 => Cardinality(Posting(r))' = Cardinality(Posting(r))
           /\ (from \notin PostLabels(r) /\ to \in PostLabels(r))
                 => Cardinality(Posting(r))' = Cardinality(Posting(r)) + 1
           /\ (from \in PostLabels(r) /\ to \notin PostLabels(r))
                 => Cardinality(Posting(r)) = Cardinality(Posting(r))' + 1
           /\ (from \in TakeLabels(r) <=> to \in TakeLabels(r))
                 => Cardinality(Taking(r))' = Cardinality(Taking(r))
           /\ (from \notin TakeLabels(r) /\ to \in TakeLabels(r))
                 => Cardinality(Taking(r))' = Cardinality(Taking(r)) + 1
           /\ (from \in TakeLabels(r) /\ to \notin TakeLabels(r))
                 => Cardinality(Taking(r)) = Cardinality(Taking(r))' + 1
<1>1. /\ pc \in [Threads -> Labels] /\ pc[t] = from /\ pc'[t] = to
      /\ \A u \in Threads \ {t} : pc'[u] = pc[u]
  BY DEF TokenTypes, Goto
<1>2. /\ Posting(r) = At(pc, PostLabels(r)) /\ Posting(r)' = At(pc', PostLabels(r))
      /\ Taking(r) = At(pc, TakeLabels(r)) /\ Taking(r)' = At(pc', TakeLabels(r))
  BY DEF Posting, Taking, At
<1>3. pc' \in [Threads -> Labels] BY DEF TokenTypes, Goto
<1>4. /\ Cardinality(At(pc, PostLabels(r))) \in Nat /\ Cardinality(At(pc', PostLabels(r))) \in Nat
      /\ (from \in PostLabels(r) <=> to \in PostLabels(r))
            => Cardinality(At(pc', PostLabels(r))) = Cardinality(At(pc, PostLabels(r)))
      /\ (from \notin PostLabels(r) /\ to \in PostLabels(r))
            => Cardinality(At(pc', PostLabels(r))) = Cardinality(At(pc, PostLabels(r))) + 1
      /\ (from \in PostLabels(r) /\ to \notin PostLabels(r))
            => Cardinality(At(pc, PostLabels(r))) = Cardinality(At(pc', PostLabels(r))) + 1
  BY <1>1, MoveThread
<1>5. /\ Cardinality(At(pc, TakeLabels(r))) \in Nat /\ Cardinality(At(pc', TakeLabels(r))) \in Nat
      /\ (from \in TakeLabels(r) <=> to \in TakeLabels(r))
            => Cardinality(At(pc', TakeLabels(r))) = Cardinality(At(pc, TakeLabels(r)))
      /\ (from \notin TakeLabels(r) /\ to \in TakeLabels(r))
            => Cardinality(At(pc', TakeLabels(r))) = Cardinality(At(pc, TakeLabels(r))) + 1
      /\ (from \in TakeLabels(r) /\ to \notin TakeLabels(r))
            => Cardinality(At(pc, TakeLabels(r))) = Cardinality(At(pc', TakeLabels(r))) + 1
  BY <1>1, MoveThread
<1> QED BY <1>2, <1>3, <1>4, <1>5

(* A thread that takes from a semaphore owes a countdown.                  *)
LEMMA TakeTokenStep ==
    ASSUME TokenInv, NEW t \in Threads, NEW s \in Side,
           NEW from \in Settled, NEW to \in TakeLabels(s),
           TakeToken(t, s, from, to)
    PROVE  TokenInv'
<1>1. Goto(t, from, to) /\ to \in Labels BY LabelsApart DEF TakeToken
<1>2. TokenTypes'
  BY <1>1, GotoDebts DEF TakeToken, TokenInv, TokenTypes
<1>3. ASSUME NEW r \in Side
      PROVE  count'[r] = semaphore'[r] + Cardinality(Posting(r))' + Cardinality(Taking(r))'
  <2>1. count[r] = semaphore[r] + Cardinality(Posting(r)) + Cardinality(Taking(r))
    BY DEF TokenInv, CountMatchesTokens
  <2>2. count' = count /\ semaphore' = [semaphore EXCEPT ![s] = @ - 1] BY DEF TakeToken
  <2>3. semaphore[r] \in Nat /\ count[r] \in Nat /\ semaphore \in [Side -> Nat]
    BY DEF TokenInv, TokenTypes
  <2>4. /\ from \notin PostLabels(r) /\ to \notin PostLabels(r) /\ from \notin TakeLabels(r)
        /\ (to \in TakeLabels(r) <=> r = s)
    BY LabelsApart DEF Settled
  <2>5. /\ Cardinality(Posting(r)) \in Nat /\ Cardinality(Taking(r)) \in Nat
        /\ Cardinality(Posting(r))' = Cardinality(Posting(r))
        /\ Cardinality(Taking(r))' = Cardinality(Taking(r)) + (IF r = s THEN 1 ELSE 0)
    BY <1>1, <2>4, GotoDebts DEF TokenInv
  <2> QED BY <2>1, <2>2, <2>3, <2>5
<1>4. \A r \in Side : count'[r] <= buffer_count BY DEF TokenInv, TakeToken
<1> QED BY <1>2, <1>3, <1>4 DEF TokenInv, CountMatchesTokens

(* A countdown settles what a take owed.                                   *)
LEMMA CountDownStep ==
    ASSUME TokenInv, NEW t \in Threads, NEW s \in Side,
           NEW from \in TakeLabels(s), NEW to \in Settled,
           CountDown(t, s, from, to)
    PROVE  TokenInv'
<1>1. Goto(t, from, to) /\ to \in Labels BY DEF CountDown, Settled
<1>2. count' = [count EXCEPT ![s] = @ - 1] /\ semaphore' = semaphore BY DEF CountDown
<1>3. ASSUME NEW r \in Side
      PROVE  /\ count'[r] = semaphore'[r] + Cardinality(Posting(r))' + Cardinality(Taking(r))'
             /\ count'[r] \in Nat /\ count'[r] <= count[r]
  <2>1. count[r] = semaphore[r] + Cardinality(Posting(r)) + Cardinality(Taking(r))
    BY DEF TokenInv, CountMatchesTokens
  <2>2. semaphore[r] \in Nat /\ count[r] \in Nat /\ count \in [Side -> Nat]
    BY DEF TokenInv, TokenTypes
  <2>3. /\ from \notin PostLabels(r) /\ to \notin PostLabels(r) /\ to \notin TakeLabels(r)
        /\ (from \in TakeLabels(r) <=> r = s)
    BY LabelsApart DEF Settled
  <2>4. /\ Cardinality(Posting(r)) \in Nat /\ Cardinality(Taking(r))' \in Nat
        /\ Cardinality(Posting(r))' = Cardinality(Posting(r))
        /\ Cardinality(Taking(r)) = Cardinality(Taking(r))' + (IF r = s THEN 1 ELSE 0)
    BY <1>1, <2>3, GotoDebts DEF TokenInv
  <2> QED BY <1>2, <2>1, <2>2, <2>4
<1>4. TokenTypes'
  <2>1. count' \in [Side -> Nat] BY <1>2, <1>3 DEF TokenInv, TokenTypes
  <2>2. pc' \in [Threads -> Labels] BY <1>1 DEF TokenInv, TokenTypes, Goto
  <2> QED BY <1>2, <2>1, <2>2 DEF TokenInv, TokenTypes
<1>5. ASSUME NEW r \in Side PROVE count'[r] <= buffer_count
  BY <1>3, <1>4 DEF TokenInv, TokenTypes
<1> QED BY <1>3, <1>4, <1>5 DEF TokenInv, CountMatchesTokens

(* safeRelease raises the count only below its maximum, and then owes the  *)
(* semaphore a release.                                                    *)
LEMMA ReleaseCountStep ==
    ASSUME TokenInv, NEW t \in Threads, NEW s \in Side,
           NEW from \in Settled, NEW posting \in PostLabels(s), NEW refused \in Settled,
           safeReleaseCount(t, s, from, posting, refused)
    PROVE  TokenInv'
<1> DEFINE low == count[s] < buffer_count
<1> DEFINE to == IF low THEN posting ELSE refused
<1>1. Goto(t, from, to) /\ to \in Labels
  BY LabelsApart DEF safeReleaseCount, Settled
<1>2. /\ count' = IF low THEN [count EXCEPT ![s] = @ + 1] ELSE count
      /\ semaphore' = semaphore
  BY DEF safeReleaseCount
<1>3. ASSUME NEW r \in Side
      PROVE  /\ count'[r] = semaphore'[r] + Cardinality(Posting(r))' + Cardinality(Taking(r))'
             /\ count'[r] <= buffer_count
  <2>1. count[r] = semaphore[r] + Cardinality(Posting(r)) + Cardinality(Taking(r))
    BY DEF TokenInv, CountMatchesTokens
  <2>2. /\ semaphore[r] \in Nat /\ count[r] \in Nat /\ count \in [Side -> Nat]
        /\ count[r] <= buffer_count
    BY DEF TokenInv, TokenTypes
  <2>3. /\ from \notin PostLabels(r) /\ from \notin TakeLabels(r) /\ to \notin TakeLabels(r)
        /\ (to \in PostLabels(r) <=> (low /\ r = s))
    BY LabelsApart DEF Settled
  <2>4. /\ Cardinality(Posting(r)) \in Nat /\ Cardinality(Taking(r)) \in Nat
        /\ Cardinality(Posting(r))' = Cardinality(Posting(r)) + (IF low /\ r = s THEN 1 ELSE 0)
        /\ Cardinality(Taking(r))' = Cardinality(Taking(r))
    <3> HIDE DEF to, low
    <3> QED BY <1>1, <2>3, GotoDebts DEF TokenInv
  <2> QED BY <1>2, <2>1, <2>2, <2>4
<1>4. TokenTypes'
  <2>1. count' \in [Side -> Nat] BY <1>2 DEF TokenInv, TokenTypes
  <2>2. pc' \in [Threads -> Labels] BY <1>1 DEF TokenInv, TokenTypes, Goto
  <2> QED BY <1>2, <2>1, <2>2 DEF TokenInv, TokenTypes
<1> QED BY <1>3, <1>4 DEF TokenInv, CountMatchesTokens

(* The release itself settles that debt.                                   *)
LEMMA ReleasePostStep ==
    ASSUME TokenInv, NEW t \in Threads, NEW s \in Side,
           NEW posting \in PostLabels(s), NEW to \in Settled,
           safeReleasePost(t, s, posting, to)
    PROVE  TokenInv'
<1>1. Goto(t, posting, to) /\ to \in Labels BY DEF safeReleasePost, Settled
<1>2. semaphore' = [semaphore EXCEPT ![s] = @ + 1] /\ count' = count
  BY DEF safeReleasePost
<1>3. TokenTypes'
  <2>1. pc' \in [Threads -> Labels] BY <1>1 DEF TokenInv, TokenTypes, Goto
  <2> QED BY <1>2, <2>1 DEF TokenInv, TokenTypes
<1>4. ASSUME NEW r \in Side
      PROVE  count'[r] = semaphore'[r] + Cardinality(Posting(r))' + Cardinality(Taking(r))'
  <2>1. count[r] = semaphore[r] + Cardinality(Posting(r)) + Cardinality(Taking(r))
    BY DEF TokenInv, CountMatchesTokens
  <2>2. semaphore[r] \in Nat /\ count[r] \in Nat /\ semaphore \in [Side -> Nat]
    BY DEF TokenInv, TokenTypes
  <2>3. /\ posting \notin TakeLabels(r) /\ to \notin PostLabels(r) /\ to \notin TakeLabels(r)
        /\ (posting \in PostLabels(r) <=> r = s)
    BY LabelsApart DEF Settled
  <2>4. /\ Cardinality(Posting(r))' \in Nat /\ Cardinality(Taking(r)) \in Nat
        /\ Cardinality(Posting(r)) = Cardinality(Posting(r))' + (IF r = s THEN 1 ELSE 0)
        /\ Cardinality(Taking(r))' = Cardinality(Taking(r))
    BY <1>1, <2>3, GotoDebts DEF TokenInv
  <2> QED BY <1>2, <2>1, <2>2, <2>4
<1>5. \A r \in Side : count'[r] <= buffer_count BY <1>2 DEF TokenInv
<1> QED BY <1>3, <1>4, <1>5 DEF TokenInv, CountMatchesTokens

(* safeRelease as a whole.                                                 *)
LEMMA SafeReleaseStep ==
    ASSUME TokenInv, NEW t \in Threads, NEW s \in Side,
           NEW from \in Settled, NEW posting \in PostLabels(s),
           NEW to \in Settled, NEW refused \in Settled,
           safeRelease(t, s, from, posting, to, refused)
    PROVE  TokenInv'
BY ReleaseCountStep, ReleasePostStep DEF safeRelease

(* A step between settled labels that leaves the tokens alone.             *)
LEMMA SettledStep ==
    ASSUME TokenInv, NEW t \in Threads, NEW from \in Settled, NEW to \in Settled,
           Goto(t, from, to), UNCHANGED tokens
    PROVE  TokenInv'
<1>1. to \in Labels /\ count' = count /\ semaphore' = semaphore BY DEF Settled, tokens
<1>2. TokenTypes'
  <2>1. pc' \in [Threads -> Labels] BY <1>1 DEF TokenInv, TokenTypes, Goto
  <2> QED BY <1>1, <2>1 DEF TokenInv, TokenTypes
<1>3. ASSUME NEW r \in Side
      PROVE  /\ Cardinality(Posting(r))' = Cardinality(Posting(r))
             /\ Cardinality(Taking(r))' = Cardinality(Taking(r))
  BY <1>1, GotoDebts DEF TokenInv, Settled
<1> QED BY <1>1, <1>2, <1>3 DEF TokenInv, CountMatchesTokens

LEMMA SettledLabels ==
    /\ {"idle", "quit", "check", "try", "pop", "unget", "blocked", "recheck",
        "filling", "push", "publish", "enter", "acquire", "error_check",
        "pop_filled", "stop_check", "switch", "recycle_push", "recycle",
        "stop_store", "stop_empty", "stop_filled"} \subseteq Settled
    /\ {"took", "woke"} = TakeLabels("empty") /\ {"acquired"} = TakeLabels("filled")
    /\ {"unget_post", "recycle_post", "stop_empty_post"} = PostLabels("empty")
    /\ {"publish_post", "stop_filled_post"} = PostLabels("filled")
BY DEF Settled, Side, PostLabels, TakeLabels, Labels,
       ProducerLabels, ConsumerLabels, StopLabels

LEMMA ThreadTypes ==
    /\ Producer \in Threads /\ Consumer \in Threads /\ Stoppers \subseteq Threads
    /\ "empty" \in Side /\ "filled" \in Side
BY DEF Threads, Side

(* Where every thread is settled a side has no debts.                      *)
LEMMA NoDebts ==
    ASSUME NEW f \in [Threads -> Settled], NEW s \in Side
    PROVE  /\ Cardinality(At(f, PostLabels(s))) = 0
           /\ Cardinality(At(f, TakeLabels(s))) = 0
<1>1. At(f, PostLabels(s)) = {} /\ At(f, TakeLabels(s)) = {} BY DEF At, Settled
<1> QED BY <1>1, FS_EmptySet

LEMMA TokenInvInit == Init => TokenInv
<1> SUFFICES ASSUME Init PROVE TokenInv OBVIOUS
<1>1. pc \in [Threads -> Settled] BY SettledLabels DEF Init
<1>2. TokenTypes BY <1>1 DEF Init, TokenTypes, Settled
<1>3. ASSUME NEW s \in Side
      PROVE  Cardinality(Posting(s)) = 0 /\ Cardinality(Taking(s)) = 0
  BY <1>1, NoDebts DEF Posting, Taking, At
<1>4. \A s \in Side : count[s] = semaphore[s] /\ semaphore[s] \in Nat /\ count[s] <= buffer_count
  BY DEF Init
<1> QED BY <1>2, <1>3, <1>4 DEF TokenInv, CountMatchesTokens

LEMMA RearmStep == ASSUME Rearm PROVE TokenInv'
<1>1. pc' \in [Threads -> Settled] BY SettledLabels DEF Rearm
<1>2. TokenTypes' BY <1>1 DEF Rearm, normalizeSemaphores, TokenTypes, Settled
<1>3. ASSUME NEW s \in Side
      PROVE  Cardinality(Posting(s))' = 0 /\ Cardinality(Taking(s))' = 0
  <2>1. Posting(s)' = At(pc', PostLabels(s)) /\ Taking(s)' = At(pc', TakeLabels(s))
    BY DEF Posting, Taking, At
  <2> QED BY <1>1, <2>1, NoDebts
<1>4. \A s \in Side : /\ count'[s] = semaphore'[s]
                      /\ semaphore'[s] \in Nat /\ count'[s] <= buffer_count
  BY DEF Rearm, normalizeSemaphores
<1> QED BY <1>2, <1>3, <1>4 DEF TokenInv, CountMatchesTokens

LEMMA TokenInvNext == TokenInv /\ [Next]_vars => TokenInv'
<1> SUFFICES ASSUME TokenInv, [Next]_vars PROVE TokenInv' OBVIOUS
<1> USE SettledLabels, ThreadTypes
<1>1. ASSUME acquireEmpty PROVE TokenInv'
  <2>1. CASE CallAcquireEmpty BY <2>1, SettledStep DEF CallAcquireEmpty
  <2>2. CASE AcquireEmptyCheckStop BY <2>2, SettledStep DEF AcquireEmptyCheckStop
  <2>3. CASE AcquireEmptyTry
    <3>1. CASE TakeToken(Producer, "empty", "try", "took") BY <3>1, TakeTokenStep
    <3>2. CASE Goto(Producer, "try", "blocked") /\ UNCHANGED tokens BY <3>2, SettledStep
    <3> QED BY <2>3, <3>1, <3>2 DEF AcquireEmptyTry
  <2>4. CASE AcquireEmptyTaken BY <2>4, CountDownStep DEF AcquireEmptyTaken
  <2>5. CASE AcquireEmptyBlock BY <2>5, TakeTokenStep DEF AcquireEmptyBlock
  <2>6. CASE AcquireEmptyWoken BY <2>6, CountDownStep DEF AcquireEmptyWoken
  <2>7. CASE AcquireEmptyRecheck BY <2>7, SettledStep DEF AcquireEmptyRecheck
  <2>8. CASE AcquireEmptyPop
    <3>1. CASE Goto(Producer, "pop", "unget") /\ UNCHANGED tokens BY <3>1, SettledStep
    <3>2. CASE Goto(Producer, "pop", "filling") /\ UNCHANGED tokens BY <3>2, SettledStep
    <3> QED BY <2>8, <3>1, <3>2 DEF AcquireEmptyPop
  <2>9. CASE AcquireEmptyUnget BY <2>9, SafeReleaseStep DEF AcquireEmptyUnget
  <2> QED BY <1>1, <2>1, <2>2, <2>3, <2>4, <2>5, <2>6, <2>7, <2>8, <2>9 DEF acquireEmpty
<1>2. CASE Fill BY <1>2, SettledStep DEF Fill
<1>3. ASSUME releaseFilled PROVE TokenInv'
  <2>1. CASE ReleaseFilledPush
    <3>1. CASE Goto(Producer, "push", "quit") /\ UNCHANGED tokens BY <3>1, SettledStep
    <3>2. CASE Goto(Producer, "push", "publish") /\ UNCHANGED tokens BY <3>2, SettledStep
    <3> QED BY <2>1, <3>1, <3>2 DEF ReleaseFilledPush
  <2>2. CASE ReleaseFilledToken BY <2>2, SafeReleaseStep DEF ReleaseFilledToken
  <2> QED BY <1>3, <2>1, <2>2 DEF releaseFilled
<1>4. ASSUME acquireCurrent PROVE TokenInv'
  <2>1. CASE CallAcquireCurrent BY <2>1, SettledStep DEF CallAcquireCurrent
  <2>2. CASE AcquireCurrentEnter BY <2>2, SettledStep DEF AcquireCurrentEnter
  <2>3. CASE AcquireCurrentAcquire
    <3>1. CASE TakeToken(Consumer, "filled", "acquire", "acquired") BY <3>1, TakeTokenStep
    <3>2. CASE Goto(Consumer, "acquire", "idle") /\ UNCHANGED tokens BY <3>2, SettledStep
    <3> QED BY <2>3, <3>1, <3>2 DEF AcquireCurrentAcquire
  <2>4. CASE AcquireCurrentAcquired BY <2>4, CountDownStep DEF AcquireCurrentAcquired
  <2>5. CASE AcquireCurrentErrorCheck BY <2>5, SettledStep DEF AcquireCurrentErrorCheck
  <2>6. CASE AcquireCurrentPop
    <3>1. CASE Goto(Consumer, "pop_filled", "stop_check") /\ UNCHANGED tokens
      BY <3>1, SettledStep
    <3>2. CASE Goto(Consumer, "pop_filled", "idle") /\ UNCHANGED tokens BY <3>2, SettledStep
    <3> QED BY <2>6, <3>1, <3>2 DEF AcquireCurrentPop
  <2>7. CASE AcquireCurrentStopCheck BY <2>7, SettledStep DEF AcquireCurrentStopCheck
  <2> QED BY <1>4, <2>1, <2>2, <2>3, <2>4, <2>5, <2>6, <2>7 DEF acquireCurrent
<1>5. ASSUME switchToNext PROVE TokenInv'
  <2>1. CASE CallSwitchToNext BY <2>1, SettledStep DEF CallSwitchToNext
  <2>2. CASE SwitchExchange BY <2>2, SettledStep DEF SwitchExchange
  <2>3. CASE SwitchPush
    <3>1. CASE Goto(Consumer, "recycle_push", "quit") /\ UNCHANGED tokens BY <3>1, SettledStep
    <3>2. CASE Goto(Consumer, "recycle_push", "recycle") /\ UNCHANGED tokens
      BY <3>2, SettledStep
    <3> QED BY <2>3, <3>1, <3>2 DEF SwitchPush
  <2>4. CASE SwitchToken BY <2>4, SafeReleaseStep DEF SwitchToken
  <2> QED BY <1>5, <2>1, <2>2, <2>3, <2>4 DEF switchToNext
<1>6. ASSUME NEW t \in Threads, CallRequestStop(t) \/ publishError(t) \/ requestStopWakeup(t)
      PROVE  TokenInv'
  <2>1. CASE CallRequestStop(t) BY <2>1, SettledStep DEF CallRequestStop
  <2>2. CASE publishError(t) BY <2>2, SettledStep DEF publishError
  <2>3. CASE StopStore(t) BY <2>3, SettledStep DEF StopStore
  <2>4. CASE StopToken(t)
    <3>1. AfterStop(t) \in Settled BY DEF AfterStop
    <3>2. CASE safeRelease(t, "empty", "stop_empty", "stop_empty_post",
                           "stop_filled", "stop_filled")
      BY <3>2, SafeReleaseStep
    <3>3. CASE safeRelease(t, "filled", "stop_filled", "stop_filled_post",
                           AfterStop(t), AfterStop(t))
      BY <3>1, <3>3, SafeReleaseStep
    <3> QED BY <2>4, <3>2, <3>3 DEF StopToken
  <2> QED BY <1>6, <2>1, <2>2, <2>3, <2>4 DEF requestStopWakeup
<1>7. CASE Initialize \/ Reset BY <1>7, RearmStep DEF Initialize, Reset
<1>8. CASE UNCHANGED vars
  <2>1. UNCHANGED <<semaphore, count, pc>> BY <1>8 DEF vars, tokens
  <2> QED BY <2>1 DEF TokenInv, TokenTypes, CountMatchesTokens, Posting, Taking
<1> QED BY <1>1, <1>2, <1>3, <1>4, <1>5, <1>6, <1>7, <1>8
        DEF Next, ProducerNext, ConsumerNext, StopperNext

LEMMA TokenInvAlways == Spec => []TokenInv
BY TokenInvInit, TokenInvNext, PTL DEF Spec

-----------------------------------------------------------------------------
(* The shadow count of either side (empty_count, filled_count) is at every *)
(* moment the semaphore plus what safeRelease and the acquirers have on    *)
(* its way: the two never drift apart, whoever stops the stream and how    *)
(* often.                                                                  *)
THEOREM CountMatchesTokensAlways == Spec => []CountMatchesTokens
BY TokenInvAlways, PTL DEF TokenInv

(* requestStopWakeup, releaseFilled and switchToNext together never        *)
(* release a semaphore above its maximum, however many threads are between *)
(* the compare-exchange and the release of safeRelease.                    *)
THEOREM ReleaseWithinMaxAlways == Spec => []ReleaseWithinMax
<1>1. TokenInv => ReleaseWithinMax
  <2> SUFFICES ASSUME TokenInv, NEW s \in Side
               PROVE  semaphore[s] + Cardinality(Posting(s)) <= buffer_count
    BY DEF ReleaseWithinMax
  <2>1. IsFiniteSet(Posting(s)) /\ IsFiniteSet(Taking(s))
    BY ThreadsFinite, FS_Subset DEF Posting, Taking
  <2>2. Cardinality(Posting(s)) \in Nat /\ Cardinality(Taking(s)) \in Nat
    BY <2>1, FS_CardinalityType
  <2>3. semaphore[s] \in Nat /\ count[s] \in Nat /\ count[s] <= buffer_count
    BY DEF TokenInv, TokenTypes
  <2> QED BY <2>2, <2>3 DEF TokenInv, CountMatchesTokens
<1> QED BY <1>1, TokenInvAlways, PTL

-----------------------------------------------------------------------------
(* Type correctness.  A thread that is about to put an index down holds    *)
(* one, and the producer is on its way to a chunk only while the file has  *)
(* chunks left.                                                            *)
Filling == {"filling", "push"}
Seeking == {"check", "try", "took", "pop", "blocked", "woke", "recheck"} \cup Filling

DataInv ==
    /\ ring \in [Side -> [Index -> Index]]
    /\ read_pos \in [Side -> 0 .. PosMod - 1]
    /\ write_pos \in [Side -> 0 .. PosMod - 1]
    /\ consumer_current \in Index \cup {None}
    /\ stop_requested \in BOOLEAN /\ error_ready \in BOOLEAN
    /\ storage \in BOOLEAN /\ block \in BOOLEAN
    /\ contents \in [Index -> 0 .. MaxChunks]
    /\ pc \in [Threads -> Labels]
    /\ index \in [{Producer, Consumer} -> Index \cup {None}]
    /\ sent \in 0 .. MaxChunks
    /\ delivered \in Seq(0 .. MaxChunks)
    /\ pc[Producer] \in Filling => index[Producer] \in Index
    /\ pc[Consumer] = "recycle_push" => index[Consumer] \in Index
    /\ pc[Producer] \in Seeking => sent < MaxChunks

LEMMA SideIndex ==
    /\ "empty" \in Side /\ "filled" \in Side
    /\ 0 \in Index /\ \A p \in Int : p % buffer_count \in Index
    /\ \A p \in Int : p % PosMod \in 0 .. PosMod - 1
    /\ Producer \in Threads /\ Consumer \in Threads /\ Stoppers \subseteq Threads
BY DEF Side, Index, Threads

(* A step that only moves a thread, or only moves tokens with it.          *)
LEMMA QuietStep ==
    ASSUME DataInv, NEW t \in Threads, NEW from, NEW to \in Labels,
           Goto(t, from, to), UNCHANGED <<rings, flags, data>>,
           t = Producer => /\ to \in Filling => from \in Filling
                           /\ to \in Seeking => from \in Seeking,
           t = Consumer => to # "recycle_push"
    PROVE  DataInv'
<1>1. UNCHANGED <<ring, read_pos, write_pos, stop_requested, error_ready,
                  consumer_current, storage, contents, index, block, sent, delivered>>
  BY DEF rings, flags, data
<1>2. pc' \in [Threads -> Labels] BY DEF DataInv, Goto
<1>3. pc'[Producer] \in Filling => index[Producer] \in Index
  BY SideIndex DEF DataInv, Goto
<1>4. pc'[Consumer] = "recycle_push" => index[Consumer] \in Index
  BY SideIndex DEF DataInv, Goto
<1>5. pc'[Producer] \in Seeking => sent < MaxChunks
  BY SideIndex DEF DataInv, Goto
<1> QED BY <1>1, <1>2, <1>3, <1>4, <1>5 DEF DataInv

(* The labels of the code paths are labels.                                *)
LEMMA LabelTypes ==
    {"idle", "quit", "check", "try", "took", "pop", "unget", "unget_post",
     "blocked", "woke", "recheck", "filling", "push", "publish",
     "publish_post", "enter", "acquire", "acquired", "error_check",
     "pop_filled", "stop_check", "switch", "recycle_push", "recycle",
     "recycle_post", "stop_store", "stop_empty", "stop_empty_post",
     "stop_filled", "stop_filled_post"} \subseteq Labels
BY DEF Labels, ProducerLabels, ConsumerLabels, StopLabels

LEMMA DataInvInit == Init => DataInv
<1> SUFFICES ASSUME Init PROVE DataInv OBVIOUS
<1>1. /\ ring \in [Side -> [Index -> Index]]
      /\ read_pos \in [Side -> 0 .. PosMod - 1]
      /\ write_pos \in [Side -> 0 .. PosMod - 1]
      /\ contents \in [Index -> 0 .. MaxChunks]
  BY SideIndex DEF Init
<1>2. pc \in [Threads -> Labels] /\ pc[Producer] = "idle" /\ pc[Consumer] = "idle"
  BY SideIndex, LabelTypes DEF Init
<1>3. delivered \in Seq(0 .. MaxChunks) /\ sent \in 0 .. MaxChunks BY DEF Init
<1> QED BY <1>1, <1>2, <1>3 DEF Init, DataInv, Filling, Seeking

LEMMA RearmDataStep == ASSUME Rearm, storage' \in BOOLEAN PROVE DataInv'
<1>1. /\ ring' \in [Side -> [Index -> Index]]
      /\ read_pos' \in [Side -> 0 .. PosMod - 1]
      /\ write_pos' \in [Side -> 0 .. PosMod - 1]
  BY SideIndex DEF Rearm, resetQueues
<1>2. contents' \in [Index -> 0 .. MaxChunks] BY DEF Rearm
<1>3. pc' \in [Threads -> Labels] /\ pc'[Producer] = "idle" /\ pc'[Consumer] = "idle"
  BY SideIndex, LabelTypes DEF Rearm
<1>4. delivered' \in Seq(0 .. MaxChunks) /\ sent' \in 0 .. MaxChunks BY DEF Rearm
<1> QED BY <1>1, <1>2, <1>3, <1>4 DEF Rearm, DataInv, Filling, Seeking

LEMMA TakeTokenQuiet ==
    ASSUME NEW t, NEW s, NEW from, NEW to, TakeToken(t, s, from, to)
    PROVE  Goto(t, from, to) /\ UNCHANGED <<rings, flags, data>>
BY DEF TakeToken

LEMMA CountDownQuiet ==
    ASSUME NEW t, NEW s, NEW from, NEW to, CountDown(t, s, from, to)
    PROVE  Goto(t, from, to) /\ UNCHANGED <<rings, flags, data>>
BY DEF CountDown

LEMMA SafeReleaseQuiet ==
    ASSUME NEW t, NEW s, NEW from, NEW posting, NEW to, NEW refused,
           safeRelease(t, s, from, posting, to, refused)
    PROVE  /\ \/ Goto(t, from, posting) \/ Goto(t, from, refused) \/ Goto(t, posting, to)
           /\ UNCHANGED <<rings, flags, data>>
BY DEF safeRelease, safeReleaseCount, safeReleasePost

LEMMA QuietMoves == 
    /\ Producer # Consumer
    /\ \A t \in Stoppers : t # Producer /\ t # Consumer
BY ThreadsAssumption

(* A remainder lies below its modulus.                                     *)
LEMMA ModRange ==
    ASSUME NEW a \in Int, NEW n \in Nat \ {0}
    PROVE  a % n \in 0 .. n - 1
BY SMTT(60)

(* What a pop and a push do to the types of a ring.                        *)
LEMMA PopTypes ==
    ASSUME DataInv, NEW s \in Side
    PROVE  /\ RingHead(s) \in Index
           /\ PopIndex(s) => read_pos' \in [Side -> 0 .. PosMod - 1]
<1>1. read_pos[s] \in Int /\ read_pos \in [Side -> 0 .. PosMod - 1]
  BY DEF DataInv
<1>2. read_pos[s] % buffer_count \in Index
  BY <1>1, ModRange, BufferCountAssumption DEF Index
<1>2a. (read_pos[s] + 1) % PosMod \in 0 .. PosMod - 1
  <2>1. read_pos[s] + 1 \in Int /\ PosMod \in Nat \ {0}
    BY <1>1, BufferCountAssumption, BoundsAssumption
  <2> QED BY <2>1, ModRange
<1>3. ring[s] \in [Index -> Index] BY DEF DataInv
<1> QED BY <1>1, <1>2, <1>2a, <1>3 DEF RingHead, PopIndex

LEMMA PushTypes ==
    ASSUME DataInv, NEW s \in Side, NEW i \in Index, PushIndex(s, i)
    PROVE  /\ ring' \in [Side -> [Index -> Index]]
           /\ read_pos' \in [Side -> 0 .. PosMod - 1]
           /\ write_pos' \in [Side -> 0 .. PosMod - 1]
<1>1. write_pos[s] \in Int /\ write_pos \in [Side -> 0 .. PosMod - 1]
  BY DEF DataInv
<1>2. write_pos[s] % buffer_count \in Index
  BY <1>1, ModRange, BufferCountAssumption DEF Index
<1>2a. (write_pos[s] + 1) % PosMod \in 0 .. PosMod - 1
  <2>1. write_pos[s] + 1 \in Int /\ PosMod \in Nat \ {0}
    BY <1>1, BufferCountAssumption, BoundsAssumption
  <2> QED BY <2>1, ModRange
<1>3. ring \in [Side -> [Index -> Index]] /\ read_pos \in [Side -> 0 .. PosMod - 1]
  BY DEF DataInv
<1> QED BY <1>1, <1>2, <1>2a, <1>3 DEF PushIndex

LEMMA AcquireEmptyData == ASSUME DataInv, acquireEmpty PROVE DataInv'
<1> USE SideIndex, LabelTypes, QuietMoves DEF Filling, Seeking
<1>1. CASE CallAcquireEmpty
  <2>1. UNCHANGED <<ring, read_pos, write_pos, stop_requested, error_ready,
                    consumer_current, storage, contents, index, block, sent, delivered>>
    BY <1>1 DEF CallAcquireEmpty, rings, flags, data
  <2>2. /\ pc' \in [Threads -> Labels] /\ pc'[Producer] = "check"
        /\ pc'[Consumer] = pc[Consumer] /\ sent < MaxChunks
    BY <1>1 DEF CallAcquireEmpty, Goto, DataInv
  <2> QED BY <2>1, <2>2 DEF DataInv
<1>2. CASE AcquireEmptyCheckStop BY <1>2, QuietStep DEF AcquireEmptyCheckStop
<1>3. CASE AcquireEmptyTry
  <2>1. Goto(Producer, "try", "took") \/ Goto(Producer, "try", "blocked")
    BY <1>3, TakeTokenQuiet DEF AcquireEmptyTry
  <2>2. UNCHANGED <<rings, flags, data>> BY <1>3, TakeTokenQuiet DEF AcquireEmptyTry
  <2> QED BY <2>1, <2>2, QuietStep
<1>4. CASE AcquireEmptyTaken BY <1>4, CountDownQuiet, QuietStep DEF AcquireEmptyTaken
<1>5. CASE AcquireEmptyBlock BY <1>5, TakeTokenQuiet, QuietStep DEF AcquireEmptyBlock
<1>6. CASE AcquireEmptyWoken BY <1>6, CountDownQuiet, QuietStep DEF AcquireEmptyWoken
<1>7. CASE AcquireEmptyRecheck BY <1>7, QuietStep DEF AcquireEmptyRecheck
<1>8. CASE AcquireEmptyPop
  <2>1. CASE RingEmpty("empty")
    <3>1. /\ Goto(Producer, "pop", "unget")
          /\ UNCHANGED <<rings, flags, data>>
      BY <1>8, <2>1 DEF AcquireEmptyPop, data
    <3> QED BY <3>1, QuietStep
  <2>2. CASE ~RingEmpty("empty")
    <3>1. /\ Goto(Producer, "pop", "filling")
          /\ index' = [index EXCEPT ![Producer] = RingHead("empty")]
          /\ PopIndex("empty")
          /\ UNCHANGED <<stop_requested, error_ready, consumer_current, storage,
                         contents, block, sent, delivered>>
      BY <1>8, <2>2 DEF AcquireEmptyPop, flags
    <3>2. RingHead("empty") \in Index BY PopTypes
    <3>3. read_pos' \in [Side -> 0 .. PosMod - 1] BY <3>1, PopTypes
    <3>4. /\ pc' \in [Threads -> Labels] /\ pc[Producer] = "pop"
          /\ pc'[Producer] = "filling" /\ pc'[Consumer] = pc[Consumer]
      BY <3>1 DEF Goto, DataInv
    <3>5. /\ index' \in [{Producer, Consumer} -> Index \cup {None}]
          /\ index'[Producer] \in Index /\ index'[Consumer] = index[Consumer]
      BY <3>1, <3>2 DEF DataInv
    <3> QED BY <3>1, <3>3, <3>4, <3>5 DEF DataInv, PopIndex
  <2> QED BY <2>1, <2>2
<1>9. CASE AcquireEmptyUnget
  <2>1. /\ \/ Goto(Producer, "unget", "unget_post") \/ Goto(Producer, "unget", "idle")
           \/ Goto(Producer, "unget_post", "idle")
        /\ UNCHANGED <<rings, flags, data>>
    BY <1>9, SafeReleaseQuiet DEF AcquireEmptyUnget
  <2> QED BY <2>1, QuietStep
<1> QED BY <1>1, <1>2, <1>3, <1>4, <1>5, <1>6, <1>7, <1>8, <1>9 DEF acquireEmpty

LEMMA ProduceData == ASSUME DataInv, Fill \/ releaseFilled PROVE DataInv'
<1> USE SideIndex, LabelTypes, QuietMoves DEF Filling, Seeking
<1>1. CASE Fill
  <2>1. UNCHANGED <<ring, read_pos, write_pos, stop_requested, error_ready,
                    consumer_current, storage, index, block, sent, delivered>>
    BY <1>1 DEF Fill, rings, flags
  <2>2. /\ pc' \in [Threads -> Labels] /\ pc[Producer] = "filling"
        /\ pc'[Producer] = "push" /\ pc'[Consumer] = pc[Consumer]
    BY <1>1 DEF Fill, Goto, DataInv
  <2>3. sent < MaxChunks /\ sent \in 0 .. MaxChunks BY <2>2 DEF DataInv
  <2>4. sent + 1 \in 0 .. MaxChunks BY <2>3
  <2>5. contents' \in [Index -> 0 .. MaxChunks] BY <1>1, <2>4 DEF Fill, DataInv
  <2> QED BY <2>1, <2>2, <2>5 DEF DataInv
<1>2. CASE ReleaseFilledPush
  <2>1. CASE RingFull("filled")
    <3>1. Goto(Producer, "push", "quit") /\ UNCHANGED <<rings, flags, data>>
      BY <1>2, <2>1 DEF ReleaseFilledPush, data
    <3> QED BY <3>1, QuietStep
  <2>2. CASE ~RingFull("filled")
    <3>1. /\ Goto(Producer, "push", "publish")
          /\ PushIndex("filled", index[Producer])
          /\ index' = [index EXCEPT ![Producer] = None]
          /\ sent' = sent + 1
          /\ UNCHANGED <<stop_requested, error_ready, consumer_current, storage,
                         contents, block, delivered>>
      BY <1>2, <2>2 DEF ReleaseFilledPush, flags
    <3>2. /\ pc' \in [Threads -> Labels] /\ pc[Producer] = "push"
          /\ pc'[Producer] = "publish" /\ pc'[Consumer] = pc[Consumer]
      BY <3>1 DEF Goto, DataInv
    <3>3. index[Producer] \in Index /\ sent < MaxChunks /\ sent \in 0 .. MaxChunks
      BY <3>2 DEF DataInv
    <3>4. sent' \in 0 .. MaxChunks BY <3>1, <3>3
    <3>5. /\ index' \in [{Producer, Consumer} -> Index \cup {None}]
          /\ index'[Consumer] = index[Consumer]
      BY <3>1 DEF DataInv
    <3>6. /\ ring' \in [Side -> [Index -> Index]]
          /\ read_pos' \in [Side -> 0 .. PosMod - 1]
          /\ write_pos' \in [Side -> 0 .. PosMod - 1]
      BY <3>1, <3>3, PushTypes
    <3> QED BY <3>1, <3>2, <3>4, <3>5, <3>6 DEF DataInv
  <2> QED BY <2>1, <2>2
<1>3. CASE ReleaseFilledToken
  <2>1. /\ \/ Goto(Producer, "publish", "publish_post") \/ Goto(Producer, "publish", "quit")
           \/ Goto(Producer, "publish_post", "idle")
        /\ UNCHANGED <<rings, flags, data>>
    BY <1>3, SafeReleaseQuiet DEF ReleaseFilledToken
  <2> QED BY <2>1, QuietStep
<1> QED BY <1>1, <1>2, <1>3 DEF releaseFilled

LEMMA AcquireCurrentData == ASSUME DataInv, acquireCurrent PROVE DataInv'
<1> USE SideIndex, LabelTypes, QuietMoves DEF Filling, Seeking
<1>1. CASE CallAcquireCurrent
  <2>1. UNCHANGED <<ring, read_pos, write_pos, stop_requested, error_ready,
                    consumer_current, storage, contents, index, sent, delivered>>
    BY <1>1 DEF CallAcquireCurrent, rings, flags
  <2>2. /\ pc' \in [Threads -> Labels] /\ pc'[Consumer] = "enter"
        /\ pc'[Producer] = pc[Producer] /\ block' \in BOOLEAN
    BY <1>1 DEF CallAcquireCurrent, Goto, DataInv
  <2> QED BY <2>1, <2>2 DEF DataInv
<1>2. CASE AcquireCurrentEnter BY <1>2, QuietStep DEF AcquireCurrentEnter
<1>3. CASE AcquireCurrentAcquire
  <2>1. Goto(Consumer, "acquire", "acquired") \/ Goto(Consumer, "acquire", "idle")
    BY <1>3, TakeTokenQuiet DEF AcquireCurrentAcquire
  <2>2. UNCHANGED <<rings, flags, data>>
    BY <1>3, TakeTokenQuiet DEF AcquireCurrentAcquire
  <2> QED BY <2>1, <2>2, QuietStep
<1>4. CASE AcquireCurrentAcquired
  BY <1>4, CountDownQuiet, QuietStep DEF AcquireCurrentAcquired
<1>5. CASE AcquireCurrentErrorCheck BY <1>5, QuietStep DEF AcquireCurrentErrorCheck
<1>6. CASE AcquireCurrentPop
  <2>1. CASE RingEmpty("filled")
    <3>1. Goto(Consumer, "pop_filled", "stop_check") /\ UNCHANGED <<rings, flags, data>>
      BY <1>6, <2>1 DEF AcquireCurrentPop, data
    <3> QED BY <3>1, QuietStep
  <2>2. CASE ~RingEmpty("filled")
    <3>1. /\ Goto(Consumer, "pop_filled", "idle")
          /\ consumer_current' = RingHead("filled")
          /\ delivered' = Append(delivered, contents[RingHead("filled")])
          /\ PopIndex("filled")
          /\ UNCHANGED <<stop_requested, error_ready, storage, contents, index,
                         block, sent>>
      BY <1>6, <2>2 DEF AcquireCurrentPop, flags
    <3>2. RingHead("filled") \in Index /\ read_pos' \in [Side -> 0 .. PosMod - 1]
      BY <3>1, PopTypes
    <3>3. delivered' \in Seq(0 .. MaxChunks) BY <3>1, <3>2 DEF DataInv
    <3>4. /\ pc' \in [Threads -> Labels]
          /\ pc'[Consumer] = "idle" /\ pc'[Producer] = pc[Producer]
      BY <3>1 DEF Goto, DataInv
    <3> QED BY <3>1, <3>2, <3>3, <3>4 DEF DataInv, PopIndex
  <2> QED BY <2>1, <2>2
<1>7. CASE AcquireCurrentStopCheck BY <1>7, QuietStep DEF AcquireCurrentStopCheck
<1> QED BY <1>1, <1>2, <1>3, <1>4, <1>5, <1>6, <1>7 DEF acquireCurrent

LEMMA SwitchToNextData == ASSUME DataInv, switchToNext PROVE DataInv'
<1> USE SideIndex, LabelTypes, QuietMoves DEF Filling, Seeking
<1>1. CASE CallSwitchToNext
  <2>1. UNCHANGED <<ring, read_pos, write_pos, stop_requested, error_ready,
                    consumer_current, storage, contents, index, sent, delivered>>
    BY <1>1 DEF CallSwitchToNext, rings, flags
  <2>2. /\ pc' \in [Threads -> Labels] /\ pc'[Consumer] = "switch"
        /\ pc'[Producer] = pc[Producer] /\ block' \in BOOLEAN
    BY <1>1 DEF CallSwitchToNext, Goto, DataInv
  <2> QED BY <2>1, <2>2 DEF DataInv
<1>2. CASE SwitchExchange
  <2>1. CASE error_ready
    <3>1. Goto(Consumer, "switch", "quit") /\ UNCHANGED <<rings, flags, data>>
      BY <1>2, <2>1 DEF SwitchExchange, data
    <3> QED BY <3>1, QuietStep
  <2>2. CASE ~error_ready
    <3>1. /\ Goto(Consumer, "switch", IF consumer_current # None THEN "recycle_push"
                                      ELSE "enter")
          /\ index' = [index EXCEPT ![Consumer] = consumer_current]
          /\ consumer_current' = None
          /\ UNCHANGED <<ring, read_pos, write_pos, stop_requested, error_ready,
                         storage, contents, block, sent, delivered>>
      BY <1>2, <2>2 DEF SwitchExchange, rings, flags
    <3>2. /\ pc' \in [Threads -> Labels] /\ pc'[Producer] = pc[Producer]
          /\ pc'[Consumer] = "recycle_push" => consumer_current # None
      BY <3>1 DEF Goto, DataInv
    <3>3. /\ index' \in [{Producer, Consumer} -> Index \cup {None}]
          /\ index'[Producer] = index[Producer] /\ index'[Consumer] = consumer_current
      BY <3>1 DEF DataInv
    <3>4. consumer_current \in Index \cup {None} BY DEF DataInv
    <3> QED BY <3>1, <3>2, <3>3, <3>4 DEF DataInv
  <2> QED BY <2>1, <2>2
<1>3. CASE SwitchPush
  <2>1. CASE RingFull("empty")
    <3>1. Goto(Consumer, "recycle_push", "quit") /\ UNCHANGED <<rings, flags, data>>
      BY <1>3, <2>1 DEF SwitchPush, data
    <3> QED BY <3>1, QuietStep
  <2>2. CASE ~RingFull("empty")
    <3>1. /\ Goto(Consumer, "recycle_push", "recycle")
          /\ PushIndex("empty", index[Consumer])
          /\ index' = [index EXCEPT ![Consumer] = None]
          /\ UNCHANGED <<stop_requested, error_ready, consumer_current, storage,
                         contents, block, sent, delivered>>
      BY <1>3, <2>2 DEF SwitchPush, flags
    <3>2. /\ pc' \in [Threads -> Labels] /\ pc[Consumer] = "recycle_push"
          /\ pc'[Consumer] = "recycle" /\ pc'[Producer] = pc[Producer]
      BY <3>1 DEF Goto, DataInv
    <3>3. index[Consumer] \in Index BY <3>2 DEF DataInv
    <3>4. /\ index' \in [{Producer, Consumer} -> Index \cup {None}]
          /\ index'[Producer] = index[Producer]
      BY <3>1 DEF DataInv
    <3>5. /\ ring' \in [Side -> [Index -> Index]]
          /\ read_pos' \in [Side -> 0 .. PosMod - 1]
          /\ write_pos' \in [Side -> 0 .. PosMod - 1]
      BY <3>1, <3>3, PushTypes
    <3> QED BY <3>1, <3>2, <3>4, <3>5 DEF DataInv
  <2> QED BY <2>1, <2>2
<1>4. CASE SwitchToken
  <2>1. /\ \/ Goto(Consumer, "recycle", "recycle_post") \/ Goto(Consumer, "recycle", "enter")
           \/ Goto(Consumer, "recycle_post", "enter")
        /\ UNCHANGED <<rings, flags, data>>
    BY <1>4, SafeReleaseQuiet DEF SwitchToken
  <2> QED BY <2>1, QuietStep
<1> QED BY <1>1, <1>2, <1>3, <1>4 DEF switchToNext

(* A thread that sets a flag and moves on.                                 *)
LEMMA FlagStep ==
    ASSUME DataInv, NEW t \in Threads, NEW from, NEW to \in {"stop_store", "stop_empty"},
           Goto(t, from, to), UNCHANGED <<rings, data>>,
           stop_requested' \in BOOLEAN, error_ready' \in BOOLEAN
    PROVE  DataInv'
<1>1. UNCHANGED <<ring, read_pos, write_pos, consumer_current, storage, contents,
                  index, block, sent, delivered>>
  BY DEF rings, data
<1>2. /\ pc' \in [Threads -> Labels]
      /\ pc'[Producer] = pc[Producer] \/ pc'[Producer] \in {"stop_store", "stop_empty"}
      /\ pc'[Consumer] = pc[Consumer] \/ pc'[Consumer] \in {"stop_store", "stop_empty"}
  BY SideIndex, LabelTypes DEF DataInv, Goto
<1> QED BY <1>1, <1>2 DEF DataInv, Filling, Seeking

LEMMA StopData ==
    ASSUME DataInv, NEW t \in Threads,
           CallRequestStop(t) \/ publishError(t) \/ requestStopWakeup(t)
    PROVE  DataInv'
<1> USE LabelTypes DEF Filling, Seeking
<1>1. CASE CallRequestStop(t) BY <1>1, QuietStep DEF CallRequestStop
<1>2. CASE publishError(t) BY <1>2, FlagStep DEF publishError, DataInv
<1>3. CASE StopStore(t) BY <1>3, FlagStep DEF StopStore, DataInv
<1>4. CASE StopToken(t)
  <2>1. /\ \/ Goto(t, "stop_empty", "stop_empty_post") \/ Goto(t, "stop_empty", "stop_filled")
           \/ Goto(t, "stop_empty_post", "stop_filled")
           \/ Goto(t, "stop_filled", "stop_filled_post")
           \/ Goto(t, "stop_filled", AfterStop(t)) \/ Goto(t, "stop_filled_post", AfterStop(t))
        /\ UNCHANGED <<rings, flags, data>>
    BY <1>4, SafeReleaseQuiet DEF StopToken
  <2>2. AfterStop(t) \in {"quit", "idle"} BY DEF AfterStop
  <2> QED BY <2>1, <2>2, QuietStep
<1> QED BY <1>1, <1>2, <1>3, <1>4 DEF requestStopWakeup

LEMMA DataInvNext == DataInv /\ [Next]_vars => DataInv'
<1> SUFFICES ASSUME DataInv, [Next]_vars PROVE DataInv' OBVIOUS
<1>1. CASE ProducerNext
  BY <1>1, SideIndex, AcquireEmptyData, ProduceData, StopData DEF ProducerNext
<1>2. CASE ConsumerNext BY <1>2, AcquireCurrentData, SwitchToNextData DEF ConsumerNext
<1>3. ASSUME NEW t \in Stoppers, StopperNext(t) PROVE DataInv'
  BY <1>3, SideIndex, StopData DEF StopperNext
<1>4. CASE Initialize \/ Reset
  <2>1. Rearm /\ storage' \in BOOLEAN BY <1>4 DEF Initialize, Reset, DataInv
  <2> QED BY <2>1, RearmDataStep
<1>5. CASE UNCHANGED vars BY <1>5 DEF vars, rings, flags, data, DataInv
<1> QED BY <1>1, <1>2, <1>3, <1>4, <1>5 DEF Next

(* Every variable of the triple buffer keeps its type; in particular both  *)
(* semaphores and both counts stay between 0 and buffer_count.             *)
THEOREM TypeOKAlways == Spec => []TypeOK
<1>1. TokenInv /\ ReleaseWithinMax /\ DataInv => TypeOK
  <2> SUFFICES ASSUME TokenInv, ReleaseWithinMax, DataInv PROVE TypeOK OBVIOUS
  <2>1. ASSUME NEW s \in Side
        PROVE  semaphore[s] \in 0 .. buffer_count /\ count[s] \in 0 .. buffer_count
    <3>1. Cardinality(Posting(s)) \in Nat
      BY ThreadsFinite, FS_Subset, FS_CardinalityType DEF Posting
    <3>2. semaphore[s] \in Nat /\ count[s] \in Nat /\ count[s] <= buffer_count
      BY DEF TokenInv, TokenTypes
    <3> QED BY <3>1, <3>2 DEF ReleaseWithinMax
  <2>2. semaphore \in [Side -> 0 .. buffer_count] /\ count \in [Side -> 0 .. buffer_count]
    BY <2>1 DEF TokenInv, TokenTypes
  <2> QED BY <2>2 DEF DataInv, TypeOK, Labels
<1>2. Spec => []DataInv BY DataInvInit, DataInvNext, PTL DEF Spec
<1> QED BY <1>1, <1>2, TokenInvAlways, ReleaseWithinMaxAlways, PTL

=============================================================================
