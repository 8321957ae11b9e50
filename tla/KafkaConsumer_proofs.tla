------------------------- MODULE KafkaConsumer_proofs -------------------------
(***************************************************************************)
(* Proofs about the Kafka consumer, for any number of consumers and        *)
(* events, any size of the cache and any faults: types, that no event is   *)
(* passed over unseen, that the group never goes back, and that a process  *)
(* whose cache has room for all ids dispatches an event once.              *)
(*                                                                         *)
(* NothingSkipped is not inductive: a commit covers everything before its  *)
(* offset.  The invariant adds that a consumer, whether or not it still    *)
(* owns the partition, has attempted all it has read but the message it    *)
(* works on (ReadIsAttempted), and that what its process remembers was     *)
(* attempted, or is what it works on (MarkedIsAttempted).                  *)
(***************************************************************************)
EXTENDS KafkaConsumer, DedupCache_proofs

AtWork == {"received", "dispatch", "commit"}

\* A consumer works on the last message it has read.
WorksOnLast ==
  \A c \in Consumers : at[c] \in AtWork => position[c] = working[c] /\ working[c] # 0

\* The owner of the partition has read at least what the group has committed.
OwnerAhead == owner # None => position[owner] # None /\ committed <= position[owner]

\* What a consumer has read it has attempted, but for the message it works on.
ReadIsAttempted ==
  \A c \in Consumers : position[c] # None =>
    \A i \in 1 .. position[c] :
      \/ Attempted(i)
      \/ i = working[c] /\ at[c] \in {"received", "dispatch"}

\* What a process remembers was attempted, or is what it is dispatching.
MarkedIsAttempted ==
  \A c \in Consumers : \A e \in Range(cache[c]) :
    \/ outcome[e] # {}
    \/ at[c] = "dispatch" /\ Event(c) = e

Inv ==
  /\ TypeOK
  /\ WorksOnLast
  /\ OwnerAhead
  /\ ReadIsAttempted
  /\ MarkedIsAttempted
  /\ NothingSkipped

(***************************************************************************)
(* Steps that several actions take.                                        *)
(***************************************************************************)
\* What was attempted stays so: messages stay where they are, outcomes are added.
LEMMA AttemptsStay ==
  ASSUME TypeOK, TypeOK',
         \A i \in 1 .. Len(log) : log'[i] = log[i],
         Len(log) <= Len(log'),
         \A e \in Events : outcome[e] \subseteq outcome'[e],
         NEW i \in Nat \ {0}, Attempted(i)
  PROVE  Attempted(i)'
<1>1. i \in 1 .. Len(log) /\ log[i] \in Events /\ Len(log') \in Nat
  BY DEF TypeOK, Attempted
<1>2. log'[i] = log[i] /\ i <= Len(log')
  BY <1>1
<1>3. outcome'[log[i]] # {}
  BY <1>1 DEF Attempted
<1> QED BY <1>2, <1>3 DEF Attempted

\* Marks stay true of a step that touches neither them nor a dispatch.
LEMMA MarksStay ==
  ASSUME MarkedIsAttempted, UNCHANGED <<log, cache, outcome>>,
         \A d \in Consumers : at[d] = "dispatch" => at'[d] = "dispatch" /\ working'[d] = working[d]
  PROVE  MarkedIsAttempted'
<1> SUFFICES ASSUME NEW d \in Consumers, NEW e \in Range(cache[d]), outcome[e] = {}
             PROVE  at'[d] = "dispatch" /\ Event(d)' = e
  BY DEF MarkedIsAttempted
<1>1. at[d] = "dispatch" /\ Event(d) = e
  BY DEF MarkedIsAttempted
<1> QED BY <1>1 DEF Event

\* A process that ends leaves its memory empty and its partition to others.
LEMMA DiesStep ==
  ASSUME Inv, NEW c \in Consumers, Dies(c), UNCHANGED <<outcome, expired>>,
         errors' \in 0 .. MaxErrors
  PROVE  Inv' /\ committed' >= committed
<1> USE DEF Dies, Leaves, Goto
<1>1. TypeOK'
  <2>1. cache' \in [Consumers -> Seq(Events \ Unnamed)] /\ \A d \in Consumers : Len(cache'[d]) <= CacheSize
    BY CacheSizeAssumption DEF Inv, TypeOK
  <2>2. dispatched' \in [Consumers -> [Events -> Nat]]
    BY DEF Inv, TypeOK
  <2> QED BY <2>1, <2>2 DEF Inv, TypeOK, Places
<1>2. WorksOnLast'
  BY DEF Inv, TypeOK, WorksOnLast, AtWork
<1>3. OwnerAhead'
  BY DEF Inv, TypeOK, OwnerAhead
<1>4. ReadIsAttempted'
  BY DEF Inv, TypeOK, ReadIsAttempted, Attempted
<1>5. MarkedIsAttempted'
  <2>1. Range(cache'[c]) = {}
    BY DEF Inv, TypeOK, Range
  <2>2. ASSUME NEW d \in Consumers, d # c PROVE cache'[d] = cache[d] /\ at'[d] = at[d] /\ Event(d)' = Event(d)
    BY <2>2 DEF Inv, TypeOK, Event
  <2> QED BY <2>1, <2>2 DEF Inv, MarkedIsAttempted
<1>6. NothingSkipped'
  BY DEF Inv, NothingSkipped, Attempted
<1> QED BY <1>1, <1>2, <1>3, <1>4, <1>5, <1>6 DEF Inv, TypeOK

\* The coordinator accepts the commit of a message that was attempted.
LEMMA CommitStep ==
  ASSUME Inv, NEW c \in Consumers, Commits(c), at[c] \in AtWork, Goto(c, "polling"),
         Attempted(working[c]),
         cache' \in [Consumers -> Seq(Events \ Unnamed)],
         \A d \in Consumers : Len(cache'[d]) <= CacheSize,
         \A d \in Consumers : Range(cache'[d]) \subseteq Range(cache[d]),
         at[c] # "dispatch",
         UNCHANGED <<log, owner, members, position, working, dispatched, outcome, faults>>
  PROVE  Inv' /\ committed' >= committed
<1> USE DEF Commits, Goto, faults
<1>0. /\ position[c] = working[c] /\ working[c] # 0 /\ working[c] \in 0 .. Len(log)
      /\ committed <= position[c]
  BY NoneAssumption DEF Inv, TypeOK, WorksOnLast, OwnerAhead
<1>1. TypeOK'
  BY <1>0 DEF Inv, TypeOK, Places
<1>2. WorksOnLast'
  <2>1. at \in [Consumers -> Places]
    BY DEF Inv, TypeOK
  <2>2. \A d \in Consumers : at'[d] \in AtWork => at[d] \in AtWork
    BY <2>1 DEF AtWork
  <2> QED BY <2>2 DEF Inv, WorksOnLast
<1>3. OwnerAhead'
  BY <1>0 DEF Inv, TypeOK, OwnerAhead
<1>a. \A i \in 1 .. working[c] : Attempted(i)
  <2>1. position[c] # None
    BY <1>0, NoneAssumption DEF Inv, TypeOK
  <2> QED BY <2>1, <1>0 DEF Inv, ReadIsAttempted
<1>4. ReadIsAttempted'
  <2> SUFFICES ASSUME NEW d \in Consumers, position[d] # None, NEW i \in 1 .. position[d]
               PROVE  \/ Attempted(i)
                      \/ i = working[d] /\ at'[d] \in {"received", "dispatch"}
    BY DEF ReadIsAttempted, Attempted
  <2>1. CASE d = c BY <2>1, <1>0, <1>a
  <2>2. CASE d # c BY <2>2 DEF Inv, TypeOK, ReadIsAttempted
  <2> QED BY <2>1, <2>2
<1>5. MarkedIsAttempted'
  <2> SUFFICES ASSUME NEW d \in Consumers, NEW e \in Range(cache[d]), outcome[e] = {}
               PROVE  at'[d] = "dispatch" /\ Event(d) = e
    BY DEF MarkedIsAttempted, Event
  <2> QED BY DEF Inv, TypeOK, MarkedIsAttempted
<1>6. NothingSkipped'
  BY <1>a DEF NothingSkipped, Attempted
<1> QED BY <1>0, <1>1, <1>2, <1>3, <1>4, <1>5, <1>6 DEF Inv, TypeOK

\* A dispatch that ends, well or badly, is an attempt at the event.
LEMMA AttemptStep ==
  ASSUME Inv, NEW c \in Consumers, at[c] = "dispatch",
         NEW way \in {"handled", "failed"}, Ends(Event(c), way), Counted(c, Event(c)),
         NEW place \in {"commit", "polling"}, Goto(c, place),
         UNCHANGED <<log, group, position, working, cache, faults>>
  PROVE  Inv' /\ committed' >= committed
<1> USE DEF Goto, group, faults
<1>0. working[c] \in 1 .. Len(log) /\ Event(c) \in Events /\ Event(c) = log[working[c]]
  BY DEF Inv, TypeOK, WorksOnLast, AtWork, Event
<1>1. TypeOK'
  <2>1. outcome' \in [Events -> SUBSET {"handled", "failed"}]
    BY <1>0 DEF Ends, Inv, TypeOK
  <2>2. dispatched' \in [Consumers -> [Events -> Nat]]
    <3>1. dispatched \in [Consumers -> [Events -> Nat]]
      BY DEF Inv, TypeOK
    <3> QED BY <3>1, <1>0 DEF Counted
  <2> QED BY <2>1, <2>2 DEF Inv, TypeOK, Places
<1>a. /\ \A e \in Events : outcome[e] \subseteq outcome'[e]
      /\ outcome'[Event(c)] # {}
  BY <1>0 DEF Ends, Inv, TypeOK
<1>b. \A i \in Nat \ {0} : Attempted(i) => Attempted(i)'
  <2>1. TypeOK /\ Len(log) \in Nat
    BY DEF Inv, TypeOK
  <2> QED BY <2>1, <1>1, <1>a, AttemptsStay
<1>c. Attempted(working[c])'
  BY <1>0, <1>a DEF Attempted
<1>2. WorksOnLast'
  BY DEF Inv, TypeOK, WorksOnLast, AtWork
<1>3. OwnerAhead'
  BY DEF Inv, OwnerAhead
<1>4. ReadIsAttempted'
  <2> SUFFICES ASSUME NEW d \in Consumers, position[d] # None, NEW i \in 1 .. position[d]
               PROVE  \/ Attempted(i)'
                      \/ i = working[d] /\ at'[d] \in {"received", "dispatch"}
    BY DEF ReadIsAttempted
  <2>0. position[d] \in Nat /\ i \in Nat \ {0}
    BY DEF Inv, TypeOK
  <2>1. CASE d = c BY <2>0, <2>1, <1>b, <1>c DEF Inv, ReadIsAttempted
  <2>2. CASE d # c BY <2>0, <2>2, <1>b DEF Inv, TypeOK, ReadIsAttempted
  <2> QED BY <2>1, <2>2
<1>5. MarkedIsAttempted'
  <2> SUFFICES ASSUME NEW d \in Consumers, NEW e \in Range(cache[d]), outcome'[e] = {}
               PROVE  at'[d] = "dispatch" /\ Event(d) = e
    BY DEF MarkedIsAttempted, Event
  <2>0. e \in Events
    BY DEF Inv, TypeOK, Range
  <2>1. outcome[e] = {} /\ e # Event(c)
    BY <2>0, <1>a
  <2>2. d # c /\ at[d] = "dispatch" /\ Event(d) = e
    BY <2>1 DEF Inv, MarkedIsAttempted
  <2> QED BY <2>2 DEF Inv, TypeOK
<1>6. NothingSkipped'
  BY <1>b DEF Inv, TypeOK, NothingSkipped
<1>7. committed' >= committed
  BY DEF Inv, TypeOK
<1> QED BY <1>1, <1>2, <1>3, <1>4, <1>5, <1>6, <1>7 DEF Inv

(***************************************************************************)
(* The steps.                                                              *)
(***************************************************************************)
\* Each step keeps the invariant, and none takes the group back.
LEMMA ProgressStep ==
  ASSUME Inv, NEW c \in Consumers, Progress(c)
  PROVE  Inv' /\ committed' >= committed
<1>1. CASE Join(c)
  <2> USE DEF Join, faults, Inv, TypeOK
  <2>1. TypeOK' BY <1>1
  <2>2. WorksOnLast' BY <1>1 DEF WorksOnLast, AtWork
  <2>3. OwnerAhead' BY <1>1, NoneAssumption DEF OwnerAhead
  <2>4. ReadIsAttempted' BY <1>1 DEF ReadIsAttempted, Attempted
  <2>5. MarkedIsAttempted' BY <1>1, MarksStay
  <2>6. NothingSkipped' BY <1>1 DEF NothingSkipped, Attempted
  <2> QED BY <1>1, <2>1, <2>2, <2>3, <2>4, <2>5, <2>6
<1>2. CASE Poll(c)
  <2> USE DEF Poll, Goto, group, faults
  <2>a. /\ position \in [Consumers -> 0 .. Len(log) \cup {None}]
        /\ working \in [Consumers -> 0 .. Len(log)]
        /\ at \in [Consumers -> Places]
        /\ Len(log) \in Nat /\ committed \in Nat
    BY DEF Inv, TypeOK
  <2>0. position[c] \in Nat /\ position[c] + 1 \in 1 .. Len(log)
    BY <1>2, <2>a
  <2>b. /\ UNCHANGED <<log, outcome, cache, committed, owner, members, dispatched, expired, errors>>
        /\ position' = [position EXCEPT ![c] = @ + 1]
        /\ working' = [working EXCEPT ![c] = position[c] + 1]
        /\ at' = [at EXCEPT ![c] = "received"] /\ at[c] = "polling"
    BY <1>2
  <2> HIDE DEF Poll
  <2>1. TypeOK'
    <3>1. /\ position' \in [Consumers -> 0 .. Len(log) \cup {None}]
          /\ working' \in [Consumers -> 0 .. Len(log)]
          /\ at' \in [Consumers -> Places]
      BY <2>0, <2>a, <2>b DEF Places
    <3> QED BY <3>1, <2>b DEF Inv, TypeOK
  <2>2. WorksOnLast' BY <2>0, <2>a, <2>b DEF Inv, WorksOnLast, AtWork
  <2>3. OwnerAhead' BY <2>0, <2>a, <2>b, NoneAssumption DEF Inv, OwnerAhead
  <2>4. ReadIsAttempted'
    <3> SUFFICES ASSUME NEW d \in Consumers, position'[d] # None, NEW i \in 1 .. position'[d]
                 PROVE  \/ Attempted(i)
                        \/ i = working'[d] /\ at'[d] \in {"received", "dispatch"}
      BY <2>b DEF ReadIsAttempted, Attempted
    <3>0. position[d] # None => \A j \in 1 .. position[d] :
             \/ Attempted(j)
             \/ j = working[d] /\ at[d] \in {"received", "dispatch"}
      BY DEF Inv, ReadIsAttempted
    <3>1. CASE d = c
      <4>1. position'[c] = position[c] + 1 /\ working'[c] = position[c] + 1 /\ at'[c] = "received"
        BY <2>b, <2>a
      <4>2. CASE i = position[c] + 1 BY <3>1, <4>1, <4>2
      <4>3. CASE i # position[c] + 1
        <5>1. i \in 1 .. position[c] /\ position[c] # None
          BY <3>1, <4>1, <4>3, <2>0, NoneAssumption
        <5> QED BY <3>0, <3>1, <5>1, <2>b
      <4> QED BY <4>2, <4>3
    <3>2. CASE d # c
      <4>1. position'[d] = position[d] /\ working'[d] = working[d] /\ at'[d] = at[d]
        BY <2>a, <2>b, <3>2
      <4> QED BY <4>1, <3>0
    <3> QED BY <3>1, <3>2
  <2>5. MarkedIsAttempted'
    <3>1. \A d \in Consumers : at[d] = "dispatch" => at'[d] = "dispatch" /\ working'[d] = working[d]
      BY <2>a, <2>b
    <3> QED BY <3>1, <2>b, MarksStay DEF Inv
  <2>6. NothingSkipped' BY <2>b DEF Inv, NothingSkipped, Attempted
  <2>7. committed' >= committed BY <2>a, <2>b
  <2> QED BY <2>1, <2>2, <2>3, <2>4, <2>5, <2>6, <2>7 DEF Inv
<1>3. CASE DecodeFails(c)
  BY <1>3, DiesStep DEF DecodeFails, faults, Inv, TypeOK
<1>4. CASE IgnoreDuplicate(c)
  <2>1. Event(c) \in Range(cache[c]) /\ cache[c] \in Seq(Events \ Unnamed)
    BY <1>4 DEF IgnoreDuplicate, Known, Inv, TypeOK
  <2>2. Attempted(working[c])
    <3>1. outcome[Event(c)] # {}
      BY <1>4, <2>1 DEF IgnoreDuplicate, Inv, MarkedIsAttempted
    <3>2. working[c] <= Len(log)
      BY DEF Inv, TypeOK
    <3> QED BY <3>1, <3>2 DEF Event, Attempted
  <2>3. /\ Touch(cache[c], Event(c)) \in Seq(Events \ Unnamed)
        /\ Len(Touch(cache[c], Event(c))) = Len(cache[c])
        /\ Range(Touch(cache[c], Event(c))) \subseteq Range(cache[c])
    BY <2>1, TouchReorders
  <2>4. /\ cache' \in [Consumers -> Seq(Events \ Unnamed)]
        /\ \A d \in Consumers : Len(cache'[d]) <= CacheSize
        /\ \A d \in Consumers : Range(cache'[d]) \subseteq Range(cache[d])
    BY <1>4, <2>3 DEF IgnoreDuplicate, Inv, TypeOK
  <2> QED BY <1>4, <2>2, <2>4, CommitStep DEF IgnoreDuplicate, AtWork
<1>5. CASE DuplicateCommitFails(c)
  <2>1. errors' \in 0 .. MaxErrors
    BY <1>5, BoundsAssumption DEF DuplicateCommitFails, CommitRefused, Inv, TypeOK
  <2> QED BY <1>5, <2>1, DiesStep DEF DuplicateCommitFails
<1>6. CASE Mark(c)
  <2> DEFINE e == Event(c)
  <2>0. e \in Events
    BY <1>6 DEF Mark, Inv, TypeOK, WorksOnLast, AtWork, Event
  <2>1. /\ Remember(cache[c], e) \in Seq(Events \ Unnamed)
        /\ Len(Remember(cache[c], e)) <= CacheSize
        /\ Range(Remember(cache[c], e)) \subseteq Range(cache[c]) \cup {e}
    BY <2>0, RememberFits DEF Inv, TypeOK
  <2> HIDE DEF e
  <2>2. cache' = [cache EXCEPT ![c] = Remember(cache[c], e)]
    BY <1>6 DEF Mark, e
  <2>3. TypeOK' BY <1>6, <2>1, <2>2 DEF Mark, Goto, group, faults, Inv, TypeOK, Places
  <2>4. WorksOnLast' BY <1>6 DEF Mark, Goto, Inv, TypeOK, WorksOnLast, AtWork
  <2>5. OwnerAhead' BY <1>6 DEF Mark, group, Inv, OwnerAhead
  <2>6. ReadIsAttempted' BY <1>6 DEF Mark, Goto, group, Inv, TypeOK, ReadIsAttempted, Attempted
  <2>7. MarkedIsAttempted'
    <3> SUFFICES ASSUME NEW d \in Consumers, NEW x \in Range(cache'[d]), outcome[x] = {}
                 PROVE  at'[d] = "dispatch" /\ Event(d) = x
      BY <1>6 DEF Mark, MarkedIsAttempted, Event
    <3>1. CASE d = c
      <4>1. x \notin Range(cache[c])
        BY <1>6 DEF Mark, Inv, MarkedIsAttempted
      <4>2. x = e
        BY <3>1, <4>1, <2>1, <2>2 DEF Inv, TypeOK
      <4> QED BY <3>1, <4>2, <1>6 DEF Mark, Goto, Inv, TypeOK, e
    <3>2. CASE d # c
      BY <3>2, <2>2, <1>6 DEF Mark, Goto, Inv, TypeOK, MarkedIsAttempted
    <3> QED BY <3>1, <3>2
  <2>8. NothingSkipped' BY <1>6 DEF Mark, group, Inv, NothingSkipped, Attempted
  <2> QED BY <1>6, <2>3, <2>4, <2>5, <2>6, <2>7, <2>8 DEF Mark, group, Inv, TypeOK
<1>7. CASE Dispatch(c)
  BY <1>7, AttemptStep DEF Dispatch
<1>8. CASE DispatchFails(c)
  BY <1>8, AttemptStep DEF DispatchFails
<1>9. CASE Commit(c)
  <2>1. Attempted(working[c])
    <3>1. /\ position[c] = working[c] /\ working[c] \in 1 .. Len(log)
          /\ position[c] # None /\ at[c] = "commit"
      BY <1>9, NoneAssumption DEF Commit, Inv, TypeOK, WorksOnLast, AtWork
    <3> QED BY <3>1 DEF Inv, ReadIsAttempted
  <2> QED BY <1>9, <2>1, CommitStep DEF Commit, AtWork, Inv, TypeOK
<1>10. CASE CommitFails(c)
  <2> USE DEF CommitFails, CommitRefused, Goto, group, faults, Inv, TypeOK
  <2>1. TypeOK' BY <1>10, BoundsAssumption DEF Places
  <2>2. WorksOnLast' BY <1>10 DEF WorksOnLast, AtWork
  <2>3. OwnerAhead' BY <1>10 DEF OwnerAhead
  <2>4. ReadIsAttempted' BY <1>10 DEF ReadIsAttempted, Attempted
  <2>5. MarkedIsAttempted' BY <1>10, MarksStay
  <2>6. NothingSkipped' BY <1>10 DEF NothingSkipped, Attempted
  <2> QED BY <1>10, <2>1, <2>2, <2>3, <2>4, <2>5, <2>6
<1>11. CASE Start(c)
  <2> USE DEF Start, Goto, group, faults, Inv, TypeOK
  <2>1. TypeOK' BY <1>11, BoundsAssumption DEF Places
  <2>2. WorksOnLast' BY <1>11 DEF WorksOnLast, AtWork
  <2>3. OwnerAhead' BY <1>11 DEF OwnerAhead
  <2>4. ReadIsAttempted' BY <1>11 DEF ReadIsAttempted, Attempted
  <2>5. MarkedIsAttempted' BY <1>11, MarksStay
  <2>6. NothingSkipped' BY <1>11 DEF NothingSkipped, Attempted
  <2> QED BY <1>11, <2>1, <2>2, <2>3, <2>4, <2>5, <2>6
<1> QED
  BY <1>1, <1>2, <1>3, <1>4, <1>5, <1>6, <1>7, <1>8, <1>9, <1>10, <1>11 DEF Progress

LEMMA NextStep ==
  ASSUME Inv, [Next]_vars
  PROVE  Inv' /\ committed' >= committed
<1>1. ASSUME NEW e \in Events, Produce(e) PROVE Inv' /\ committed' >= committed
  <2>0. /\ Len(log') = Len(log) + 1 /\ log' \in Seq(Events)
        /\ \A i \in 1 .. Len(log) : log'[i] = log[i]
    BY <1>1 DEF Produce, Inv, TypeOK
  <2>1. TypeOK'
    <3>1. Len(log) \in Nat /\ Len(log') <= MaxLog /\ 0 .. Len(log) \subseteq 0 .. Len(log')
      BY <1>1, <2>0, BoundsAssumption DEF Produce, Inv, TypeOK
    <3>2. /\ position \in [Consumers -> 0 .. Len(log') \cup {None}]
          /\ working \in [Consumers -> 0 .. Len(log')]
          /\ committed \in 0 .. Len(log')
      BY <3>1 DEF Inv, TypeOK
    <3> QED BY <1>1, <2>0, <3>1, <3>2 DEF Produce, group, process, faults, Inv, TypeOK
  <2>a. ASSUME NEW i \in Nat \ {0}, Attempted(i) PROVE Attempted(i)'
    <3>1. TypeOK /\ Len(log) <= Len(log') /\ \A f \in Events : outcome[f] \subseteq outcome'[f]
      BY <1>1, <2>0 DEF Produce, Inv, TypeOK
    <3> QED BY <2>0, <2>1, <2>a, <3>1, AttemptsStay
  <2>2. WorksOnLast' BY <1>1 DEF Produce, process, Inv, WorksOnLast
  <2>3. OwnerAhead' BY <1>1 DEF Produce, process, group, Inv, OwnerAhead
  <2>4. ReadIsAttempted'
    <3> SUFFICES ASSUME NEW d \in Consumers, position[d] # None, NEW i \in 1 .. position[d]
                 PROVE  \/ Attempted(i)'
                        \/ i = working[d] /\ at[d] \in {"received", "dispatch"}
      BY <1>1 DEF Produce, process, ReadIsAttempted
    <3>1. i \in Nat \ {0}
      BY DEF Inv, TypeOK
    <3> QED BY <3>1, <2>a DEF Inv, ReadIsAttempted
  <2>5. MarkedIsAttempted'
    <3> SUFFICES ASSUME NEW d \in Consumers, NEW x \in Range(cache[d]), outcome[x] = {}
                 PROVE  at[d] = "dispatch" /\ Event(d)' = x
      BY <1>1 DEF Produce, process, MarkedIsAttempted
    <3>1. at[d] = "dispatch" /\ Event(d) = x
      BY DEF Inv, MarkedIsAttempted
    <3>2. working[d] \in 1 .. Len(log) /\ working'[d] = working[d]
      BY <1>1, <3>1 DEF Produce, process, Inv, TypeOK, WorksOnLast, AtWork
    <3> QED BY <2>0, <3>1, <3>2 DEF Event
  <2>6. NothingSkipped'
    BY <1>1, <2>a DEF Produce, group, Inv, TypeOK, NothingSkipped
  <2>7. committed' >= committed BY <1>1 DEF Produce, group, Inv, TypeOK
  <2> QED BY <2>1, <2>2, <2>3, <2>4, <2>5, <2>6, <2>7 DEF Inv
<1>2. ASSUME NEW c \in Consumers, Progress(c) PROVE Inv' /\ committed' >= committed
  BY <1>2, ProgressStep
<1>3. ASSUME NEW c \in Consumers, Assign(c) PROVE Inv' /\ committed' >= committed
  <2> USE DEF Assign, faults, Inv, TypeOK
  <2>1. TypeOK' BY <1>3, BoundsAssumption
  <2>2. WorksOnLast' BY <1>3 DEF WorksOnLast, AtWork
  <2>3. OwnerAhead' BY <1>3, NoneAssumption DEF OwnerAhead
  <2>4. ReadIsAttempted' BY <1>3 DEF ReadIsAttempted, Attempted, NothingSkipped
  <2>5. MarkedIsAttempted' BY <1>3, MarksStay
  <2>6. NothingSkipped' BY <1>3 DEF NothingSkipped, Attempted
  <2> QED BY <1>3, <2>1, <2>2, <2>3, <2>4, <2>5, <2>6
<1>4. ASSUME NEW c \in Consumers, Revoke(c) PROVE Inv' /\ committed' >= committed
  <2> USE DEF Revoke, Inv, TypeOK
  <2>1. TypeOK' BY <1>4, BoundsAssumption
  <2>2. WorksOnLast' BY <1>4 DEF WorksOnLast, AtWork
  <2>3. OwnerAhead' BY <1>4, NoneAssumption DEF OwnerAhead
  <2>4. ReadIsAttempted' BY <1>4 DEF ReadIsAttempted, Attempted, NothingSkipped
  <2>5. MarkedIsAttempted' BY <1>4, MarksStay
  <2>6. NothingSkipped' BY <1>4 DEF NothingSkipped, Attempted
  <2> QED BY <1>4, <2>1, <2>2, <2>3, <2>4, <2>5, <2>6
<1>5. ASSUME NEW c \in Consumers, SessionExpires(c) PROVE Inv' /\ committed' >= committed
  <2> USE DEF SessionExpires, Leaves, process, Inv, TypeOK
  <2>1. TypeOK' BY <1>5, BoundsAssumption
  <2>2. WorksOnLast' BY <1>5 DEF WorksOnLast, AtWork
  <2>3. OwnerAhead' BY <1>5, NoneAssumption DEF OwnerAhead
  <2>4. ReadIsAttempted' BY <1>5 DEF ReadIsAttempted, Attempted, NothingSkipped
  <2>5. MarkedIsAttempted' BY <1>5, MarksStay
  <2>6. NothingSkipped' BY <1>5 DEF NothingSkipped, Attempted
  <2> QED BY <1>5, <2>1, <2>2, <2>3, <2>4, <2>5, <2>6
<1>6. ASSUME NEW c \in Consumers, Stops(c) PROVE Inv' /\ committed' >= committed
  <2>1. errors' \in 0 .. MaxErrors
    BY <1>6, BoundsAssumption DEF Stops, Inv, TypeOK
  <2> QED BY <1>6, <2>1, DiesStep DEF Stops
<1>7. CASE UNCHANGED vars
  <2> USE <1>7 DEF vars, group, process, faults, Inv
  <2>1. TypeOK' /\ committed' >= committed BY DEF TypeOK
  <2>2. WorksOnLast' /\ OwnerAhead' BY DEF WorksOnLast, OwnerAhead
  <2>3. ReadIsAttempted' BY DEF ReadIsAttempted, Attempted
  <2>4. MarkedIsAttempted' BY DEF MarkedIsAttempted, Event
  <2>5. NothingSkipped' BY DEF NothingSkipped, Attempted
  <2> QED BY <2>1, <2>2, <2>3, <2>4, <2>5
<1> QED BY <1>1, <1>2, <1>3, <1>4, <1>5, <1>6, <1>7 DEF Next

LEMMA InitInv == Init => Inv
<1> SUFFICES ASSUME Init PROVE Inv
  OBVIOUS
<1>1. TypeOK
  BY BoundsAssumption, CacheSizeAssumption DEF Init, TypeOK, Places
<1>2. MarkedIsAttempted
  BY DEF Init, MarkedIsAttempted, Range
<1> QED
  BY <1>1, <1>2 DEF Init, Inv, WorksOnLast, AtWork, OwnerAhead, ReadIsAttempted, NothingSkipped

\* The inductive invariant.
THEOREM KafkaInvariant == Spec => []Inv
<1> QED BY InitInv, NextStep, PTL DEF Spec

\* Consumers, coordinator and partition only hold what they should.
THEOREM KafkaTypeCorrect == Spec => []TypeOK
<1> QED BY KafkaInvariant, PTL DEF Inv

\* Whatever fails, the group passes over no event that nobody handled or failed on.
THEOREM NoEventSkipped == Spec => []NothingSkipped
<1> QED BY KafkaInvariant, PTL DEF Inv

\* The committed offset only grows, whoever wakes up with an old position.
THEOREM OffsetsGrow == Spec => CommittedNeverRewinds
<1>1. Inv /\ [Next]_vars => [committed' >= committed]_committed
  BY NextStep
<1> QED BY <1>1, KafkaInvariant, PTL DEF Spec, CommittedNeverRewinds

(***************************************************************************)
(* Dispatches.  While the cache has room for all events, what a process    *)
(* dispatches or has dispatched is in its cache; it dispatches one event   *)
(* at a time, and one it has not dispatched before.                        *)
(***************************************************************************)
Dispatching(c, e) == at[c] = "dispatch" /\ Event(c) = e

DispatchesOnce(c) ==
  /\ Distinct(cache[c])
  /\ \A e \in Events \ Unnamed :
       /\ dispatched[c][e] <= 1
       /\ dispatched[c][e] > 0 => e \in Range(cache[c])
       /\ Dispatching(c, e) => e \in Range(cache[c]) /\ dispatched[c][e] = 0

OnceInv == \A c \in Consumers : DispatchesOnce(c)

LEMMA OnceKept ==
  ASSUME NEW c \in Consumers, DispatchesOnce(c),
         cache'[c] = cache[c], dispatched'[c] = dispatched[c],
         \A e : Dispatching(c, e)' => Dispatching(c, e)
  PROVE  DispatchesOnce(c)'
BY DEF DispatchesOnce

\* A consumer leaves the others and the partition alone.
LEMMA OneMoves ==
  ASSUME Inv, NEW c \in Consumers,
         Progress(c) \/ Assign(c) \/ Revoke(c) \/ SessionExpires(c) \/ Stops(c)
  PROVE  /\ log' = log
         /\ \A d \in Consumers \ {c} :
              /\ cache'[d] = cache[d] /\ dispatched'[d] = dispatched[d]
              /\ at'[d] = at[d] /\ working'[d] = working[d]
<1> USE DEF Inv, TypeOK, Goto, group, process, Dies
<1>1. CASE Join(c) \/ Poll(c) \/ Mark(c) \/ Commit(c) \/ CommitFails(c) \/ Start(c)
  BY <1>1 DEF Join, Poll, Mark, Commit, CommitFails, Start
<1>2. CASE DecodeFails(c) \/ DuplicateCommitFails(c) \/ Stops(c)
  BY <1>2 DEF DecodeFails, DuplicateCommitFails, Stops
<1>3. CASE IgnoreDuplicate(c) \/ Assign(c) \/ Revoke(c) \/ SessionExpires(c)
  BY <1>3 DEF IgnoreDuplicate, Assign, Revoke, SessionExpires
<1>4. CASE Dispatch(c) \/ DispatchFails(c)
  BY <1>4 DEF Dispatch, DispatchFails, Counted
<1> QED BY <1>1, <1>2, <1>3, <1>4 DEF Progress

LEMMA OnceMarkStep ==
  ASSUME Inv, HasRoom(Events), NEW c \in Consumers, DispatchesOnce(c), Mark(c)
  PROVE  DispatchesOnce(c)'
<1> DEFINE e == Event(c)
<1>1. /\ e \in Events /\ cache[c] \in Seq(Events \ Unnamed) /\ ~Known(cache[c], e)
      /\ cache'[c] = Remember(cache[c], e) /\ e' = e /\ dispatched'[c] = dispatched[c]
  BY DEF Mark, Goto, group, Inv, TypeOK, WorksOnLast, AtWork, Event
<1>2. \A f : Dispatching(c, f)' => f = e
  BY <1>1 DEF Dispatching
<1> HIDE DEF e
<1>3. CASE e \in Unnamed
  BY <1>1, <1>2, <1>3 DEF Remember, DispatchesOnce
<1>4. CASE e \notin Unnamed
  <2>1. e \notin Range(cache[c])
    BY <1>1, <1>4 DEF Known
  <2>2. Range(cache'[c]) = Range(cache[c]) \cup {e} /\ Distinct(cache'[c])
    BY <1>1, <1>4, <2>1, RememberKeepsAll DEF DispatchesOnce
  <2>3. dispatched[c][e] = 0
    BY <1>1, <1>4, <2>1 DEF DispatchesOnce, Inv, TypeOK
  <2> QED BY <1>1, <1>2, <2>2, <2>3 DEF DispatchesOnce
<1> QED BY <1>3, <1>4

\* A dispatch counts the event at most once more and leaves "dispatch".
LEMMA OnceDispatchStep ==
  ASSUME Inv, NEW c \in Consumers, DispatchesOnce(c), Dispatch(c) \/ DispatchFails(c)
  PROVE  DispatchesOnce(c)'
<1> DEFINE e == Event(c)
<1>1. /\ Dispatching(c, e) /\ e \in Events /\ cache' = cache
      /\ \A f : ~Dispatching(c, f)'
      /\ \/ dispatched' = dispatched
         \/ dispatched' = [dispatched EXCEPT ![c][e] = @ + 1]
  BY DEF Dispatch, DispatchFails, Counted, Goto, Dispatching, Inv, TypeOK, WorksOnLast, AtWork,
     Event
<1> HIDE DEF e
<1>2. CASE dispatched' = dispatched
  BY <1>1, <1>2 DEF DispatchesOnce
<1>3. CASE dispatched' = [dispatched EXCEPT ![c][e] = @ + 1]
  <2>1. e \notin Unnamed => dispatched[c][e] = 0 /\ e \in Range(cache[c])
    BY <1>1 DEF DispatchesOnce
  <2>2. \A f \in Events : dispatched'[c][f] = dispatched[c][f] + IF f = e THEN 1 ELSE 0
    BY <1>3 DEF Inv, TypeOK
  <2>3. ASSUME NEW f \in Events \ Unnamed
        PROVE  dispatched'[c][f] <= 1 /\ (dispatched'[c][f] > 0 => f \in Range(cache[c]))
    <3>1. dispatched[c][f] <= 1 /\ (dispatched[c][f] > 0 => f \in Range(cache[c]))
      BY DEF DispatchesOnce
    <3>2. CASE f = e
      BY <2>1, <2>2, <3>2
    <3>3. CASE f # e
      <4>1. dispatched'[c][f] = dispatched[c][f]
        BY <2>2, <3>3 DEF Inv, TypeOK
      <4> QED BY <3>1, <4>1
    <3> QED BY <3>2, <3>3
  <2> QED BY <1>1, <2>3 DEF DispatchesOnce
<1> QED BY <1>1, <1>2, <1>3

LEMMA OnceStep ==
  ASSUME Inv, HasRoom(Events), OnceInv, [Next]_vars
  PROVE  OnceInv'
<1> USE DEF OnceInv
<1>1. CASE UNCHANGED vars
  BY <1>1, OnceKept DEF vars, process, Dispatching, Event
<1>2. ASSUME NEW e \in Events, Produce(e) PROVE OnceInv'
  <2> SUFFICES ASSUME NEW d \in Consumers PROVE DispatchesOnce(d)'
    OBVIOUS
  <2>1. UNCHANGED <<cache, dispatched, at, working>>
    BY <1>2 DEF Produce, process
  <2>2. at[d] = "dispatch" => Event(d)' = Event(d)
    BY <1>2, <2>1 DEF Produce, Event, Inv, TypeOK, WorksOnLast, AtWork
  <2> QED BY <2>1, <2>2, OnceKept DEF Dispatching
<1>3. ASSUME NEW c \in Consumers,
             Progress(c) \/ Assign(c) \/ Revoke(c) \/ SessionExpires(c) \/ Stops(c)
      PROVE  OnceInv'
  <2>1. ASSUME NEW d \in Consumers \ {c} PROVE DispatchesOnce(d)'
    BY <1>3, OneMoves, OnceKept DEF Dispatching, Event
  <2> SUFFICES DispatchesOnce(c)'
    BY <2>1
  <2>2. CASE Join(c) \/ Assign(c) \/ Revoke(c) \/ SessionExpires(c) \/ Poll(c) \/ Start(c)
             \/ Commit(c) \/ CommitFails(c)
    <3>1. cache' = cache /\ dispatched' = dispatched /\ log' = log
      BY <2>2 DEF Join, Assign, Revoke, SessionExpires, Poll, Start, Commit, CommitFails, process,
         group
    <3>2. at'[c] = "dispatch" => at[c] = "dispatch" /\ working'[c] = working[c]
      BY <2>2 DEF Join, Assign, Revoke, SessionExpires, Poll, Start, Commit, CommitFails, process,
         group, Goto, Inv, TypeOK
    <3> QED BY <3>1, <3>2, OnceKept DEF Dispatching, Event
  <2>3. CASE DecodeFails(c) \/ DuplicateCommitFails(c) \/ Stops(c)
    <3>1. cache'[c] = <<>> /\ at'[c] = "down" /\ \A e \in Events : dispatched'[c][e] = 0
      BY <2>3 DEF DecodeFails, DuplicateCommitFails, Stops, Dies, Goto, Inv, TypeOK
    <3>2. Distinct(<<>>)
      BY DEF Distinct
    <3> QED BY <3>1, <3>2 DEF DispatchesOnce, Dispatching
  <2>4. CASE IgnoreDuplicate(c)
    <3>1. /\ Event(c) \in Range(cache[c]) /\ cache[c] \in Seq(Events \ Unnamed)
          /\ cache'[c] = Touch(cache[c], Event(c))
          /\ dispatched' = dispatched /\ at'[c] = "polling"
      BY <2>4 DEF IgnoreDuplicate, Known, Goto, Inv, TypeOK
    <3>2. Range(cache'[c]) = Range(cache[c]) /\ Distinct(cache'[c])
      BY <3>1, TouchKeepsAll DEF DispatchesOnce
    <3> QED BY <3>1, <3>2 DEF DispatchesOnce, Dispatching
  <2>5. CASE Mark(c)
    BY <2>5, OnceMarkStep
  <2>6. CASE Dispatch(c) \/ DispatchFails(c)
    BY <2>6, OnceDispatchStep
  <2> QED BY <1>3, <2>2, <2>3, <2>4, <2>5, <2>6 DEF Progress
<1> QED BY <1>1, <1>2, <1>3 DEF Next

LEMMA OnceInit == Init => OnceInv
BY DEF Init, OnceInv, DispatchesOnce, Distinct, Dispatching

\* While a cache has room for the keys of all events, its process gives each of them to
\* the event bus at most once, whatever the group reads again.
THEOREM ProcessDispatchesOnce ==
  ASSUME HasRoom(Events)
  PROVE  Spec => []DispatchedOncePerProcess
<1>1. Inv /\ OnceInv /\ [Next]_vars => OnceInv'
  BY OnceStep
<1>2. OnceInv => DispatchedOncePerProcess
  BY DEF OnceInv, DispatchesOnce, DispatchedOncePerProcess
<1> QED BY <1>1, <1>2, OnceInit, KafkaInvariant, PTL DEF Spec

===============================================================================
