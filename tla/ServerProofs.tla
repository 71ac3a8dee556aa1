------------------------------ MODULE ServerProofs -----------------------------
(***************************************************************************)
(* What Server promises for every number of sessions, luminaires and lines.*)
(***************************************************************************)
EXTENDS Server, FiniteSetTheorems, SequenceTheorems, TLAPS

--------------------------------------------------------------------------------
(* The lists.                                                              *)

Once(list) == \A j, k \in 1 .. Len(list) : list[j] = list[k] => j = k

(* Of a set of positions, each has a rank, and every rank up to the number *)
(* of positions is that of one of them.                                    *)
LEMMA Counting ==
  ASSUME NEW n \in Nat, NEW S \in SUBSET (1 .. n)
  PROVE  /\ IsFiniteSet(S) /\ Cardinality(S) \in Nat
         /\ \A k \in 1 .. Cardinality(S) :
              \E j \in S : Cardinality({m \in S : m <= j}) = k
  <1> DEFINE Upto(j) == {m \in S : m <= j}
             rank == [j \in S |-> Cardinality(Upto(j))]
             c == Cardinality(S)
  <1>1. IsFiniteSet(S)
    <2>1. IsFiniteSet(1 .. n)
      BY FS_Interval
    <2> QED
      BY <2>1, FS_Subset
  <1>2. c \in Nat
    BY <1>1, FS_CardinalityType
  <1>3. ASSUME NEW j \in S PROVE IsFiniteSet(Upto(j)) /\ Cardinality(Upto(j)) \in 1 .. c
    <2>1. Upto(j) \in SUBSET S /\ j \in Upto(j)
      OBVIOUS
    <2>2. IsFiniteSet(Upto(j)) /\ Cardinality(Upto(j)) <= c
      BY <1>1, <2>1, FS_Subset
    <2>3. Cardinality(Upto(j)) \in Nat /\ Cardinality(Upto(j)) # 0
      BY <2>1, <2>2, FS_CardinalityType, FS_EmptySet
    <2> HIDE DEF Upto, c
    <2> QED
      BY <1>2, <2>2, <2>3
  <1>4. ASSUME NEW i \in S, NEW j \in S, i < j PROVE Cardinality(Upto(i)) # Cardinality(Upto(j))
    <2>1. \A m \in S : m \in Nat
      OBVIOUS
    <2>2. \A m \in S : m <= i => m <= j
      BY ONLY <1>4, <2>1
    <2>3. j <= j /\ ~(j <= i)
      BY ONLY <1>4, <2>1
    <2>4. Upto(i) \in SUBSET Upto(j) /\ j \in Upto(j) /\ j \notin Upto(i)
      BY <2>2, <2>3
    <2> HIDE DEF Upto
    <2> QED
      BY <1>3, <2>4, FS_Subset
  <1>5. rank \in Injection(S, 1 .. c)
    <2>1. rank \in [S -> 1 .. c]
      BY <1>3
    <2>2. ASSUME NEW i \in S, NEW j \in S, rank[i] = rank[j] PROVE i = j
      <3>1. Cardinality(Upto(i)) = Cardinality(Upto(j))
        BY <2>2
      <3>2. ~(i < j) /\ ~(j < i)
        <4> HIDE DEF Upto, rank
        <4> QED
          BY <1>4, <3>1
      <3> QED
        BY <3>2
    <2> HIDE DEF rank
    <2> QED
      BY <2>1, <2>2 DEF Injection, IsInjective
  <1>6. rank \in Surjection(S, 1 .. c)
    <2>1. IsFiniteSet(1 .. c) /\ Cardinality(1 .. c) = c
      <3> HIDE DEF c
      <3> QED
        BY <1>2, FS_Interval
    <2> HIDE DEF rank
    <2> QED
      BY <1>5, <2>1, FS_Injection
  <1>7. ASSUME NEW k \in 1 .. c PROVE \E j \in S : Cardinality(Upto(j)) = k
    <2>1. PICK j \in S : rank[j] = k
      <3> HIDE DEF rank
      <3> QED
        BY <1>6 DEF Surjection
    <2> QED
      BY <2>1
  <1> QED
    BY <1>1, <1>2, <1>7

(* What Without leaves is in the list and is not the session, and it makes *)
(* no second entry of anything.                                            *)
LEMMA WithoutFacts ==
  ASSUME NEW T, NEW list \in Seq(T), NEW s
  PROVE  /\ Without(list, s) \in Seq(T)
         /\ \A k \in 1 .. Len(Without(list, s)) :
              \E j \in 1 .. Len(list) : Without(list, s)[k] = list[j] /\ list[j] # s
         /\ Once(list) => Once(Without(list, s))
  <1> DEFINE kept == {j \in 1 .. Len(list) : list[j] # s}
             Rank(j) == Cardinality({m \in kept : m <= j})
             Nth(k) == CHOOSE j \in kept : Rank(j) = k
             c == Cardinality(kept)
             t == [k \in 1 .. c |-> list[Nth(k)]]
  <1>1. Without(list, s) = t
    BY DEF Without
  <1>2. c \in Nat /\ \A k \in 1 .. c : \E j \in kept : Rank(j) = k
    <2>1. Len(list) \in Nat /\ kept \in SUBSET (1 .. Len(list))
      OBVIOUS
    <2> HIDE DEF kept
    <2> QED
      BY <2>1, Counting
  <1>3. ASSUME NEW k \in 1 .. c PROVE Nth(k) \in kept /\ Rank(Nth(k)) = k
    <2> HIDE DEF kept, Rank, c
    <2> QED
      BY <1>2
  <1>4. \A j \in kept : j \in 1 .. Len(list) /\ list[j] # s /\ list[j] \in T
    OBVIOUS
  <1> HIDE DEF kept, Rank, c, Nth
  <1>5. t \in Seq(T) /\ Len(t) = c
    BY <1>2, <1>3, <1>4
  <1>6. \A k \in 1 .. Len(t) : \E j \in 1 .. Len(list) : t[k] = list[j] /\ list[j] # s
    BY <1>3, <1>4, <1>5
  <1>7. ASSUME Once(list), NEW j \in 1 .. c, NEW k \in 1 .. c, t[j] = t[k] PROVE j = k
    <2>1. list[Nth(j)] = list[Nth(k)]
      BY <1>7
    <2>2. Nth(j) = Nth(k)
      BY <1>3, <1>4, <1>7, <2>1 DEF Once
    <2> QED
      BY <1>3, <2>2
  <1> QED
    BY <1>1, <1>5, <1>6, <1>7 DEF Once

(* The first entry of a list that is not empty, and what follows it.       *)
LEMMA HeadTail ==
  ASSUME NEW T, NEW list \in Seq(T), list # <<>>
  PROVE  Head(list) \in T /\ Tail(list) \in Seq(T)
  BY HeadTailProperties

(* A new first entry that was not in the list.                             *)
LEMMA PushFront ==
  ASSUME NEW T, NEW list \in Seq(T), NEW e \in T
  PROVE  /\ <<e>> \o list \in Seq(T)
         /\ \A k \in 1 .. Len(<<e>> \o list) :
              \/ (<<e>> \o list)[k] = e
              \/ \E j \in 1 .. Len(list) : (<<e>> \o list)[k] = list[j]
         /\ Once(list) /\ (\A j \in 1 .. Len(list) : list[j] # e) => Once(<<e>> \o list)
  <1> DEFINE t == <<e>> \o list
  <1>1. Len(list) \in Nat /\ t \in Seq(T) /\ Len(t) = Len(list) + 1
    OBVIOUS
  <1>2. t[1] = e
    OBVIOUS
  <1>3. ASSUME NEW k \in 1 .. Len(t), k # 1 PROVE k-1 \in 1 .. Len(list) /\ t[k] = list[k-1]
    BY <1>1, <1>3
  <1> HIDE DEF t
  <1>4. ASSUME Once(list), \A j \in 1 .. Len(list) : list[j] # e,
               NEW j \in 1 .. Len(t), NEW k \in 1 .. Len(t), t[j] = t[k]
        PROVE  j = k
    <2>1. CASE j = 1 \/ k = 1
      BY <1>2, <1>3, <1>4, <2>1
    <2>2. CASE j # 1 /\ k # 1
      <3>1. j-1 = k-1
        BY <1>3, <1>4, <2>2 DEF Once
      <3> QED
        BY <1>1, <3>1
    <2> QED
      BY <2>1, <2>2
  <1> QED
    BY <1>1, <1>2, <1>3, <1>4 DEF Once, t

--------------------------------------------------------------------------------
(* Types, and the numbers of the sessions.                                 *)

(* The session that waits for a client is the last one, and its number is  *)
(* that of the threads: accept() makes one of each.                        *)
Numbered ==
  \A s \in Session : /\ life[s] = "accepting" <=> s = threads
                     /\ life[s] = "none" <=> s > threads

(* accept() goes on to the next session.                                   *)
LEMMA AcceptStep ==
  ASSUME TypeOK, Numbered, NEW s \in Session, Accept(s) \/ AcceptFails(s)
  PROVE  /\ s = threads /\ threads' = threads + 1 /\ threads' \in 1 .. MaxSessions
         /\ life' \in [Session -> Life] /\ life'[s] \in {"open", "deleted"}
         /\ life'[s + 1] = "accepting"
         /\ \A k \in Session : k # s /\ k # s + 1 => life'[k] = life[k]
         /\ Numbered'
  <1> USE ServerAssumption DEF TypeOK, Session
  <1>1. PICK new \in {"open", "deleted"} :
           /\ life[s] = "accepting" /\ s + 1 \in Session
           /\ life' = [life EXCEPT ![s] = new, ![s + 1] = "accepting"]
           /\ threads' = threads + 1
    BY DEF Accept, AcceptFails, AcceptMore
  <1>2. s = threads
    BY <1>1 DEF Numbered
  <1>3. /\ life'[s] = new /\ life'[s + 1] = "accepting"
        /\ \A k \in Session : k # s /\ k # s + 1 => life'[k] = life[k]
    BY <1>1
  <1>4. ASSUME NEW k \in Session
        PROVE  (life'[k] = "accepting" <=> k = s + 1) /\ (life'[k] = "none" <=> k > s + 1)
    <2>1. CASE k = s \/ k = s + 1
      BY <1>1, <1>3, <2>1
    <2>2. CASE k # s /\ k # s + 1
      <3>1. (life[k] = "accepting" <=> k = s) /\ (life[k] = "none" <=> k > s)
        BY <1>2 DEF Numbered
      <3>2. k > s <=> k > s + 1
        BY <2>2
      <3> QED
        BY <1>3, <2>2, <3>1, <3>2
    <2> QED
      BY <2>1, <2>2
  <1>5. Numbered'
    BY <1>1, <1>2, <1>4 DEF Numbered
  <1>6. threads' \in 1 .. MaxSessions /\ life' \in [Session -> Life]
    BY <1>1, <1>2 DEF Life
  <1> QED
    BY <1>1, <1>2, <1>3, <1>5, <1>6

(* A step that opens no session keeps the numbers.                         *)
LEMMA NumbersKept ==
  ASSUME Numbered, threads' = threads,
         \A s \in Session : life'[s] = life[s] \/ (life[s] = "open" /\ life'[s] = "deleted")
  PROVE  Numbered'
  BY DEF Numbered

(* A writer starts a write or goes to sleep.                               *)
LEMMA WriteType ==
  ASSUME TypeOK, NEW s \in Session, NEW w \in Writer, Write(s, w)
  PROVE  /\ UNCHANGED <<life, up, failing, asleep, lines>>
         /\ dl' \in [Session -> Dline] /\ out' \in [Session -> Nat]
         /\ sending' \in [Session -> BOOLEAN]
  BY DEF TypeOK, Write, Dline

(* ... where it is one of the writers.                                     *)
LEMMA SleepType ==
  ASSUME TypeOK, NEW s \in Session, NEW w \in Writer, Sleep(s, w)
  PROVE  asleep' \in [Session -> SUBSET Writer]
  BY DEF TypeOK, Sleep

(* A wake-up leaves writers asleep, and nothing else.                      *)
LEMMA NotifyType ==
  ASSUME TypeOK, NEW s \in Session, NotifyOne(s)
  PROVE  asleep' \in [Session -> SUBSET Writer]
  BY DEF TypeOK, NotifyOne

(* The lists stay lists of sessions.                                       *)
LEMMA ListType ==
  ASSUME TypeOK, NEW s \in Session, Unsubscribe(s) \/ Subscribe(s) \/ DeleteRealtime(s)
  PROVE  subs' \in [ListId -> Seq(Session)]
  <1>1. \A i \in ListId : Without(subs[i], s) \in Seq(Session)
    BY WithoutFacts DEF TypeOK
  <1>2. \A i \in ListId : <<s>> \o Without(subs[i], s) \in Seq(Session)
    BY <1>1, PushFront
  <1>3. Unsubscribe(s) => subs' \in [ListId -> Seq(Session)]
    BY <1>1 DEF TypeOK, Unsubscribe
  <1>4. Subscribe(s) => subs' \in [ListId -> Seq(Session)]
    BY <1>2 DEF TypeOK, Subscribe
  <1>5. DeleteRealtime(s) => subs' \in [ListId -> Seq(Session)]
    BY <1>1 DEF TypeOK, DeleteRealtime
  <1> QED
    BY <1>3, <1>4, <1>5

(* Every step keeps every variable in its type, and the sessions numbered. *)
LEMMA TypeStep ==
  ASSUME TypeOK, Numbered, [Next]_vars
  PROVE  TypeOK' /\ Numbered'
  <1> USE DEF TypeOK, At
  <1>1. CASE Wire
    BY <1>1, NumbersKept DEF Wire, sessionVars
  <1>2. ASSUME NEW s \in Session, Accept(s) \/ AcceptFails(s) PROVE TypeOK' /\ Numbered'
    <2>1. Numbered' /\ life' \in [Session -> Life] /\ threads' \in 1 .. MaxSessions
      BY <1>2, AcceptStep
    <2> QED
      BY <1>2, <2>1 DEF Accept, AcceptFails, Dline, Rd
  <1>3. ASSUME NEW s \in Session, Disconnect(s) \/ Elapse(s) \/ CheckDeadline(s) \/ StaleTimer(s)
        PROVE  TypeOK' /\ Numbered'
    <2>1. UNCHANGED <<life, threads>>
      BY <1>3 DEF Disconnect, Elapse, CheckDeadline, StaleTimer
    <2> QED
      BY <1>3, <2>1, NumbersKept DEF Disconnect, Elapse, CheckDeadline, StaleTimer, Dline
  <1>4. ASSUME NEW s \in Session, HandleRead(s) \/ StartRead(s) \/ ReadFails(s)
        PROVE  TypeOK' /\ Numbered'
    <2>1. lines' \in [Session -> 0 .. MaxLines]
      <3>1. CASE HandleRead(s)
        <4>1. lines[s] \in 0 .. MaxLines /\ lines[s] < MaxLines
          BY <3>1 DEF HandleRead
        <4>2. lines[s] + 1 \in 0 .. MaxLines
          BY ONLY <4>1, ServerAssumption
        <4> QED
          BY <3>1, <4>2 DEF HandleRead
      <3>2. CASE StartRead(s) \/ ReadFails(s)
        BY <3>2 DEF StartRead, ReadFails
      <3> QED
        BY <1>4, <3>1, <3>2
    <2>2. UNCHANGED <<life, threads>> /\ rd' \in [Session -> Rd] /\ dl' \in [Session -> Dline]
      BY <1>4 DEF HandleRead, StartRead, ReadFails, Rd, Dline
    <2> QED
      BY <1>4, <2>1, <2>2, NumbersKept DEF HandleRead, StartRead, ReadFails
  <1>5. ASSUME NEW s \in Session, Unsubscribe(s) \/ Subscribe(s) PROVE TypeOK' /\ Numbered'
    <2>1. subs' \in [ListId -> Seq(Session)]
      BY <1>5, ListType
    <2> QED
      BY <1>5, <2>1, NumbersKept DEF Unsubscribe, Subscribe, Rd
  <1>6. ASSUME NEW s \in Session, Reply(s) PROVE TypeOK' /\ Numbered'
    <2>1. CASE Sleep(s, Reading)
      BY <2>1, SleepType, NumbersKept DEF Sleep, Writer
    <2>2. CASE /\ Write(s, Reading)
               /\ At(s, "next")
               /\ UNCHANGED <<subs, threads, wired, ser, broken>>
      BY <2>2, WriteType, NumbersKept DEF Writer, Rd
    <2> QED
      BY <1>6, <2>1, <2>2 DEF Reply
  <1>7. ASSUME NEW s \in Session, HandleWrite(s) \/ WriteFails(s) PROVE TypeOK' /\ Numbered'
    <2>1. asleep' \in [Session -> SUBSET Writer]
      BY <1>7, NotifyType DEF HandleWrite, WriteFails
    <2>2. out' \in [Session -> Nat]
      <3>1. out[s] \in Nat /\ out[s] > 0 /\ out' = [out EXCEPT ![s] = @ - 1]
        BY <1>7 DEF HandleWrite, WriteFails
      <3>2. out[s] - 1 \in Nat
        BY ONLY <3>1
      <3> QED
        BY <3>1, <3>2
    <2>3. failing' \in [Session -> Fail]
      BY <1>7 DEF HandleWrite, WriteFails, Fail
    <2> QED
      BY <1>7, <2>1, <2>2, <2>3, NumbersKept DEF HandleWrite, WriteFails
  <1>8. ASSUME NEW s \in Session, Forget(s) PROVE TypeOK' /\ Numbered'
    <2>1. subs' \in [ListId -> Seq(Session)] /\ broken' \in BOOLEAN
      BY <1>8, ListType DEF Forget
    <2>2. rd' \in [Session -> Rd] /\ failing' \in [Session -> Fail]
      BY <1>8 DEF Forget, Rd, Fail
    <2> QED
      BY <1>8, <2>1, <2>2, NumbersKept DEF Forget
  <1>9. ASSUME NEW s \in Session, Delete(s) PROVE TypeOK' /\ Numbered'
    <2>1. rd' \in [Session -> Rd] /\ failing' \in [Session -> Fail]
      BY <1>9 DEF Delete, Rd, Fail
    <2>2. life' = [life EXCEPT ![s] = "deleted"] /\ life[s] = "open" /\ threads' = threads
      BY <1>9 DEF Delete
    <2>3. Numbered'
      BY <2>2, NumbersKept
    <2> QED
      BY <1>9, <2>1, <2>2, <2>3 DEF Delete, Life, Dline
  <1>10. ASSUME NEW s \in Session, Stale(s) \/ ListRace(s) PROVE TypeOK' /\ Numbered'
    BY <1>10, NumbersKept DEF Stale, ListRace, sessionVars
  <1>11. ASSUME NEW a \in Arduino, MetricsBegin(a) PROVE TypeOK' /\ Numbered'
    <2>1. ser' \in [Arduino -> Seq(Session)]
      BY <1>11 DEF MetricsBegin, ListId
    <2> QED
      BY <1>11, <2>1, NumbersKept DEF MetricsBegin, sessionVars
  <1>12. ASSUME NEW a \in Arduino, Metrics(a) PROVE TypeOK' /\ Numbered'
    <2>1. Head(ser[a]) \in Session /\ Tail(ser[a]) \in Seq(Session) /\ a \in Writer
      BY <1>12, HeadTail DEF Metrics, Writer
    <2>2. CASE Sleep(Head(ser[a]), a)
      BY <2>1, <2>2, SleepType, NumbersKept DEF Sleep
    <2>3. CASE /\ Write(Head(ser[a]), a)
               /\ ser' = [ser EXCEPT ![a] = Tail(@)]
               /\ UNCHANGED <<rd, subs, threads, wired, broken>>
      BY <2>1, <2>3, WriteType, NumbersKept
    <2> QED
      BY <1>12, <2>2, <2>3 DEF Metrics
  <1>13. CASE UNCHANGED vars
    BY <1>13, NumbersKept DEF vars, sessionVars
  <1> QED
    BY <1>1, <1>2, <1>3, <1>4, <1>5, <1>6, <1>7, <1>8, <1>9, <1>10,
       <1>11, <1>12, <1>13 DEF Next, Handler

--------------------------------------------------------------------------------
(* Writes and wake-ups.                                                    *)

(* What holds of each session s.  Nothing has happened yet to one that no  *)
(* client has; an open one always has a read operation or its handler; one *)
(* write of it is under way exactly while it is sending; a writer asleep   *)
(* in its Write is its own handler or a serial thread that is sending it   *)
(* something; and for the sleepers there is somebody who wakes them.       *)
Waker(s) ==
  \/ out[s] > 0
  \/ rd[s] = "reply" /\ Reading \notin asleep[s]
  \/ \E a \in Arduino \ asleep[s] : ser[a] # <<>> /\ Head(ser[a]) = s

Orderly(s) ==
  /\ s >= threads => /\ rd[s] = "none" /\ failing[s] = "no"
                     /\ out[s] = 0 /\ ~sending[s] /\ asleep[s] = {}
  /\ life[s] = "open" => rd[s] # "none"
  /\ out[s] \in {0, 1}
  /\ life[s] = "open" => out[s] = IF sending[s] THEN 1 ELSE 0
  /\ Reading \in asleep[s] => rd[s] = "reply"
  /\ \A a \in Arduino : a \in asleep[s] => ser[a] # <<>> /\ Head(ser[a]) = s
  /\ life[s] = "open" /\ asleep[s] # {} /\ failing[s] = "no" => Waker(s)

(* A step that is not about session k: it opens no session k, and the      *)
(* serial threads that are sending k something go on doing so.             *)
Apart(k) ==
  /\ rd'[k] = rd[k] /\ failing'[k] = failing[k]
  /\ out'[k] = out[k] /\ sending'[k] = sending[k] /\ asleep'[k] = asleep[k]
  /\ life'[k] = life[k] \/ life'[k] # "open"
  /\ threads' = threads \/ threads' = threads + 1
  /\ \A a \in Arduino : ser[a] # <<>> /\ Head(ser[a]) = k => ser'[a] = ser[a]

(* Such a step leaves session k as orderly as it was.                      *)
LEMMA Bystander ==
  ASSUME TypeOK, NEW k \in Session, Orderly(k), Apart(k)
  PROVE  Orderly(k)'
  <1>1. k >= threads' => k >= threads
    <2>1. threads \in Nat /\ k \in Nat /\ (threads' = threads \/ threads' = threads + 1)
      BY DEF TypeOK, Session, Apart
    <2> QED
      BY ONLY <2>1
  <1>2. \A a \in Arduino : ser[a] # <<>> /\ Head(ser[a]) = k
                           => ser'[a] # <<>> /\ Head(ser'[a]) = k
    BY DEF Apart
  <1> QED
    BY <1>1, <1>2 DEF Orderly, Apart, Waker

(* A session that has a client was accepted before the last accept().      *)
LEMMA OpenIsNumbered ==
  ASSUME TypeOK, Numbered, NEW s \in Session, life[s] = "open"
  PROVE  s < threads
  <1>1. s \in Nat /\ threads \in Nat /\ s # threads /\ ~(s > threads)
    BY DEF TypeOK, Numbered, Session
  <1> QED
    BY ONLY <1>1

(* handle_accept: the session starts as it was made.                       *)
LEMMA AcceptOrderly ==
  ASSUME TypeOK, Numbered, NEW s \in Session, Accept(s) \/ AcceptFails(s),
         NEW k \in Session, Orderly(k)
  PROVE  Orderly(k)'
  <1>1. s = threads /\ threads' = threads + 1 /\ life'[s + 1] = "accepting"
    BY AcceptStep
  <1>2. \A n \in Session : n # s /\ n # s + 1 => life'[n] = life[n]
    BY AcceptStep
  <1>3. CASE k # s
    <2>1. Apart(k)
      BY <1>1, <1>2, <1>3 DEF Accept, AcceptFails, Apart, At, TypeOK
    <2> QED
      BY <2>1, Bystander
  <1>4. CASE k = s
    <2>1. k >= threads /\ ~(k >= threads')
      <3>1. k = threads /\ threads' = threads + 1 /\ threads \in Nat
        BY <1>1, <1>4 DEF TypeOK
      <3> QED
        BY ONLY <3>1
    <2>2. out'[k] = 0 /\ ~sending'[k] /\ asleep'[k] = {}
      BY <1>4, <2>1 DEF Accept, AcceptFails, Orderly
    <2>3. life'[k] = "open" => rd'[k] = "waiting"
      BY <1>4 DEF Accept, AcceptFails, At, TypeOK
    <2>4. rd'[k] = "waiting" => rd'[k] # "none"
      OBVIOUS
    <2> QED
      BY <2>1, <2>2, <2>3, <2>4 DEF Orderly
  <1> QED
    BY <1>3, <1>4

(* The handler of a read operation goes on, or delete_session in it, while *)
(* the writes stay as they are.                                            *)
LEMMA ReaderOrderly ==
  ASSUME TypeOK, Numbered, NEW s \in Session, life[s] = "open",
         rd[s] # "reply",
         NEW to \in Rd \ {"none"}, rd' = [rd EXCEPT ![s] = to],
         UNCHANGED <<life, out, failing, sending, asleep, ser, threads>>,
         NEW k \in Session, Orderly(k)
  PROVE  Orderly(k)'
  <1>1. CASE k # s
    BY <1>1, Bystander DEF Apart, TypeOK
  <1>2. CASE k = s
    <2>1. ~(k >= threads)
      BY <1>2, OpenIsNumbered DEF TypeOK, Session
    <2>2. rd'[k] # "none"
      BY <1>2 DEF TypeOK
    <2> QED
      BY <1>2, <2>1, <2>2 DEF Orderly, Waker
  <1> QED
    BY <1>1, <1>2

(* A writer goes to sleep: a write is under way, whose end wakes it.       *)
LEMMA SleepOrderly ==
  ASSUME TypeOK, Numbered, NEW s \in Session, NEW w \in Writer, Sleep(s, w),
         w = Reading => rd[s] = "reply",
         w # Reading => ser[w] # <<>> /\ Head(ser[w]) = s,
         NEW k \in Session, Orderly(k)
  PROVE  Orderly(k)'
  <1> USE DEF Sleep
  <1>1. CASE k # s
    BY <1>1, Bystander DEF Apart, TypeOK
  <1>2. CASE k = s
    <2>1. ~(k >= threads)
      BY <1>2, OpenIsNumbered DEF TypeOK, Session
    <2>2. asleep'[k] = asleep[k] \cup {w}
      BY <1>2 DEF TypeOK
    <2>3. out[k] = 1
      BY <1>2 DEF Orderly
    <2>4. Reading \in asleep'[k] => rd'[k] = "reply"
      BY <1>2, <2>2 DEF Orderly
    <2>5. \A a \in Arduino : a \in asleep'[k] => ser[a] # <<>> /\ Head(ser[a]) = k
      BY <1>2, <2>2, ServerAssumption DEF Orderly
    <2>6. Waker(k)'
      BY <2>3 DEF Waker
    <2> QED
      BY <1>2, <2>1, <2>3, <2>4, <2>5, <2>6 DEF Orderly
  <1> QED
    BY <1>1, <1>2

(* A writer starts a write, and with it its part ends: a reply is followed *)
(* by start_read, a serial thread goes on to the next session of its copy. *)
LEMMA WriteOrderly ==
  ASSUME TypeOK, Numbered, NEW s \in Session, NEW w \in Writer, Write(s, w),
         \/ w = Reading /\ rd[s] = "reply" /\ At(s, "next") /\ ser' = ser
         \/ /\ w \in Arduino /\ ser[w] # <<>> /\ Head(ser[w]) = s
            /\ ser' = [ser EXCEPT ![w] = Tail(@)] /\ rd' = rd,
         threads' = threads,
         NEW k \in Session, Orderly(k)
  PROVE  Orderly(k)'
  <1>1. CASE k # s
    <2>1. \A a \in Arduino : ser[a] # <<>> /\ Head(ser[a]) = k => ser'[a] = ser[a]
      BY <1>1 DEF TypeOK
    <2>2. rd'[k] = rd[k]
      BY <1>1 DEF At, TypeOK
    <2> QED
      BY <1>1, <2>1, <2>2, Bystander DEF Apart, TypeOK, Write
  <1>2. CASE k = s
    <2>1. ~(k >= threads)
      BY <1>2, OpenIsNumbered DEF TypeOK, Session, Write
    <2>2. out[k] = 0 /\ life[k] = "open" /\ w \notin asleep[k]
      BY <1>2 DEF Orderly, Write
    <2>3. out'[k] = 1 /\ sending'[k] /\ asleep'[k] = asleep[k] /\ life'[k] = "open"
      BY <1>2, <2>2 DEF Write, TypeOK
    <2>4. rd'[k] # "none"
      BY <1>2, <2>2 DEF Orderly, At, TypeOK
    <2>5. Reading \in asleep'[k] => rd'[k] = "reply"
      BY <1>2, <2>2, <2>3 DEF Orderly
    <2>6. \A a \in Arduino : a \in asleep'[k] => ser'[a] # <<>> /\ Head(ser'[a]) = k
      <3>1. \A a \in Arduino : a \in asleep[k] => ser'[a] = ser[a]
        BY <2>2 DEF TypeOK
      <3> QED
        BY <1>2, <2>3, <3>1 DEF Orderly
    <2>7. Waker(k)'
      BY <2>3 DEF Waker
    <2> QED
      BY <2>1, <2>3, <2>4, <2>5, <2>6, <2>7 DEF Orderly
  <1> QED
    BY <1>1, <1>2

(* The end of a write: the one that is woken is the next to write.         *)
LEMMA WrittenOrderly ==
  ASSUME TypeOK, Numbered, NEW s \in Session, HandleWrite(s) \/ WriteFails(s),
         NEW k \in Session, Orderly(k)
  PROVE  Orderly(k)'
  <1> USE DEF HandleWrite, WriteFails
  <1>1. CASE k # s
    <2>1. asleep'[k] = asleep[k] /\ out'[k] = out[k] /\ failing'[k] = failing[k]
      BY <1>1 DEF NotifyOne, TypeOK
    <2> QED
      BY <1>1, <2>1, Bystander DEF Apart, TypeOK
  <1>2. CASE k = s
    <2>1. ~(k >= threads)
      BY <1>2, OpenIsNumbered DEF TypeOK, Session
    <2>2. out[k] = 1 /\ life[k] = "open" /\ rd[k] # "none"
      BY <1>2 DEF Orderly
    <2>3. out'[k] = 0 /\ ~sending'[k]
      <3>1. out'[k] = out[k] - 1 /\ ~sending'[k]
        BY <1>2 DEF TypeOK
      <3> QED
        BY <2>2, <3>1
    <2>4. \/ asleep[k] = {} /\ asleep'[k] = {}
          \/ \E w \in asleep[k] : asleep'[k] = asleep[k] \ {w}
      BY <1>2 DEF NotifyOne, TypeOK
    <2>5. asleep'[k] \subseteq asleep[k]
      BY <2>4
    <2>6. asleep'[k] # {} => Waker(k)'
      <3>1. SUFFICES ASSUME NEW w \in asleep[k], asleep'[k] = asleep[k] \ {w} PROVE Waker(k)'
        BY <2>4
      <3>2. CASE w = Reading
        BY <3>1, <3>2 DEF Orderly, Waker
      <3>3. CASE w \in Arduino
        BY <3>1, <3>3 DEF Orderly, Waker
      <3> QED
        BY <3>2, <3>3 DEF TypeOK, Writer
    <2>7. UNCHANGED <<rd, life, ser, threads>>
      OBVIOUS
    <2>8. Reading \in asleep'[k] => rd'[k] = "reply"
      BY <1>2, <2>5, <2>7 DEF Orderly
    <2>9. \A a \in Arduino : a \in asleep'[k] => ser'[a] # <<>> /\ Head(ser'[a]) = k
      BY <1>2, <2>5, <2>7 DEF Orderly
    <2> HIDE DEF HandleWrite, WriteFails
    <2> QED
      BY <2>1, <2>2, <2>3, <2>6, <2>7, <2>8, <2>9 DEF Orderly
  <1> QED
    BY <1>1, <1>2

(* delete_session.                                                         *)
LEMMA LeaveOrderly ==
  ASSUME TypeOK, Numbered, NEW s \in Session, Forget(s) \/ Delete(s),
         NEW k \in Session, Orderly(k)
  PROVE  Orderly(k)'
  <1>1. CASE k # s
    BY <1>1, Bystander DEF Apart, TypeOK, Forget, Delete, At
  <1>2. CASE k = s
    <2>1. ~(k >= threads)
      BY <1>2, OpenIsNumbered DEF TypeOK, Session, Forget, Delete
    <2>2. CASE Forget(s)
      <3>1. CASE rd[s] = "leave" /\ At(s, "delete") /\ UNCHANGED failing
        BY <1>2, <2>2, <3>1, ReaderOrderly DEF Forget, At, Rd
      <3>2. CASE failing[s] = "leave" /\ failing' = [failing EXCEPT ![s] = "delete"] /\ UNCHANGED rd
        <4>1. failing'[k] = "delete"
          BY <1>2, <3>2 DEF TypeOK
        <4> QED
          BY <1>2, <2>1, <2>2, <3>2, <4>1 DEF Forget, Orderly
      <3> QED
        BY <2>2, <3>1, <3>2 DEF Forget
    <2>3. CASE Delete(s)
      <3>1. life'[k] = "deleted"
        BY <1>2, <2>3 DEF Delete, TypeOK
      <3>2. rd[k] = "reply" => rd'[k] = "reply"
        BY <1>2, <2>3 DEF Delete, At, TypeOK
      <3> QED
        BY <1>2, <2>1, <2>3, <3>1, <3>2 DEF Delete, Orderly
    <2> QED
      BY <1>2, <2>2, <2>3
  <1> QED
    BY <1>1, <1>2

(* Every step keeps every session orderly.                                 *)
LEMMA OrderlyStep ==
  ASSUME TypeOK, Numbered, \A s \in Session : Orderly(s), [Next]_vars
  PROVE  \A s \in Session : Orderly(s)'
  <1> TAKE k \in Session
  <1>1. ASSUME NEW s \in Session,
               \/ Wire \/ Disconnect(s) \/ Elapse(s) \/ CheckDeadline(s) \/ StaleTimer(s)
               \/ Stale(s) \/ ListRace(s) \/ UNCHANGED vars
        PROVE  Orderly(k)'
    BY <1>1, Bystander DEF Apart, Wire, Disconnect, Elapse, CheckDeadline, StaleTimer, Stale,
                           ListRace, vars, sessionVars
  <1>2. ASSUME NEW s \in Session, Accept(s) \/ AcceptFails(s) PROVE Orderly(k)'
    BY <1>2, AcceptOrderly
  <1>3. ASSUME NEW s \in Session, HandleRead(s) PROVE Orderly(k)'
    <2>1. \E to \in {"next", "reply", "erase", "push"} : At(s, to)
      BY <1>3 DEF HandleRead
    <2> QED
      BY <1>3, <2>1, ReaderOrderly DEF HandleRead, At, Rd
  <1>4. ASSUME NEW s \in Session, StartRead(s) PROVE Orderly(k)'
    BY <1>4, ReaderOrderly DEF StartRead, At, Rd
  <1>5. ASSUME NEW s \in Session, ReadFails(s) PROVE Orderly(k)'
    BY <1>5, ReaderOrderly DEF ReadFails, At, Rd
  <1>6. ASSUME NEW s \in Session, Unsubscribe(s) \/ Subscribe(s) PROVE Orderly(k)'
    BY <1>6, ReaderOrderly DEF Unsubscribe, Subscribe, At, Rd
  <1>7. ASSUME NEW s \in Session, Reply(s) PROVE Orderly(k)'
    <2>1. CASE Sleep(s, Reading)
      BY <1>7, <2>1, SleepOrderly DEF Reply, Writer
    <2>2. CASE /\ Write(s, Reading)
               /\ At(s, "next")
               /\ UNCHANGED <<subs, threads, wired, ser, broken>>
      BY <1>7, <2>2, WriteOrderly DEF Reply, Writer
    <2> QED
      BY <1>7, <2>1, <2>2 DEF Reply
  <1>8. ASSUME NEW s \in Session, HandleWrite(s) \/ WriteFails(s) PROVE Orderly(k)'
    BY <1>8, WrittenOrderly
  <1>9. ASSUME NEW s \in Session, Forget(s) \/ Delete(s) PROVE Orderly(k)'
    BY <1>9, LeaveOrderly
  <1>10. ASSUME NEW a \in Arduino, MetricsBegin(a) PROVE Orderly(k)'
    <2>1. \A b \in Arduino : ser[b] # <<>> => ser'[b] = ser[b]
      BY <1>10 DEF MetricsBegin, TypeOK
    <2> QED
      BY <1>10, <2>1, Bystander DEF Apart, MetricsBegin, sessionVars
  <1>11. ASSUME NEW a \in Arduino, Metrics(a) PROVE Orderly(k)'
    <2>1. Head(ser[a]) \in Session /\ a \in Writer /\ a # Reading /\ ser[a] # <<>>
      BY <1>11, HeadTail, ServerAssumption DEF Metrics, Writer, TypeOK
    <2>2. CASE Sleep(Head(ser[a]), a)
      BY <2>1, <2>2, SleepOrderly
    <2>3. CASE /\ Write(Head(ser[a]), a)
               /\ ser' = [ser EXCEPT ![a] = Tail(@)]
               /\ UNCHANGED <<rd, subs, threads, wired, broken>>
      BY <2>1, <2>3, WriteOrderly
    <2> QED
      BY <1>11, <2>2, <2>3 DEF Metrics
  <1>12. Session # {}
    BY ServerAssumption DEF Session
  <1> QED
    BY <1>1, <1>2, <1>3, <1>4, <1>5, <1>6, <1>7, <1>8, <1>9, <1>10, <1>11, <1>12
       DEF Next, Handler

--------------------------------------------------------------------------------
(* Subscriptions.                                                          *)

Has(list, e) == \E j \in 1 .. Len(list) : list[j] = e

(* A list has no session twice, and only those accept() has made; one that *)
(* delete_session has taken from the lists of the luminaires stays out of  *)
(* them; and a deleted one is in them only if it was read meanwhile.       *)
Lists ==
  /\ \A i \in ListId : Once(subs[i])
  /\ \A i \in ListId : \A s \in Session : Has(subs[i], s) => s < threads
  /\ \A s \in Session : life[s] = "open" /\ rd[s] = "delete" /\ ~broken =>
       \A a \in Arduino : ~Has(subs[a], s)
  /\ \A a \in Arduino : \A s \in Session :
       Has(subs[a], s) /\ life[s] = "deleted" => rd[s] # "none"

(* A step that touches no list and no session.                             *)
LEMMA ListsFrame ==
  ASSUME Lists, UNCHANGED <<subs, threads, life, rd>>, ~broken
  PROVE  Lists'
  BY DEF Lists

(* A step of an open session s, which may enter or leave lists.            *)
LEMMA ListsMove ==
  ASSUME TypeOK, Numbered, Lists, ~broken, threads' = threads,
         NEW s \in Session, life[s] = "open", life' = life,
         \A k \in Session : k # s => rd'[k] = rd[k],
         \A i \in ListId : Once(subs'[i]),
         \A i \in ListId : \A k \in Session : k # s /\ Has(subs'[i], k) => Has(subs[i], k),
         rd'[s] = "delete" /\ ~broken' => \A a \in Arduino : ~Has(subs'[a], s)
  PROVE  Lists'
  <1>1. s < threads
    BY OpenIsNumbered
  <1>2. \A i \in ListId : \A k \in Session : Has(subs'[i], k) => k < threads'
    BY <1>1 DEF Lists
  <1>3. ASSUME NEW k \in Session, life'[k] = "open", rd'[k] = "delete", ~broken',
               NEW a \in Arduino
        PROVE  ~Has(subs'[a], k)
    BY <1>3 DEF Lists, ListId
  <1>4. ASSUME NEW a \in Arduino, NEW k \in Session, Has(subs'[a], k), life'[k] = "deleted"
        PROVE  rd'[k] # "none"
    BY <1>4 DEF Lists, ListId
  <1> QED
    BY <1>2, <1>3, <1>4 DEF Lists

(* What compare_funcs leaves of a list.                                    *)
LEMMA WithoutHas ==
  ASSUME NEW T, NEW list \in Seq(T), NEW s
  PROVE  /\ \A k : Has(Without(list, s), k) => Has(list, k) /\ k # s
         /\ Once(list) => Once(Without(list, s))
  BY WithoutFacts DEF Has

(* Unsubscribing, and subscribing to a list that no longer has the session.*)
LEMMA SubscribeLists ==
  ASSUME TypeOK, Numbered, Lists, ~broken,
         NEW s \in Session, Unsubscribe(s) \/ Subscribe(s)
  PROVE  Lists'
  <1>1. PICK id \in ListId : \/ subs' = [subs EXCEPT ![id] = Without(@, s)]
                             \/ subs' = [subs EXCEPT ![id] = <<s>> \o Without(@, s)]
    BY DEF Unsubscribe, Subscribe
  <1>2. /\ Without(subs[id], s) \in Seq(Session) /\ Once(Without(subs[id], s))
        /\ \A k : Has(Without(subs[id], s), k) => Has(subs[id], k) /\ k # s
    BY WithoutFacts, WithoutHas DEF TypeOK, Lists
  <1> DEFINE longer == <<s>> \o Without(subs[id], s)
  <1>3. Once(longer) /\ \A k : Has(longer, k) => k = s \/ Has(Without(subs[id], s), k)
    <2>1. \A j \in 1 .. Len(Without(subs[id], s)) : Without(subs[id], s)[j] # s
      BY <1>2 DEF Has
    <2> QED
      BY <1>2, <2>1, PushFront DEF Has
  <1> HIDE DEF longer
  <1>4. \A i \in ListId : Once(subs'[i])
    BY <1>1, <1>2, <1>3 DEF TypeOK, Lists, longer
  <1>5. \A i \in ListId : \A k \in Session : k # s /\ Has(subs'[i], k) => Has(subs[i], k)
    BY <1>1, <1>2, <1>3 DEF TypeOK, longer
  <1>6. /\ life[s] = "open" /\ life' = life /\ threads' = threads
        /\ rd' = [rd EXCEPT ![s] = "next"]
    BY DEF Unsubscribe, Subscribe, At
  <1>7. rd'[s] = "next" /\ \A k \in Session : k # s => rd'[k] = rd[k]
    BY <1>6 DEF TypeOK
  <1> QED
    BY <1>4, <1>5, <1>6, <1>7, ListsMove

(* delete_realtime takes the session from the lists of all luminaires.     *)
LEMMA ForgetLists ==
  ASSUME TypeOK, Numbered, Lists, ~broken, NEW s \in Session, Forget(s)
  PROVE  Lists'
  <1>1. life[s] = "open" /\ life' = life /\ threads' = threads
    BY DEF Forget
  <1>2. \A k \in Session : k # s => rd'[k] = rd[k]
    BY DEF Forget, At, TypeOK
  <1>3. CASE DeleteRealtime(s)
    <2>1. \A i \in ListId : /\ Once(Without(subs[i], s))
                            /\ \A k : Has(Without(subs[i], s), k) => Has(subs[i], k) /\ k # s
      BY WithoutHas DEF TypeOK, Lists
    <2>2. \A i \in ListId : subs'[i] = IF i \in Arduino THEN Without(subs[i], s) ELSE subs[i]
      BY <1>3 DEF DeleteRealtime
    <2>3. \A i \in ListId : Once(subs'[i])
      BY <2>1, <2>2 DEF Lists
    <2>4. \A i \in ListId : \A k \in Session : Has(subs'[i], k) => Has(subs[i], k)
      BY <2>1, <2>2
    <2>5. \A a \in Arduino : ~Has(subs'[a], s)
      BY <2>1, <2>2 DEF ListId
    <2> QED
      BY <1>1, <1>2, <2>3, <2>4, <2>5, ListsMove
  <1>4. CASE broken' = TRUE /\ UNCHANGED subs
    BY <1>1, <1>2, <1>4, ListsMove DEF Lists
  <1> QED
    BY <1>3, <1>4 DEF Forget

(* delete _session: it has left the lists, or its handler still runs.      *)
LEMMA DeleteLists ==
  ASSUME TypeOK, Lists, ~broken, NEW s \in Session, Orderly(s), Delete(s)
  PROVE  Lists'
  <1>1. /\ life[s] = "open" /\ life' = [life EXCEPT ![s] = "deleted"]
        /\ UNCHANGED <<subs, threads, broken>>
    BY DEF Delete
  <1>2. \A k \in Session : k # s => rd'[k] = rd[k] /\ life'[k] = life[k]
    BY DEF Delete, At, TypeOK
  <1>3. life'[s] = "deleted" /\ (rd[s] = "delete" \/ (rd'[s] = rd[s] /\ rd[s] # "none"))
    BY DEF Delete, At, TypeOK, Orderly
  <1>4. ASSUME NEW k \in Session, life'[k] = "open", rd'[k] = "delete", NEW a \in Arduino
        PROVE  ~Has(subs'[a], k)
    BY <1>1, <1>2, <1>3, <1>4 DEF Lists
  <1>5. ASSUME NEW a \in Arduino, NEW k \in Session, Has(subs'[a], k), life'[k] = "deleted"
        PROVE  rd'[k] # "none"
    BY <1>1, <1>2, <1>3, <1>5 DEF Lists
  <1> QED
    BY <1>1, <1>4, <1>5 DEF Lists

(* handle_accept: no list has the session yet.                             *)
LEMMA AcceptLists ==
  ASSUME TypeOK, Numbered, Lists, ~broken, Orderly(threads),
         NEW s \in Session, Accept(s) \/ AcceptFails(s)
  PROVE  Lists'
  <1>1. threads \in Nat /\ s + 1 \in Session
    BY DEF TypeOK, Accept, AcceptFails
  <1>2. /\ s = threads /\ threads' = threads + 1 /\ threads \in Nat
        /\ s + 1 \in Session /\ life'[s + 1] = "accepting"
        /\ \A k \in Session : k # s /\ k # s + 1 => life'[k] = life[k]
    BY <1>1, AcceptStep
  <1>3. /\ subs' = subs /\ broken' = broken /\ rd'[s] \in {"none", "waiting"}
        /\ \A k \in Session : k # s => rd'[k] = rd[k]
    BY <1>2, ServerAssumption DEF Accept, AcceptFails, At, TypeOK, Orderly
  <1>4. \A i \in ListId : \A k \in Session : Has(subs'[i], k) => k < threads
    BY <1>3 DEF Lists
  <1>5. \A k \in Session : k < threads => k < threads' /\ k # s /\ k # s + 1
    <2>1. \A k \in Session : k \in Nat
      BY DEF Session
    <2> QED
      BY ONLY <1>2, <2>1
  <1>6. ASSUME NEW k \in Session, life'[k] = "open", rd'[k] = "delete", NEW a \in Arduino
        PROVE  ~Has(subs'[a], k)
    BY <1>2, <1>3, <1>6 DEF Lists
  <1>7. ASSUME NEW a \in Arduino, NEW k \in Session, Has(subs'[a], k), life'[k] = "deleted"
        PROVE  rd'[k] # "none"
    <2>1. k # s /\ k # s + 1
      BY <1>4, <1>5, <1>7 DEF ListId
    <2> QED
      BY <1>2, <1>3, <1>7, <2>1 DEF Lists
  <1> QED
    BY <1>3, <1>4, <1>5, <1>6, <1>7 DEF Lists

(* Every step keeps the lists in order.                                    *)
LEMMA ListsStep ==
  ASSUME TypeOK, Numbered, Lists, \A s \in Session : Orderly(s), [Next]_vars
  PROVE  Lists'
  <1>1. CASE UNCHANGED vars
    BY <1>1 DEF Lists, vars, sessionVars
  <1> SUFFICES ASSUME ~broken, Next PROVE Lists'
    BY <1>1 DEF Next
  <1>2. ASSUME NEW s \in Session,
               \/ Wire \/ Disconnect(s) \/ Elapse(s) \/ CheckDeadline(s) \/ StaleTimer(s)
               \/ Stale(s) \/ ListRace(s) \/ HandleWrite(s) \/ WriteFails(s) \/ Sleep(s, Reading)
        PROVE  Lists'
    BY <1>2, ListsFrame DEF Wire, Disconnect, Elapse, CheckDeadline, StaleTimer, Stale, ListRace,
                            HandleWrite, WriteFails, Sleep, sessionVars
  <1>3. ASSUME NEW s \in Session, life[s] = "open", life' = life, UNCHANGED <<subs, threads>>,
               NEW to \in Rd \ {"delete"}, At(s, to)
        PROVE  Lists'
    <2>1. rd'[s] = to /\ \A k \in Session : k # s => rd'[k] = rd[k]
      BY <1>3 DEF At, TypeOK
    <2> QED
      BY <1>3, <2>1, ListsMove DEF Lists
  <1>4. ASSUME NEW s \in Session, HandleRead(s) \/ StartRead(s) \/ ReadFails(s) PROVE Lists'
    <2>1. \E to \in Rd \ {"delete"} : At(s, to)
      BY <1>4 DEF HandleRead, StartRead, ReadFails, Rd
    <2> QED
      BY <1>3, <1>4, <2>1 DEF HandleRead, StartRead, ReadFails
  <1>5. ASSUME NEW s \in Session, Reply(s) PROVE Lists'
    <2>1. CASE /\ Write(s, Reading)
               /\ At(s, "next")
               /\ UNCHANGED <<subs, threads, wired, ser, broken>>
      BY <1>3, <2>1 DEF Write, Rd
    <2> QED
      BY <1>2, <1>5, <2>1 DEF Reply
  <1>6. ASSUME NEW s \in Session, Unsubscribe(s) \/ Subscribe(s) PROVE Lists'
    BY <1>6, SubscribeLists
  <1>7. ASSUME NEW s \in Session, Forget(s) PROVE Lists'
    BY <1>7, ForgetLists
  <1>8. ASSUME NEW s \in Session, Delete(s) PROVE Lists'
    BY <1>8, DeleteLists
  <1>9. ASSUME NEW s \in Session, Accept(s) \/ AcceptFails(s) PROVE Lists'
    BY <1>9, AcceptLists DEF TypeOK, Session
  <1>10. ASSUME NEW a \in Arduino, MetricsBegin(a) \/ Metrics(a) PROVE Lists'
    BY <1>10, ListsFrame DEF MetricsBegin, Metrics, Sleep, Write, sessionVars
  <1>11. Session # {}
    BY ServerAssumption DEF Session
  <1> QED
    BY <1>2, <1>4, <1>5, <1>6, <1>7, <1>8, <1>9, <1>10, <1>11 DEF Next, Handler

--------------------------------------------------------------------------------
(* What the server promises.                                               *)

IInv == TypeOK /\ Numbered /\ (\A s \in Session : Orderly(s)) /\ Lists

(* The invariant holds of all behaviours.                                  *)
LEMMA Invariant == Safety => []IInv
  <1>1. Init => IInv
    <2> SUFFICES ASSUME Init PROVE IInv
      OBVIOUS
    <2> USE ServerAssumption DEF Init
    <2>1. TypeOK
      <3>1. 1 \in 1 .. MaxSessions /\ 0 \in 0 .. MaxLines
        BY ONLY ServerAssumption
      <3>2. subs \in [ListId -> Seq(Session)] /\ ser \in [Arduino -> Seq(Session)]
        OBVIOUS
      <3>3. /\ life \in [Session -> Life] /\ dl \in [Session -> Dline]
            /\ rd \in [Session -> Rd] /\ failing \in [Session -> Fail]
        BY DEF Life, Dline, Rd, Fail
      <3>4. /\ up \in [Session -> BOOLEAN] /\ sending \in [Session -> BOOLEAN]
            /\ out \in [Session -> Nat] /\ asleep \in [Session -> SUBSET Writer]
            /\ lines \in [Session -> 0 .. MaxLines]
        BY <3>1
      <3>5. threads \in 1 .. MaxSessions /\ wired \in BOOLEAN /\ broken \in BOOLEAN
        BY <3>1
      <3> QED
        BY <3>2, <3>3, <3>4, <3>5 DEF TypeOK
    <2>2. Numbered
      <3>1. \A s \in Session : s \in Nat /\ s >= 1
        BY DEF Session
      <3>2. \A s \in Session : s # 1 <=> s > 1
        BY ONLY <3>1
      <3> QED
        BY <3>2 DEF Numbered
    <2>3. \A s \in Session : Orderly(s)
      BY DEF Orderly
    <2>4. Lists
      <3>1. \A i \in ListId : Len(subs[i]) = 0 /\ 1 .. Len(subs[i]) = {}
        OBVIOUS
      <3> QED
        BY <3>1 DEF Lists, Once, Has, ListId
    <2> QED
      BY <2>1, <2>2, <2>3, <2>4 DEF IInv
  <1>2. IInv /\ [Next]_vars => IInv'
    BY TypeStep, OrderlyStep, ListsStep DEF IInv
  <1> QED
    BY <1>1, <1>2, PTL DEF Safety

(* Every variable keeps its type.                                          *)
THEOREM TypeCorrect == Safety => []TypeOK
  <1>1. IInv => TypeOK
    BY DEF IInv
  <1> QED
    BY <1>1, Invariant, PTL

(* However many clients, serial threads and handlers there are: no two     *)
(* writes to one client are ever under way (session::Write, handle_write). *)
THEOREM OneWriteHolds == Safety => []OneWrite
  <1>1. IInv => OneWrite
    BY DEF IInv, Orderly, OneWrite
  <1> QED
    BY <1>1, Invariant, PTL

(* No wake-up of session::Write is lost: while a thread sleeps in the      *)
(* Write of an open session, a write whose end wakes one is under way, or  *)
(* a thread that was woken is about to write.                              *)
THEOREM WillBeWokenHolds == Safety => []WillBeWoken
  <1>1. IInv => WillBeWoken
    <2>1. ASSUME IInv, NEW s \in Session,
                 life[s] = "open", asleep[s] # {}, failing[s] = "no"
          PROVE  Waker(s)
      BY <2>1 DEF IInv, Orderly
    <2> QED
      BY <2>1 DEF WillBeWoken, Waker
  <1> QED
    BY <1>1, Invariant, PTL

(* Of the threads accept() has started one at least is not asleep in a     *)
(* Write, for any number of clients that do not read.                      *)
THEOREM PoolServesHolds == Safety => []PoolServes
  <1>1. ASSUME IInv PROVE PoolServes
    <2>1. threads \in Nat /\ threads - 1 \in Nat
      BY <1>1 DEF IInv, TypeOK
    <2>2. IsFiniteSet(1 .. threads - 1) /\ Cardinality(1 .. threads - 1) = threads - 1
      BY <2>1, FS_Interval
    <2>3. ASSUME NEW s \in Blocked PROVE s \in 1 .. threads - 1
      <3>1. s \in Nat /\ s >= 1 /\ ~(s >= threads)
        BY <1>1, <2>3 DEF IInv, Orderly, Blocked, Session
      <3> QED
        BY ONLY <2>1, <3>1
    <2>4. Cardinality(Blocked) <= threads - 1 /\ Cardinality(Blocked) \in Nat
      BY <2>2, <2>3, FS_Subset, FS_CardinalityType
    <2> QED
      BY <2>1, <2>4 DEF PoolServes
  <1> QED
    BY <1>1, Invariant, PTL

(* A client is in a list at most once, whatever it asks for and cancels,   *)
(* so printMetrics sends it each sample once.                              *)
THEOREM SubscribedOnceHolds == Safety => []SubscribedOnce
  <1>1. IInv => SubscribedOnce
    BY DEF IInv, Lists, Once, SubscribedOnce
  <1> QED
    BY <1>1, Invariant, PTL

(* The lists of the luminaires have no deleted session, unless its own     *)
(* handler was still running when it was deleted.                          *)
THEOREM NoneLeftBehindHolds == Safety => []NoneLeftBehind
  <1>1. ASSUME IInv, NEW a \in Arduino, NEW j \in 1 .. Len(subs[a]),
               life[subs[a][j]] = "deleted"
        PROVE  rd[subs[a][j]] # "none"
    <2>1. subs[a] \in Seq(Session)
      BY <1>1 DEF IInv, TypeOK, ListId
    <2>2. subs[a][j] \in Session /\ Has(subs[a], subs[a][j])
      BY <2>1 DEF Has
    <2> QED
      BY <1>1, <2>2 DEF IInv, Lists
  <1>2. IInv => NoneLeftBehind
    BY <1>1 DEF NoneLeftBehind
  <1> QED
    BY <1>2, Invariant, PTL

================================================================================
