----------------------- MODULE MessageServiceProofs -----------------------
(***************************************************************************)
(* The message list is ordered by age, robots hear news in order, and the  *)
(* one list behaves as a mailbox per robot, for every number of robots,    *)
(* messages and rounds.                                                    *)
(***************************************************************************)
EXTENDS MessageService, FiniteSetTheorems, SequenceTheorems, TLAPS

\* Numbers grow: what is in the list, and what was fetched, was added before now.
Numbered ==
  /\ \A m \in messages : m.n <= added /\ m.send < sends
  /\ \A r \in Robots : fetched[r] <= added

IInv == TypeOK /\ Numbered /\ OldestFirst /\ NewsInOrder

\* The constructor's empty lists satisfy the invariant.
LEMMA InitIInv == Init => IInv
BY DEF Init, IInv, TypeOK, Numbered, OldestFirst, NewsInOrder

\* registerRobot touches no message.
LEMMA RegisterKeeps ==
  ASSUME IInv, NEW r \in Robots, RegisterRobot(r)
  PROVE  IInv'
BY DEF IInv, RegisterRobot, TypeOK, Numbered, OldestFirst, NewsInOrder

\* What sendMessage adds is a message, newer than all and not aged.
LEMMA CopyFields ==
  ASSUME TypeOK, NEW r \in Robots, NEW t \in Tasks, NEW m \in Copies(r, t)
  PROVE  /\ m \in Message
         /\ m.n > added /\ m.n <= added + Len(robots)
         /\ m.send = sends
         /\ m.ttl = Lifetime
         /\ \A k \in Copies(r, t) : m.n = k.n => m = k
<1>1. PICK i \in 1..Len(robots) :
        m = [n |-> added + i, send |-> sends, from |-> r, to |-> robots[i], task |-> t,
             ttl |-> Lifetime]
  BY DEF Copies
<1>2. Len(robots) \in Nat /\ robots[i] \in Robots /\ added \in Nat /\ sends \in Nat
  BY DEF TypeOK
<1>3. m \in Message
  BY <1>1, <1>2, ServiceAssumption DEF Message
<1>4. ASSUME NEW k \in Copies(r, t), m.n = k.n
      PROVE  m = k
  <2>1. PICK j \in 1..Len(robots) :
          k = [n |-> added + j, send |-> sends, from |-> r, to |-> robots[j], task |-> t,
               ttl |-> Lifetime]
    BY DEF Copies
  <2>2. i = j
    BY <1>1, <1>2, <1>4, <2>1
  <2> QED BY <1>1, <2>1, <2>2
<1> QED BY <1>1, <1>2, <1>3, <1>4

\* sendMessage adds the newest messages at the end of the list.
LEMMA SendKeeps ==
  ASSUME IInv, NEW r \in Robots, NEW t \in Tasks, SendMessage(r, t)
  PROVE  IInv'
<1> USE DEF IInv
<1> DEFINE new == Copies(r, t)
<1>1. /\ messages' = messages \cup new
      /\ added' = added + Len(robots)
      /\ sends' = sends + 1
      /\ UNCHANGED <<robots, fetched>>
  BY DEF SendMessage
<1>2. added \in Nat /\ sends \in Nat /\ Len(robots) \in Nat /\ Lifetime \in Nat
  BY ServiceAssumption DEF TypeOK
<1>3. \A m \in new :
        /\ m \in Message /\ m.n > added /\ m.n <= added + Len(robots)
        /\ m.send = sends /\ m.ttl = Lifetime
        /\ \A k \in new : m.n = k.n => m = k
  BY CopyFields
<1>4. \A m \in messages : /\ m.n \in Nat /\ m.send \in Nat /\ m.ttl \in Nat
                          /\ m.n <= added /\ m.send < sends /\ m.ttl <= Lifetime
  BY DEF TypeOK, Message, Numbered
<1> HIDE DEF new
<1>5. TypeOK'
  BY <1>1, <1>2, <1>3 DEF TypeOK
<1>6. Numbered'
  <2>1. ASSUME NEW m \in messages'
        PROVE  m.n <= added' /\ m.send < sends'
    BY <1>1, <1>2, <1>3, <1>4
  <2>2. ASSUME NEW q \in Robots
        PROVE  fetched'[q] <= added'
    BY <1>1, <1>2 DEF TypeOK, Numbered
  <2> QED BY <2>1, <2>2 DEF Numbered
<1>7. OldestFirst'
  <2> SUFFICES ASSUME NEW m \in messages', NEW k \in messages'
               PROVE  /\ m.n < k.n => m.ttl <= k.ttl /\ m.send <= k.send
                      /\ m.send = k.send => m.ttl = k.ttl
                      /\ m.n = k.n => m = k
    BY DEF OldestFirst
  <2>1. CASE m \in messages /\ k \in messages
    BY <2>1 DEF OldestFirst
  <2>2. CASE m \in messages /\ k \in new
    BY <2>2, <1>2, <1>3, <1>4
  <2>3. CASE m \in new /\ k \in messages
    <3>1. m.n \in Nat /\ m.n > added /\ m.send = sends
      BY <2>3, <1>3 DEF Message
    <3>2. k.n \in Nat /\ k.n <= added /\ k.send \in Nat /\ k.send < sends
      BY <2>3, <1>4
    <3> QED BY <3>1, <3>2, <1>2
  <2>4. CASE m \in new /\ k \in new
    BY <2>4, <1>2, <1>3
  <2> QED BY <1>1, <2>1, <2>2, <2>3, <2>4
<1>8. NewsInOrder'
  <2> SUFFICES ASSUME NEW m \in messages'
               PROVE  fetched[m.to] < m.n
    BY <1>1 DEF NewsInOrder
  <2>1. CASE m \in messages
    BY <2>1 DEF NewsInOrder
  <2>2. CASE m \in new
    <3>1. m.to \in Robots /\ m.n \in Nat /\ m.n > added
      BY <2>2, <1>3 DEF Message
    <3>2. fetched[m.to] \in Nat /\ fetched[m.to] <= added
      BY <3>1 DEF TypeOK, Numbered
    <3> QED BY <3>1, <3>2, <1>2
  <2> QED BY <1>1, <2>1, <2>2
<1> QED BY <1>5, <1>6, <1>7, <1>8

\* getNextMessage removes the oldest message for the robot, so what stays for it
\* is newer.
LEMMA FetchKeeps ==
  ASSUME IInv, NEW r \in Robots, GetNextMessage(r)
  PROVE  IInv'
<1> USE DEF IInv
<1>1. PICK m \in messages :
        /\ IsNext(m, r)
        /\ messages' = messages \ {m}
        /\ fetched' = [fetched EXCEPT ![r] = m.n]
  BY DEF GetNextMessage
<1>2. UNCHANGED <<robots, added, sends>>
  BY DEF GetNextMessage
<1>3. m \in Message /\ m.n \in Nat /\ m.n <= added /\ m.to = r
  BY <1>1 DEF TypeOK, Message, Numbered, IsNext, For
<1>4. TypeOK'
  BY <1>1, <1>2, <1>3 DEF TypeOK
<1>5. Numbered'
  BY <1>1, <1>2, <1>3 DEF Numbered, TypeOK
<1>6. OldestFirst'
  BY <1>1 DEF OldestFirst
<1>7. NewsInOrder'
  <2> SUFFICES ASSUME NEW k \in messages, k # m
               PROVE  fetched'[k.to] < k.n
    BY <1>1 DEF NewsInOrder
  <2>1. k.to \in Robots /\ k.n \in Nat
    BY DEF TypeOK, Message
  <2>2. CASE k.to = r
    <3>1. m.n <= k.n
      BY <1>1, <2>2 DEF IsNext, For
    <3>2. m.n # k.n
      BY DEF OldestFirst
    <3>3. fetched'[k.to] = m.n
      BY <1>1, <2>2 DEF TypeOK
    <3> QED BY <3>1, <3>2, <3>3, <1>3, <2>1
  <2>3. CASE k.to # r
    BY <1>1, <2>1, <2>3 DEF NewsInOrder, TypeOK
  <2> QED BY <2>2, <2>3
<1> QED BY <1>4, <1>5, <1>6, <1>7

\* process() ages all messages alike and keeps the living in their order.
LEMMA ProcessKeeps ==
  ASSUME IInv, Process
  PROVE  IInv'
<1> USE DEF IInv
<1>1. messages' = {m \in {Aged(k) : k \in messages} : ~Dead(m)}
  BY DEF Process
<1>2. UNCHANGED <<robots, added, sends, fetched>>
  BY DEF Process
<1>3. ASSUME NEW m \in messages'
      PROVE  \E k \in messages :
               /\ m = Aged(k) /\ m \in Message /\ k \in Message
               /\ m.n = k.n /\ m.send = k.send /\ m.to = k.to /\ m.ttl = k.ttl - 1
  <2>1. PICK k \in messages : m = Aged(k) /\ ~Dead(m)
    BY <1>1
  <2>2. k \in Message
    BY DEF TypeOK
  <2>3. /\ m = [k EXCEPT !.ttl = k.ttl - 1]
        /\ k.ttl \in 1..Lifetime
    BY <2>1, <2>2 DEF Aged, Message
  <2>4. m.n = k.n /\ m.send = k.send /\ m.to = k.to /\ m.ttl = k.ttl - 1
    BY <2>2, <2>3 DEF Message
  <2>5. m.ttl \in 1..Lifetime
    BY <2>1, <2>3, <2>4, ServiceAssumption DEF Dead
  <2>6. m \in Message
    BY <2>2, <2>3, <2>4, <2>5 DEF Message
  <2> QED BY <2>1, <2>2, <2>4, <2>6
<1>4. TypeOK'
  BY <1>2, <1>3 DEF TypeOK
<1>5. Numbered'
  BY <1>2, <1>3 DEF Numbered, TypeOK, Message
<1>6. OldestFirst'
  <2> SUFFICES ASSUME NEW m \in messages', NEW k \in messages'
               PROVE  /\ m.n < k.n => m.ttl <= k.ttl /\ m.send <= k.send
                      /\ m.send = k.send => m.ttl = k.ttl
                      /\ m.n = k.n => m = k
    BY DEF OldestFirst
  <2>1. PICK a \in messages :
          /\ m = Aged(a) /\ a \in Message
          /\ m.n = a.n /\ m.send = a.send /\ m.ttl = a.ttl - 1
    BY <1>3
  <2>2. PICK b \in messages :
          /\ k = Aged(b) /\ b \in Message
          /\ k.n = b.n /\ k.send = b.send /\ k.ttl = b.ttl - 1
    BY <1>3
  <2>3. a.ttl \in Nat /\ b.ttl \in Nat
    BY <2>1, <2>2 DEF Message
  <2>4. /\ a.n < b.n => a.ttl <= b.ttl /\ a.send <= b.send
        /\ a.send = b.send => a.ttl = b.ttl
        /\ a.n = b.n => a = b
    BY DEF OldestFirst
  <2> QED BY <2>1, <2>2, <2>3, <2>4
<1>7. NewsInOrder'
  BY <1>2, <1>3 DEF NewsInOrder
<1> QED BY <1>4, <1>5, <1>6, <1>7

\* Every call of the service keeps the invariant.
LEMMA NextIInv == IInv /\ [Next]_vars => IInv'
<1> SUFFICES ASSUME IInv, [Next]_vars PROVE IInv'
  OBVIOUS
<1>1. ASSUME NEW r \in Robots, RegisterRobot(r) PROVE IInv'
  BY <1>1, RegisterKeeps
<1>2. ASSUME NEW r \in Robots, GetNextMessage(r) PROVE IInv'
  BY <1>2, FetchKeeps
<1>3. ASSUME NEW r \in Robots, NEW t \in Tasks, SendMessage(r, t) PROVE IInv'
  BY <1>3, SendKeeps
<1>4. CASE Process
  BY <1>4, ProcessKeeps
<1>5. CASE UNCHANGED vars
  BY <1>5 DEF IInv, vars, TypeOK, Numbered, OldestFirst, NewsInOrder
<1> QED BY <1>1, <1>2, <1>3, <1>4, <1>5 DEF Next

\* The invariant holds in every state of the service.
LEMMA AlwaysIInv == Spec => []IInv
BY InitIInv, NextIInv, PTL DEF Spec

\* Fields keep their types and no dead message stays in the list.
THEOREM TypeCorrect == Spec => []TypeOK
<1>1. IInv => TypeOK
  BY DEF IInv
<1> QED BY <1>1, AlwaysIInv, PTL

\* The list is ordered by age, and the copies of a broadcast are equally old.
THEOREM ListSortedByAge == Spec => []OldestFirst
<1>1. IInv => OldestFirst
  BY DEF IInv
<1> QED BY <1>1, AlwaysIInv, PTL

\* What a robot can still fetch is newer than all it fetched.
THEOREM NewsNeverStale == Spec => []NewsInOrder
<1>1. IInv => NewsInOrder
  BY DEF IInv
<1> QED BY <1>1, AlwaysIInv, PTL

-----------------------------------------------------------------------------
(* The list, seen by one robot, is a queue: every message for it has a     *)
(* place, one more than there are messages before it.                      *)

Lined(S) ==
  /\ IsFiniteSet(S)
  /\ S \subseteq Message
  /\ \A m, k \in S : m.n = k.n => m = k

Before(S, m) == {k \in S : k.n < m.n}

Place(S, m) == Cardinality(Before(S, m)) + 1

\* Places are counted from 1 to the number of messages.
LEMMA PlaceBounds ==
  ASSUME NEW S, Lined(S), NEW m \in S
  PROVE  /\ IsFiniteSet(Before(S, m))
         /\ Cardinality(S) \in Nat
         /\ Cardinality(Before(S, m)) \in Nat
         /\ Place(S, m) \in 1..Cardinality(S)
<1>1. IsFiniteSet(S) /\ m.n \in Nat
  BY DEF Lined, Message
<1>2. /\ IsFiniteSet(S \ {m})
      /\ Cardinality(S \ {m}) = Cardinality(S) - 1
  BY <1>1, FS_RemoveElement
<1>3. Before(S, m) \in SUBSET (S \ {m})
  BY <1>1 DEF Before
<1>4. /\ IsFiniteSet(Before(S, m))
      /\ Cardinality(Before(S, m)) <= Cardinality(S \ {m})
  BY <1>2, <1>3, FS_Subset
<1>5. Cardinality(S) \in Nat /\ Cardinality(Before(S, m)) \in Nat
  BY <1>1, <1>4, FS_CardinalityType
<1> QED BY <1>2, <1>4, <1>5 DEF Place

\* A later message has a later place.
LEMMA PlaceAscends ==
  ASSUME NEW S, Lined(S), NEW m \in S, NEW k \in S, m.n < k.n
  PROVE  Place(S, m) < Place(S, k)
<1>1. m.n \in Nat /\ k.n \in Nat /\ \A j \in S : j.n \in Nat
  BY DEF Lined, Message
<1>2. Before(S, m) \cup {m} \in SUBSET Before(S, k)
  BY <1>1 DEF Before
<1>3. m \notin Before(S, m)
  BY <1>1 DEF Before
<1>4. Cardinality(Before(S, m) \cup {m}) = Cardinality(Before(S, m)) + 1
  BY <1>3, PlaceBounds, FS_AddElement
<1>5. Cardinality(Before(S, m) \cup {m}) <= Cardinality(Before(S, k))
  BY <1>2, PlaceBounds, FS_Subset
<1>6. Cardinality(Before(S, m)) \in Nat /\ Cardinality(Before(S, k)) \in Nat
  BY PlaceBounds
<1> QED BY <1>4, <1>5, <1>6 DEF Place

\* No two messages share a place.
LEMMA PlaceIsOwn ==
  ASSUME NEW S, Lined(S), NEW m \in S, NEW k \in S, Place(S, m) = Place(S, k)
  PROVE  m = k
<1>1. m.n \in Nat /\ k.n \in Nat
  BY DEF Lined, Message
<1>2. Place(S, m) \in Nat
  BY PlaceBounds
<1>3. ~(m.n < k.n) /\ ~(k.n < m.n)
  BY <1>2, PlaceAscends
<1> QED BY <1>1, <1>3 DEF Lined

\* And no place is free: as many messages as places.
LEMMA EveryPlaceTaken ==
  ASSUME NEW S, Lined(S), NEW i \in 1..Cardinality(S)
  PROVE  \E m \in S : Place(S, m) = i
<1> DEFINE places == 1..Cardinality(S)
           place == [m \in S |-> Place(S, m)]
<1>1. IsFiniteSet(S) /\ Cardinality(S) \in Nat
  BY FS_CardinalityType DEF Lined
<1>2. IsFiniteSet(places) /\ Cardinality(places) = Cardinality(S)
  BY <1>1, FS_Interval
<1>3. place \in [S -> places]
  BY PlaceBounds
<1>4. \A m, k \in S : place[m] = place[k] => m = k
  BY PlaceIsOwn
<1>5. place \in Injection(S, places)
  BY <1>3, <1>4 DEF Injection, IsInjective
<1>6. place \in Surjection(S, places)
  BY <1>2, <1>5, FS_Injection
<1>7. \E m \in S : place[m] = i
  BY <1>6 DEF Surjection
<1> QED BY <1>7

\* InLine finds the message with the place asked for.
LEMMA InLineFinds ==
  ASSUME NEW S, Lined(S), NEW i \in 1..Cardinality(S)
  PROVE  InLine(S, i) \in S /\ Place(S, InLine(S, i)) = i
<1> DEFINE At(m) == Cardinality({k \in S : k.n < m.n}) = i - 1
<1>1. \A m \in S : Cardinality(Before(S, m)) \in Nat
  BY PlaceBounds
<1>2. \A m \in S : At(m) <=> Place(S, m) = i
  BY <1>1 DEF Place, Before
<1>3. \E m \in S : At(m)
  BY <1>2, EveryPlaceTaken
<1>4. InLine(S, i) = CHOOSE m \in S : At(m)
  BY DEF InLine
<1> HIDE DEF At
<1> QED BY <1>2, <1>3, <1>4

\* A mailbox is the letters of the messages, each at its message's place.
LEMMA MailboxShows ==
  ASSUME NEW S, Lined(S)
  PROVE  /\ Mailbox(S) \in Seq(Boxes!Letter)
         /\ Len(Mailbox(S)) = Cardinality(S)
         /\ \A m \in S : Mailbox(S)[Place(S, m)] = Letter(m)
<1>1. Cardinality(S) \in Nat
  BY FS_CardinalityType DEF Lined
<1>2. \A m \in S : Letter(m) \in Boxes!Letter
  BY ServiceAssumption DEF Lined, Message, Letter, Boxes!Letter
<1>3. \A i \in 1..Cardinality(S) : Letter(InLine(S, i)) \in Boxes!Letter
  BY <1>2, InLineFinds
<1>4. Mailbox(S) \in [1..Cardinality(S) -> Boxes!Letter]
  BY <1>3 DEF Mailbox
<1>5. Mailbox(S) \in Seq(Boxes!Letter) /\ Len(Mailbox(S)) = Cardinality(S)
  BY <1>1, <1>4
<1>6. ASSUME NEW m \in S
      PROVE  Mailbox(S)[Place(S, m)] = Letter(m)
  <2>1. Place(S, m) \in 1..Cardinality(S)
    BY PlaceBounds
  <2>2. InLine(S, Place(S, m)) = m
    BY <2>1, InLineFinds, PlaceIsOwn
  <2> QED BY <2>1, <2>2 DEF Mailbox
<1> QED BY <1>5, <1>6

\* What has the letters at the same places is the mailbox.
LEMMA MailboxIs ==
  ASSUME NEW S, Lined(S), NEW s \in Seq(Boxes!Letter), Len(s) = Cardinality(S),
         \A m \in S : s[Place(S, m)] = Letter(m)
  PROVE  Mailbox(S) = s
<1>1. /\ Mailbox(S) \in Seq(Boxes!Letter)
      /\ Len(Mailbox(S)) = Cardinality(S)
      /\ \A m \in S : Mailbox(S)[Place(S, m)] = Letter(m)
  BY MailboxShows
<1>2. \A i \in 1..Cardinality(S) : \E m \in S : Place(S, m) = i
  BY EveryPlaceTaken
<1>3. \A i \in 1..Len(Mailbox(S)) : Mailbox(S)[i] = s[i]
  BY <1>1, <1>2
<1> QED BY <1>1, <1>3, SeqEqual

\* Taking the first message out moves every other one place ahead.
LEMMA FirstTaken ==
  ASSUME NEW S, Lined(S), NEW m \in S, \A k \in S : m.n <= k.n
  PROVE  Mailbox(S) # << >> /\ Mailbox(S \ {m}) = Tail(Mailbox(S))
<1> DEFINE T == S \ {m}
           s == Tail(Mailbox(S))
<1>1. /\ IsFiniteSet(S) /\ IsFiniteSet(T)
      /\ Cardinality(S) \in Nat
      /\ Cardinality(T) = Cardinality(S) - 1
      /\ m.n \in Nat
  BY FS_RemoveElement, FS_CardinalityType DEF Lined, Message
<1>2. Lined(T)
  BY <1>1 DEF Lined
<1>3. /\ Mailbox(S) \in Seq(Boxes!Letter)
      /\ Len(Mailbox(S)) = Cardinality(S)
      /\ \A k \in S : Mailbox(S)[Place(S, k)] = Letter(k)
  BY MailboxShows
<1>4. Place(S, m) \in 1..Cardinality(S)
  BY PlaceBounds
<1>5. Mailbox(S) # << >>
  BY <1>3, <1>4
<1>6. /\ s \in Seq(Boxes!Letter)
      /\ Len(s) = Cardinality(S) - 1
      /\ \A i \in 1..Len(s) : s[i] = Mailbox(S)[i + 1]
  BY <1>3, <1>5, HeadTailProperties
<1>7. ASSUME NEW k \in T
      PROVE  s[Place(T, k)] = Letter(k)
  <2>1. k.n \in Nat /\ m.n < k.n
    BY <1>1 DEF Lined, Message
  <2>2. Before(T, k) = Before(S, k) \ {m} /\ m \in Before(S, k)
    BY <2>1 DEF Before
  <2>3. IsFiniteSet(Before(S, k)) /\ Cardinality(Before(S, k)) \in Nat
    BY PlaceBounds
  <2>4. Cardinality(Before(T, k)) = Cardinality(Before(S, k)) - 1
    BY <2>2, <2>3, FS_RemoveElement
  <2>5. Place(S, k) = Place(T, k) + 1
    BY <2>3, <2>4 DEF Place
  <2>6. Place(T, k) \in 1..Cardinality(T)
    BY <1>2, PlaceBounds
  <2>7. s[Place(T, k)] = Mailbox(S)[Place(S, k)]
    BY <1>1, <1>6, <2>5, <2>6
  <2> QED BY <1>3, <2>7
<1> HIDE DEF T, s
<1>8. Mailbox(T) = s
  BY <1>1, <1>2, <1>6, <1>7, MailboxIs
<1> QED BY <1>5, <1>8 DEF T, s

\* Newer messages that look alike come behind those that are there.
LEMMA NewLast ==
  ASSUME NEW S, NEW N, Lined(S), Lined(S \cup N),
         \A m \in S, k \in N : m.n < k.n,
         NEW letter \in Boxes!Letter, \A k \in N : Letter(k) = letter
  PROVE  Mailbox(S \cup N) = Mailbox(S) \o [i \in 1..Cardinality(N) |-> letter]
<1> DEFINE T == S \cup N
           new == [i \in 1..Cardinality(N) |-> letter]
           s == Mailbox(S) \o new
<1>1. /\ IsFiniteSet(S) /\ IsFiniteSet(T) /\ IsFiniteSet(N)
      /\ Cardinality(S) \in Nat /\ Cardinality(N) \in Nat
  <2>1. IsFiniteSet(S) /\ IsFiniteSet(T)
    BY DEF Lined
  <2>2. N \in SUBSET T
    OBVIOUS
  <2>3. IsFiniteSet(N)
    BY <2>1, <2>2, FS_Subset
  <2> QED BY <2>1, <2>3, FS_CardinalityType
<1>2. \A m \in T : m.n \in Nat
  BY DEF Lined, Message
<1>3. S \cap N = {}
  BY <1>2
<1>4. Cardinality(T) = Cardinality(S) + Cardinality(N)
  <2>1. Cardinality(T) = Cardinality(S) + Cardinality(N) - Cardinality(S \cap N)
    BY <1>1, FS_Union
  <2> QED BY <1>1, <1>3, <2>1, FS_EmptySet
<1>5. /\ Mailbox(S) \in Seq(Boxes!Letter)
      /\ Len(Mailbox(S)) = Cardinality(S)
      /\ \A k \in S : Mailbox(S)[Place(S, k)] = Letter(k)
  BY MailboxShows
<1>6. new \in Seq(Boxes!Letter) /\ Len(new) = Cardinality(N)
  <2>1. new \in [1..Cardinality(N) -> Boxes!Letter]
    OBVIOUS
  <2> QED BY <1>1, <2>1
<1>7. /\ s \in Seq(Boxes!Letter)
      /\ Len(s) = Cardinality(T)
      /\ \A i \in 1..Cardinality(T) :
           s[i] = IF i <= Cardinality(S) THEN Mailbox(S)[i] ELSE new[i - Cardinality(S)]
  <2> HIDE DEF T, new
  <2>1. /\ s \in Seq(Boxes!Letter)
        /\ Len(s) = Len(Mailbox(S)) + Len(new)
        /\ \A i \in 1..Len(Mailbox(S)) + Len(new) :
             s[i] = IF i <= Len(Mailbox(S)) THEN Mailbox(S)[i] ELSE new[i - Len(Mailbox(S))]
    BY <1>5, <1>6, ConcatProperties, Zenon
  <2> HIDE DEF s
  <2> QED BY <1>4, <1>5, <1>6, <2>1
<1>8. ASSUME NEW k \in T
      PROVE  s[Place(T, k)] = Letter(k)
  <2>1. Place(T, k) \in 1..Cardinality(T)
    BY PlaceBounds
  <2>2. CASE k \in S
    <3>1. Before(T, k) = Before(S, k)
      BY <1>2, <2>2 DEF Before
    <3>2. Place(T, k) = Place(S, k) /\ Place(S, k) \in 1..Cardinality(S)
      BY <2>2, <3>1, PlaceBounds DEF Place
    <3> QED BY <1>1, <1>5, <1>7, <2>1, <2>2, <3>2
  <2>3. CASE k \in N
    <3>1. S \in SUBSET Before(T, k)
      BY <2>3 DEF Before
    <3>2. IsFiniteSet(Before(T, k)) /\ Cardinality(Before(T, k)) \in Nat
      BY PlaceBounds
    <3>3. Cardinality(S) <= Cardinality(Before(T, k))
      BY <3>1, <3>2, FS_Subset
    <3>4. Place(T, k) > Cardinality(S)
      BY <1>1, <3>2, <3>3 DEF Place
    <3>5. s[Place(T, k)] = new[Place(T, k) - Cardinality(S)]
      <4>1. ~(Place(T, k) <= Cardinality(S))
        BY <1>1, <2>1, <3>4
      <4> HIDE DEF T, s, new
      <4> QED BY <1>7, <2>1, <4>1
    <3>6. Place(T, k) - Cardinality(S) \in 1..Cardinality(N)
      BY <1>1, <1>4, <2>1, <3>4
    <3> QED BY <2>3, <3>5, <3>6
  <2> QED BY <2>2, <2>3
<1> HIDE DEF T, s
<1>9. Mailbox(T) = s
  BY <1>7, <1>8, MailboxIs DEF T
<1> QED BY <1>9 DEF T, s

\* What aging leaves alone of a message.
LEMMA AgedFields ==
  ASSUME NEW m \in Message
  PROVE  /\ Aged(m).n = m.n /\ Aged(m).send = m.send
         /\ Aged(m).from = m.from /\ Aged(m).to = m.to /\ Aged(m).task = m.task
         /\ Aged(m).ttl = m.ttl - 1
         /\ ~Dead(Aged(m)) <=> m.ttl # 1
         /\ ~Dead(Aged(m)) => Aged(m) \in Message
<1>1. /\ m.ttl \in 1..Lifetime
      /\ Aged(m) = [m EXCEPT !.ttl = m.ttl - 1]
  BY DEF Aged, Message
<1>2. /\ Aged(m).n = m.n /\ Aged(m).send = m.send
      /\ Aged(m).from = m.from /\ Aged(m).to = m.to /\ Aged(m).task = m.task
      /\ Aged(m).ttl = m.ttl - 1
  BY <1>1 DEF Message
<1>3. ~Dead(Aged(m)) <=> m.ttl # 1
  BY <1>1, <1>2, ServiceAssumption DEF Dead
<1>4. ASSUME m.ttl # 1
      PROVE  Aged(m) \in Message
  <2>1. m.ttl - 1 \in 1..Lifetime
    BY <1>1, <1>4, ServiceAssumption
  <2> QED BY <1>1, <2>1 DEF Message
<1> QED BY <1>2, <1>3, <1>4

\* Aging neither merges messages nor changes how many there are.
LEMMA AgedCount ==
  ASSUME NEW R, Lined(R)
  PROVE  LET aged == {Aged(m) : m \in R}
         IN  IsFiniteSet(aged) /\ Cardinality(aged) = Cardinality(R)
<1> DEFINE aged == {Aged(m) : m \in R}
           age == [m \in R |-> Aged(m)]
<1>1. age \in Surjection(R, aged)
  BY DEF Surjection
<1>2. \A m, k \in R : Aged(m) = Aged(k) => m = k
  <2> SUFFICES ASSUME NEW m \in R, NEW k \in R, Aged(m) = Aged(k)
               PROVE  m = k
    OBVIOUS
  <2>1. Aged(m).n = m.n /\ Aged(k).n = k.n
    BY AgedFields DEF Lined
  <2> QED BY <2>1 DEF Lined
<1>3. age \in Injection(R, aged)
  BY <1>2 DEF Injection, IsInjective
<1>4. IsFiniteSet(R)
  BY DEF Lined
<1> HIDE DEF aged, age
<1>5. IsFiniteSet(aged) /\ Cardinality(aged) = Cardinality(R)
  BY <1>1, <1>3, <1>4, FS_Surjection
<1> QED BY <1>5 DEF aged

\* A part of a list is a list.
LEMMA LinedPart ==
  ASSUME NEW S, Lined(S), NEW R \in SUBSET S
  PROVE  Lined(R)
BY FS_Subset DEF Lined

\* The messages a round removes, and those it leaves.
LastRound(S) == {m \in S : m.ttl = 1}
Left(S) == {m \in {Aged(k) : k \in S} : ~Dead(m)}

\* The messages in their last round come first, as many as there are.
LEMMA OldFirst ==
  ASSUME NEW S, Lined(S), \A m, k \in S : m.n < k.n => m.ttl <= k.ttl
  PROVE  LET old == LastRound(S) IN
         /\ IsFiniteSet(old) /\ Cardinality(old) \in Nat
         /\ Cardinality(old) <= Cardinality(S)
         /\ \A m \in S : m \in old <=> Place(S, m) <= Cardinality(old)
         /\ \A m \in S : m \notin old => old \in SUBSET Before(S, m)
<1> DEFINE old == LastRound(S)
<1> USE DEF LastRound
<1>1. IsFiniteSet(S) /\ \A m \in S : m.n \in Nat /\ m.ttl \in Nat /\ m.ttl >= 1
  BY ServiceAssumption DEF Lined, Message
<1>2. old \in SUBSET S
  OBVIOUS
<1>3. /\ IsFiniteSet(old) /\ Cardinality(old) \in Nat
      /\ Cardinality(old) <= Cardinality(S)
  BY <1>1, <1>2, FS_Subset, FS_CardinalityType
<1>4. ASSUME NEW m \in S, m \in old
      PROVE  Place(S, m) <= Cardinality(old)
  <2>1. Before(S, m) \in SUBSET (old \ {m})
    <3> SUFFICES ASSUME NEW k \in S, k.n < m.n
                 PROVE  k \in old /\ k # m
      BY DEF Before
    <3>1. k.ttl <= m.ttl /\ m.ttl = 1 /\ k.ttl \in Nat /\ k.ttl >= 1 /\ m.n \in Nat
      BY <1>1, <1>4
    <3> QED BY <3>1
  <2>2. /\ IsFiniteSet(old \ {m})
        /\ Cardinality(old \ {m}) = Cardinality(old) - 1
    BY <1>3, <1>4, FS_RemoveElement
  <2>3. Cardinality(Before(S, m)) <= Cardinality(old) - 1
    BY <2>1, <2>2, FS_Subset
  <2>4. Cardinality(Before(S, m)) \in Nat
    BY PlaceBounds
  <2> QED BY <1>3, <2>3, <2>4 DEF Place
<1>5. ASSUME NEW m \in S, m \notin old
      PROVE  old \in SUBSET Before(S, m)
  <2> SUFFICES ASSUME NEW k \in S, k.ttl = 1
               PROVE  k.n < m.n
    BY DEF Before
  <2>1. m.ttl # 1 /\ m.ttl >= 1 /\ m.ttl \in Nat /\ m.n \in Nat /\ k.n \in Nat
    BY <1>1, <1>5
  <2>2. m.n # k.n
    BY <2>1 DEF Lined
  <2>3. ~(m.n < k.n)
    BY <2>1
  <2> QED BY <2>1, <2>2, <2>3
<1>6. ASSUME NEW m \in S, m \notin old
      PROVE  ~(Place(S, m) <= Cardinality(old))
  <2>1. IsFiniteSet(Before(S, m)) /\ Cardinality(Before(S, m)) \in Nat
    BY PlaceBounds
  <2>2. Cardinality(old) <= Cardinality(Before(S, m))
    BY <1>5, <1>6, <2>1, FS_Subset
  <2> QED BY <1>3, <2>1, <2>2 DEF Place
<1> QED BY <1>3, <1>4, <1>5, <1>6

\* The messages that are left after a round, and their places.
LEMMA LeftPlaces ==
  ASSUME NEW S, Lined(S), \A m, k \in S : m.n < k.n => m.ttl <= k.ttl
  PROVE  LET old == LastRound(S)
             left == Left(S)
         IN
         /\ Lined(left)
         /\ Cardinality(left) = Cardinality(S) - Cardinality(old)
         /\ left = {Aged(m) : m \in S \ old}
         /\ \A m \in S \ old : Place(left, Aged(m)) = Place(S, m) - Cardinality(old)
<1> DEFINE old == LastRound(S)
           left == Left(S)
<1>1. /\ IsFiniteSet(S) /\ Cardinality(S) \in Nat
      /\ \A m \in S : m \in Message
  BY FS_CardinalityType DEF Lined
<1>2. /\ IsFiniteSet(old) /\ Cardinality(old) \in Nat
      /\ \A m \in S : m \notin old => old \in SUBSET Before(S, m)
  BY OldFirst
<1>3. left = {Aged(m) : m \in S \ old}
  <2>1. \A m \in S : ~Dead(Aged(m)) <=> m \notin old
    BY <1>1, AgedFields DEF LastRound
  <2> QED BY <2>1 DEF Left
<1>4. Lined(S \ old)
  BY LinedPart
<1>5. IsFiniteSet(left) /\ Cardinality(left) = Cardinality(S \ old)
  BY <1>3, <1>4, AgedCount
<1>6. Cardinality(S \ old) = Cardinality(S) - Cardinality(old)
  <2>1. S \cap old = old
    BY DEF LastRound
  <2>2. Cardinality(S \ old) = Cardinality(S) - Cardinality(S \cap old)
    BY <1>1, FS_Difference
  <2> QED BY <2>1, <2>2
<1>7. Lined(left)
  <2>1. \A m \in S \ old : Aged(m) \in Message /\ Aged(m).n = m.n
    BY <1>1, AgedFields DEF LastRound
  <2>2. left \subseteq Message
    BY <1>3, <2>1
  <2>3. ASSUME NEW a \in left, NEW b \in left, a.n = b.n
        PROVE  a = b
    <3>1. PICK m \in S \ old : a = Aged(m)
      BY <1>3
    <3>2. PICK k \in S \ old : b = Aged(k)
      BY <1>3
    <3>3. m.n = k.n
      BY <2>1, <2>3, <3>1, <3>2
    <3> QED BY <3>1, <3>2, <3>3 DEF Lined
  <2> QED BY <1>5, <2>2, <2>3 DEF Lined
<1>8. ASSUME NEW m \in S \ old
      PROVE  Place(left, Aged(m)) = Place(S, m) - Cardinality(old)
  <2> DEFINE ahead == Before(S, m) \ old
  <2>1. Before(left, Aged(m)) = {Aged(k) : k \in ahead}
    <3>1. \A k \in S : Aged(k).n = k.n
      BY <1>1, AgedFields
    <3> QED BY <1>3, <3>1 DEF Before
  <2>2. ahead \in SUBSET S
    BY DEF Before
  <2>3. Lined(ahead)
    BY <2>2, LinedPart
  <2>4. Cardinality(Before(left, Aged(m))) = Cardinality(ahead)
    BY <2>1, <2>3, AgedCount
  <2>5. IsFiniteSet(Before(S, m)) /\ Cardinality(Before(S, m)) \in Nat
    BY PlaceBounds
  <2>6. Before(S, m) \cap old = old
    BY <1>2
  <2>7. Cardinality(ahead) = Cardinality(Before(S, m)) - Cardinality(old)
    <3>1. Cardinality(ahead) = Cardinality(Before(S, m)) - Cardinality(Before(S, m) \cap old)
      BY <2>5, FS_Difference
    <3> QED BY <2>6, <3>1
  <2> QED BY <1>2, <2>4, <2>5, <2>7 DEF Place
<1> QED BY <1>3, <1>5, <1>6, <1>7, <1>8

\* A round cuts the letters of their last day off the front of the mailbox and
\* makes the others older.
LEMMA FrontExpires ==
  ASSUME NEW S, Lined(S), \A m, k \in S : m.n < k.n => m.ttl <= k.ttl
  PROVE  Boxes!Expires(Mailbox(S), Mailbox(Left(S)))
<1> DEFINE old == LastRound(S)
           left == Left(S)
           box == Mailbox(S)
           older == Boxes!Older(box)
           cut == Cardinality(old)
           size == Cardinality(S)
           s == SubSeq(older, cut + 1, size)
<1>1. size \in Nat /\ \A m \in S : m \in Message
  BY FS_CardinalityType DEF Lined
<1>2. /\ box \in Seq(Boxes!Letter) /\ Len(box) = size /\ DOMAIN box = 1..size
      /\ \A m \in S : box[Place(S, m)] = Letter(m)
  BY MailboxShows
<1>3. /\ cut \in Nat /\ cut <= size
      /\ \A m \in S : m \in old <=> Place(S, m) <= cut
  BY OldFirst
<1>4. \A i \in 1..size : \E m \in S : Place(S, m) = i
  BY EveryPlaceTaken
<1>5. \A m \in S : Letter(m).age = Lifetime - 1 <=> m \in old
  BY <1>1, ServiceAssumption DEF Letter, Message, LastRound
<1>6. \A i \in 1..size : box[i].age = Lifetime - 1 <=> i <= cut
  BY <1>2, <1>3, <1>4, <1>5
<1>8. /\ Lined(left)
      /\ Cardinality(left) = size - cut
      /\ left = {Aged(m) : m \in S \ old}
      /\ \A m \in S \ old : Place(left, Aged(m)) = Place(S, m) - cut
  BY LeftPlaces
<1>9. \A m \in S \ old : Letter(Aged(m)) = [Letter(m) EXCEPT !.age = @ + 1]
  <2> SUFFICES ASSUME NEW m \in S \ old
               PROVE  Letter(Aged(m)) = [Letter(m) EXCEPT !.age = @ + 1]
    OBVIOUS
  <2>1. /\ Aged(m).from = m.from /\ Aged(m).task = m.task /\ Aged(m).ttl = m.ttl - 1
        /\ m.ttl \in Nat /\ Lifetime \in Nat
    BY <1>1, AgedFields, ServiceAssumption DEF Message
  <2>2. Lifetime - (m.ttl - 1) = Lifetime - m.ttl + 1
    BY <2>1
  <2> QED BY <2>1, <2>2 DEF Letter
<1>10. ASSUME NEW m \in S \ old
       PROVE  /\ Place(S, m) \in cut + 1 .. size
              /\ older[Place(S, m)] = Letter(Aged(m))
              /\ older[Place(S, m)] \in Boxes!Letter
  <2>1. Place(S, m) \in 1..size /\ ~(Place(S, m) <= cut)
    BY <1>3, PlaceBounds
  <2>2. Place(S, m) \in cut + 1 .. size
    BY <1>1, <1>3, <2>1
  <2>3. older[Place(S, m)] = [box[Place(S, m)] EXCEPT !.age = @ + 1]
    BY <1>2, <2>1 DEF Boxes!Older
  <2>4. older[Place(S, m)] = Letter(Aged(m))
    BY <1>2, <1>9, <2>3
  <2>5. Letter(Aged(m)) \in Boxes!Letter
    <3>1. Aged(m) \in Message
      BY <1>8 DEF Lined
    <3> QED BY <3>1, ServiceAssumption DEF Letter, Message, Boxes!Letter
  <2> QED BY <2>2, <2>4, <2>5
<1>11. \A i \in cut + 1 .. size : older[i] \in Boxes!Letter
  <2> SUFFICES ASSUME NEW i \in cut + 1 .. size
               PROVE  older[i] \in Boxes!Letter
    OBVIOUS
  <2>1. i \in 1..size /\ ~(i <= cut)
    BY <1>1, <1>3
  <2>2. PICK m \in S : Place(S, m) = i
    BY <1>4, <2>1
  <2>3. m \notin old
    BY <1>3, <2>1, <2>2
  <2> QED BY <1>10, <2>2, <2>3
<1> HIDE DEF old, box, older, cut, size
<1>12. /\ s \in Seq(Boxes!Letter)
       /\ Len(s) = size - cut
       /\ \A i \in 1..size - cut : s[i] = older[cut + i]
  <2>1. cut + 1 \in Int /\ size \in Int
    BY <1>1, <1>3
  <2>2. /\ s \in Seq(Boxes!Letter)
        /\ Len(s) = IF cut + 1 <= size THEN size - (cut + 1) + 1 ELSE 0
        /\ \A i \in 1 .. size - (cut + 1) + 1 : s[i] = older[cut + 1 + i - 1]
    BY <1>11, <2>1, SubSeqProperties
  <2> HIDE DEF s
  <2> QED BY <1>1, <1>3, <2>2
<1> HIDE DEF s
<1>13. ASSUME NEW k \in left
       PROVE  s[Place(left, k)] = Letter(k)
  <2>1. PICK m \in S \ old : k = Aged(m)
    BY <1>8
  <2>2. Place(left, k) = Place(S, m) - cut /\ Place(S, m) \in cut + 1 .. size
    BY <1>8, <1>10, <2>1
  <2>3. s[Place(left, k)] = older[Place(S, m)]
    BY <1>1, <1>3, <1>12, <2>2
  <2> QED BY <1>10, <2>1, <2>3
<1>14. Mailbox(left) = s
  BY <1>8, <1>12, <1>13, MailboxIs
<1>15. Boxes!Expires(box, Mailbox(left))
  <2>1. cut \in 0..size
    BY <1>1, <1>3
  <2> QED BY <1>2, <1>6, <1>14, <2>1 DEF Boxes!Expires, older, s
<1> QED BY <1>15 DEF box, left

-----------------------------------------------------------------------------
(* The steps of the service as steps of the mailboxes.                     *)

LineInv == IInv /\ IsFiniteSet(messages)

\* How often a robot is registered.
Times(list, r) == Cardinality({i \in 1..Len(list) : list[i] = r})

\* The copies for one robot are as many as its registrations.
LEMMA CopiesCount ==
  ASSUME TypeOK, NEW r \in Robots, NEW t \in Tasks, NEW q \in Robots
  PROVE  LET new == {m \in Copies(r, t) : m.to = q}
         IN  IsFiniteSet(new) /\ Cardinality(new) = Times(robots, q)
<1> DEFINE new == {m \in Copies(r, t) : m.to = q}
           places == {i \in 1..Len(robots) : robots[i] = q}
           Copy(i) == [n |-> added + i, send |-> sends, from |-> r, to |-> robots[i],
                       task |-> t, ttl |-> Lifetime]
           copy == [i \in places |-> Copy(i)]
<1>1. Len(robots) \in Nat /\ added \in Nat
  BY DEF TypeOK
<1>2. IsFiniteSet(places)
  <2>1. IsFiniteSet(1..Len(robots))
    BY <1>1, FS_Interval
  <2>2. places \in SUBSET (1..Len(robots))
    OBVIOUS
  <2> QED BY <2>1, <2>2, FS_Subset
<1>3. new = {Copy(i) : i \in places}
  BY DEF Copies
<1>4. copy \in Surjection(places, new)
  BY <1>3 DEF Surjection
<1>5. copy \in Injection(places, new)
  <2>1. ASSUME NEW i \in places, NEW j \in places, Copy(i) = Copy(j)
        PROVE  i = j
    <3>1. Copy(i).n = added + i /\ Copy(j).n = added + j
      OBVIOUS
    <3>2. i \in Nat /\ j \in Nat
      BY <1>1
    <3> QED BY <1>1, <2>1, <3>1, <3>2
  <2>2. copy \in [places -> new]
    BY <1>3
  <2> QED BY <2>1, <2>2 DEF Injection, IsInjective
<1> HIDE DEF new, places, copy
<1>6. IsFiniteSet(new) /\ Cardinality(new) = Cardinality(places)
  BY <1>2, <1>4, <1>5, FS_Surjection
<1> QED BY <1>6 DEF new, places, Times

\* The list holds finitely many messages, whatever is called.
LEMMA LineKept == LineInv /\ [Next]_vars => LineInv'
<1> SUFFICES ASSUME LineInv, [Next]_vars PROVE LineInv'
  OBVIOUS
<1> USE DEF LineInv
<1>1. IInv'
  BY NextIInv
<1> SUFFICES IsFiniteSet(messages')
  BY <1>1
<1>2. ASSUME NEW r \in Robots, RegisterRobot(r) PROVE IsFiniteSet(messages')
  BY <1>2 DEF RegisterRobot
<1>3. ASSUME NEW r \in Robots, GetNextMessage(r) PROVE IsFiniteSet(messages')
  BY <1>3, FS_RemoveElement DEF GetNextMessage
<1>4. ASSUME NEW r \in Robots, NEW t \in Tasks, SendMessage(r, t)
      PROVE  IsFiniteSet(messages')
  <2> DEFINE indexes == 1..Len(robots)
             Copy(i) == [n |-> added + i, send |-> sends, from |-> r, to |-> robots[i],
                         task |-> t, ttl |-> Lifetime]
             copy == [i \in indexes |-> Copy(i)]
  <2>1. IsFiniteSet(indexes)
    BY FS_Interval DEF IInv, TypeOK
  <2>2. Copies(r, t) = {Copy(i) : i \in indexes}
    BY DEF Copies
  <2>3. copy \in Surjection(indexes, Copies(r, t))
    BY <2>2 DEF Surjection
  <2> HIDE DEF indexes, copy
  <2>4. IsFiniteSet(Copies(r, t))
    BY <2>1, <2>3, FS_Surjection
  <2>5. messages' = messages \cup Copies(r, t)
    BY <1>4 DEF SendMessage
  <2> QED BY <2>4, <2>5, FS_Union
<1>5. CASE Process
  <2> DEFINE aged == {Aged(m) : m \in messages}
  <2>1. Lined(messages)
    BY DEF IInv, TypeOK, OldestFirst, Lined
  <2>2. IsFiniteSet(aged)
    BY <2>1, AgedCount
  <2>3. messages' \in SUBSET aged
    BY <1>5 DEF Process
  <2> QED BY <2>2, <2>3, FS_Subset
<1>6. CASE UNCHANGED vars
  BY <1>6 DEF vars
<1> QED BY <1>2, <1>3, <1>4, <1>5, <1>6 DEF Next

\* The messages for one robot are a list of their own, with the older ones first.
LEMMA OwnLine ==
  ASSUME LineInv, NEW r \in Robots
  PROVE  Lined(For(r)) /\ \A m, k \in For(r) : m.n < k.n => m.ttl <= k.ttl
<1>1. Lined(messages)
  BY DEF LineInv, IInv, TypeOK, OldestFirst, Lined
<1>2. For(r) \in SUBSET messages
  BY DEF For
<1>3. Lined(For(r))
  BY <1>1, <1>2, LinedPart
<1> QED BY <1>2, <1>3 DEF LineInv, IInv, OldestFirst

\* The constructor's list is empty mailboxes.
LEMMA MailboxesInit == Init => Boxes!Init /\ LineInv
<1> SUFFICES ASSUME Init PROVE Boxes!Init /\ LineInv
  OBVIOUS
<1>1. LineInv
  BY InitIInv, FS_EmptySet DEF Init, LineInv
<1>2. \A r \in Robots : {i \in 1..Len(robots) : robots[i] = r} = {} /\ For(r) = {}
  BY DEF Init, For
<1>3. Cardinality({}) = 0
  BY FS_EmptySet
<1>4. \A r \in Robots : Cardinality({i \in 1..Len(robots) : robots[i] = r}) = 0
  BY <1>2, <1>3
<1>5. \A r \in Robots : Mailbox(For(r)) = << >>
  BY <1>2, <1>3 DEF Mailbox
<1> QED BY <1>1, <1>4, <1>5 DEF Boxes!Init

\* registerRobot joins the robot once more.
LEMMA RegisterJoins ==
  ASSUME LineInv, NEW r \in Robots, RegisterRobot(r)
  PROVE  Boxes!Join(r)
<1> DEFINE Indexes(list, q) == {i \in 1..Len(list) : list[i] = q}
<1>1. /\ robots \in Seq(Robots) /\ Len(robots) \in Nat
      /\ robots' = Append(robots, r) /\ messages' = messages
  BY DEF LineInv, IInv, TypeOK, RegisterRobot
<1>2. /\ Len(robots') = Len(robots) + 1
      /\ robots'[Len(robots) + 1] = r
      /\ \A i \in 1..Len(robots) : robots'[i] = robots[i]
  BY <1>1
<1>3. ASSUME NEW q \in Robots
      PROVE  /\ q # r => Indexes(robots', q) = Indexes(robots, q)
             /\ q = r => Indexes(robots', q) = Indexes(robots, q) \cup {Len(robots) + 1}
             /\ IsFiniteSet(Indexes(robots, q))
             /\ Len(robots) + 1 \notin Indexes(robots, q)
  <2>1. IsFiniteSet(1..Len(robots))
    BY <1>1, FS_Interval
  <2>2. Indexes(robots, q) \in SUBSET (1..Len(robots))
    OBVIOUS
  <2>3. IsFiniteSet(Indexes(robots, q))
    BY <2>1, <2>2, FS_Subset
  <2>4. 1..Len(robots') = 1..Len(robots) \cup {Len(robots) + 1}
    BY <1>1, <1>2
  <2>5. Len(robots) + 1 \notin 1..Len(robots)
    BY <1>1
  <2> QED BY <1>2, <2>3, <2>4, <2>5
<1>4. ASSUME NEW q \in Robots
      PROVE  Cardinality(Indexes(robots', q)) =
               IF q = r THEN Cardinality(Indexes(robots, q)) + 1
                        ELSE Cardinality(Indexes(robots, q))
  BY <1>3, FS_AddElement
<1>5. [q \in Robots |-> Cardinality(Indexes(robots', q))] =
        [[q \in Robots |-> Cardinality(Indexes(robots, q))] EXCEPT ![r] = @ + 1]
  <2> HIDE DEF Indexes
  <2> QED BY <1>4
<1>6. UNCHANGED [q \in Robots |-> Mailbox(For(q))]
  BY <1>1 DEF For
<1> QED BY <1>5, <1>6 DEF Boxes!Join

\* getNextMessage takes the first letter out of the robot's mailbox and leaves the
\* others as they are.
LEMMA FetchTakes ==
  ASSUME LineInv, NEW r \in Robots, GetNextMessage(r)
  PROVE  Boxes!Take(r)
<1>1. PICK m \in messages : IsNext(m, r) /\ messages' = messages \ {m}
  BY DEF GetNextMessage
<1>2. UNCHANGED robots
  BY DEF GetNextMessage
<1>3. m \in For(r) /\ \A k \in For(r) : m.n <= k.n
  BY <1>1 DEF IsNext
<1>4. \A q \in Robots : For(q)' = IF q = r THEN For(r) \ {m} ELSE For(q)
  BY <1>1, <1>3 DEF For
<1>5. Mailbox(For(r)) # << >> /\ Mailbox(For(r) \ {m}) = Tail(Mailbox(For(r)))
  BY <1>3, OwnLine, FirstTaken
<1>6. \A q \in Robots :
        Mailbox(For(q))' = IF q = r THEN Tail(Mailbox(For(r))) ELSE Mailbox(For(q))
  <2> SUFFICES ASSUME NEW q \in Robots
               PROVE  Mailbox(For(q))' = IF q = r THEN Tail(Mailbox(For(r)))
                                                  ELSE Mailbox(For(q))
    OBVIOUS
  <2>1. CASE q = r
    <3>1. For(q)' = For(r) \ {m}
      BY <1>4, <2>1
    <3>2. Mailbox(For(q))' = Mailbox(For(r) \ {m})
      BY <3>1 DEF Mailbox
    <3> QED BY <1>5, <2>1, <3>2
  <2>2. CASE q # r
    <3>1. For(q)' = For(q)
      BY <1>4, <2>2
    <3> QED BY <2>2, <3>1 DEF Mailbox
  <2> QED BY <2>1, <2>2
<1> DEFINE Box(q) == Mailbox(For(q))
<1>7. [q \in Robots |-> Box(q)]' = [[q \in Robots |-> Box(q)] EXCEPT ![r] = Tail(@)]
  <2>1. \A q \in Robots : Box(q)' = IF q = r THEN Tail(Box(r)) ELSE Box(q)
    BY <1>6
  <2> HIDE DEF Box
  <2> QED BY <2>1
<1>8. [q \in Robots |-> Box(q)][r] # << >>
  BY <1>5
<1> QED BY <1>2, <1>7, <1>8 DEF Boxes!Take

\* sendMessage puts as many copies behind the letters of each robot as it has
\* registrations.
LEMMA SendPosts ==
  ASSUME LineInv, LineInv', NEW r \in Robots, NEW t \in Tasks, SendMessage(r, t)
  PROVE  Boxes!Post(r, t)
<1> DEFINE New(q) == {m \in Copies(r, t) : m.to = q}
           letter == [from |-> r, task |-> t, age |-> 0]
<1>1. TypeOK /\ messages' = messages \cup Copies(r, t) /\ UNCHANGED robots
  BY DEF SendMessage, LineInv, IInv
<1>2. letter \in Boxes!Letter
  BY ServiceAssumption DEF Boxes!Letter
<1>3. ASSUME NEW q \in Robots
      PROVE  Mailbox(For(q))' = Mailbox(For(q)) \o [i \in 1..Times(robots, q) |-> letter]
  <2>1. For(q)' = For(q) \cup New(q)
    BY <1>1 DEF For
  <2>2. Lined(For(q))
    BY OwnLine
  <2>3. Lined(For(q) \cup New(q))
    <3>1. Lined(messages')
      BY DEF LineInv, IInv, TypeOK, OldestFirst, Lined
    <3>2. For(q) \cup New(q) \in SUBSET messages'
      BY <1>1 DEF For
    <3> QED BY <3>1, <3>2, LinedPart
  <2>4. \A m \in For(q), k \in New(q) : m.n < k.n
    <3>1. \A m \in For(q) : m.n \in Nat /\ m.n <= added
      BY DEF For, LineInv, IInv, TypeOK, Message, Numbered
    <3>2. \A k \in New(q) : k.n \in Nat /\ k.n > added
      BY <1>1, CopyFields DEF Message
    <3>3. added \in Nat
      BY <1>1 DEF TypeOK
    <3> QED BY <3>1, <3>2, <3>3
  <2>5. \A k \in New(q) : Letter(k) = letter
    <3> SUFFICES ASSUME NEW k \in New(q) PROVE Letter(k) = letter
      OBVIOUS
    <3>1. k.from = r /\ k.task = t /\ k.ttl = Lifetime
      BY DEF Copies
    <3>2. Lifetime - k.ttl = 0
      BY <3>1, ServiceAssumption
    <3> QED BY <3>1, <3>2 DEF Letter
  <2>6. Cardinality(New(q)) = Times(robots, q)
    BY <1>1, CopiesCount
  <2> HIDE DEF New, letter
  <2>7. Mailbox(For(q) \cup New(q)) =
          Mailbox(For(q)) \o [i \in 1..Cardinality(New(q)) |-> letter]
    BY <1>2, <2>2, <2>3, <2>4, <2>5, NewLast
  <2>8. Mailbox(For(q))' = Mailbox(For(q) \cup New(q))
    BY <2>1 DEF Mailbox
  <2> QED BY <2>6, <2>7, <2>8
<1>4. [q \in Robots |-> Mailbox(For(q))]' =
        [q \in Robots |-> Mailbox(For(q)) \o [i \in 1..Times(robots, q) |-> letter]]
  BY <1>3
<1> QED BY <1>1, <1>4 DEF Boxes!Post, Times

\* process() ends a round for every mailbox at once.
LEMMA ProcessRounds ==
  ASSUME LineInv, Process
  PROVE  Boxes!Round
<1>1. /\ messages' = {m \in {Aged(k) : k \in messages} : ~Dead(m)}
      /\ UNCHANGED robots
  BY DEF Process
<1>2. \A m \in messages : Aged(m).to = m.to
  BY AgedFields DEF LineInv, IInv, TypeOK
<1> DEFINE Box(q) == Mailbox(For(q))
           boxes == [q \in Robots |-> Box(q)]
<1>3. ASSUME NEW q \in Robots
      PROVE  Boxes!Expires(Box(q), Box(q)')
  <2>1. For(q)' = Left(For(q))
    BY <1>1, <1>2 DEF For, Left
  <2>2. Mailbox(For(q))' = Mailbox(Left(For(q)))
    BY <2>1 DEF Mailbox
  <2> QED BY <2>2, OwnLine, FrontExpires
<1>4. \A q \in Robots : boxes[q] = Box(q) /\ boxes'[q] = Box(q)'
  OBVIOUS
<1>5. boxes' = [q \in Robots |-> boxes'[q]]
  OBVIOUS
<1>6. \A q \in Robots : Boxes!Expires(boxes[q], boxes'[q])
  <2> HIDE DEF boxes, Box
  <2> QED BY <1>3, <1>4
<1> QED BY <1>1, <1>5, <1>6 DEF Boxes!Round

\* One list for all robots behaves as one queue per robot (MessageService.java):
\* no fetch and no expiry disturbs another robot's messages.
THEOREM MailboxesImplemented == Spec => ImplementsMailboxes
<1>1. Init => Boxes!Init /\ LineInv
  BY MailboxesInit
<1>2. LineInv /\ [Next]_vars => LineInv'
  BY LineKept
<1>3. LineInv /\ LineInv' /\ [Next]_vars => [Boxes!Next]_(Boxes!vars)
  <2> SUFFICES ASSUME LineInv, LineInv', [Next]_vars
               PROVE  Boxes!Next \/ UNCHANGED Boxes!vars
    OBVIOUS
  <2>1. ASSUME NEW r \in Robots, RegisterRobot(r)
        PROVE  Boxes!Next
    BY <2>1, RegisterJoins DEF Boxes!Next
  <2>2. ASSUME NEW r \in Robots, GetNextMessage(r)
        PROVE  Boxes!Next
    BY <2>2, FetchTakes DEF Boxes!Next
  <2>3. ASSUME NEW r \in Robots, NEW t \in Tasks, SendMessage(r, t)
        PROVE  Boxes!Next
    BY <2>3, SendPosts DEF Boxes!Next
  <2>4. CASE Process
    BY <2>4, ProcessRounds DEF Boxes!Next
  <2>5. CASE UNCHANGED vars
    BY <2>5 DEF vars, Boxes!vars, For
  <2> QED BY <2>1, <2>2, <2>3, <2>4, <2>5 DEF Next
<1> QED BY <1>1, <1>2, <1>3, PTL DEF Spec, ImplementsMailboxes, Boxes!Spec
=============================================================================
