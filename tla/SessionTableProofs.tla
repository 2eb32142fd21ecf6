-------------------------- MODULE SessionTableProofs --------------------------
(***************************************************************************)
(* Isolation of conversations, and the window of evidence, for any number  *)
(* of clients, tasks and session objects, any limits and any sizes.        *)
(***************************************************************************)
EXTENDS SessionTable, SequenceTheorems, WellFoundedInduction, TLAPS

\* A non-empty set of numbers has a least one.
LEMMA LeastNumber ==
  ASSUME NEW T, T \subseteq Nat, T # {}
  PROVE  \E i \in T : \A j \in T : i <= j
<1> DEFINE R == OpToRel(<, Nat)
<1>1. IsWellFoundedOn(R, Nat)
  BY NatLessThanWellFounded
<1>2. \A x, y \in T : y < x => <<y, x>> \in R
  BY DEF OpToRel
<1> HIDE DEF R
<1>3. PICK i \in T : \A j \in T : <<j, i>> \notin R
  BY <1>1, WFMin
<1>4. \A j \in T : ~(j < i) /\ j \in Nat /\ i \in Nat
  BY <1>2, <1>3
<1>5. QED
  BY <1>4

\* Induction over numbers, on the set of those of which something holds.
LEMMA SetInduction ==
  ASSUME NEW S, 0 \in S, \A n \in Nat : n \in S => n + 1 \in S
  PROVE  Nat \subseteq S
<1> SUFFICES ASSUME Nat \ S # {} PROVE FALSE
  OBVIOUS
<1>1. PICK n \in Nat \ S : \A m \in Nat \ S : n <= m
  BY LeastNumber
<1>2. n # 0 /\ n - 1 \in Nat /\ n - 1 \in S
  BY <1>1
<1>3. QED
  BY <1>1, <1>2

\* Distinct keys of the table have distinct session objects.
BoundInv ==
  \A k \in Held :
    bound[k] \in Objs /\ \A l \in Held : bound[k] = bound[l] => k = l

\* A call under way has a client and a session; an idle task holds none.
TaskInv ==
  \A t \in Tasks :
    IF pc[t] = "pending" THEN who[t] \in Clients /\ ses[t] \in Objs ELSE ses[t] = NoObj

\* A session object has one client: the one whose key it is bound to, and the
\* one whose calls refer to it.
OwnerInv ==
  /\ \A t \in Tasks, k \in Held :
       pc[t] = "pending" /\ bound[k] = ses[t] => KeyOf(who[t]) = k
  /\ \A t, u \in Tasks :
       pc[t] = "pending" /\ pc[u] = "pending" /\ ses[t] = ses[u] => who[t] = who[u]

IInv == TypeOK /\ BoundInv /\ TaskInv /\ OwnerInv /\ Isolation

-----------------------------------------------------------------------------
(* Operators                                                               *)

\* Two clients with a key have different ones.
LEMMA KeyIdentity ==
  ASSUME NEW c \in Clients, NEW d \in Clients, KeyOf(c) = KeyOf(d), KeyOf(c) # NoKey
  PROVE  c = d
BY IdentityAssumption DEF KeyOf

\* Every key of a client is one the table can hold.
LEMMA KeyType ==
  ASSUME NEW c \in Clients
  PROVE  KeyOf(c) \in Keys \cup {NoKey}
BY DEF KeyOf, Keys

\* The results of q from the i-th on.
From(q, i) == SubSeq(q, i, Len(q))

\* r is the longest run of most recent results of q that fits.
IsLongest(r, q) ==
  \E i \in 1..(Len(q) + 1) :
    r = From(q, i) /\ Fits(r) /\ \A j \in 1..(i - 1) : ~Fits(From(q, j))

LEMMA FromType ==
  ASSUME NEW q \in Seq(Entry), NEW i \in 1..(Len(q) + 1)
  PROVE  /\ From(q, i) \in Seq(Entry)
         /\ Len(From(q, i)) = Len(q) - i + 1
         /\ \A k \in 1..(Len(q) - i + 1) : From(q, i)[k] = q[i + k - 1]
<1>1. Len(q) \in Nat /\ \A k \in i..Len(q) : q[k] \in Entry
  BY LenProperties, ElementOfSeq
<1>2. i \in Int /\ Len(q) \in Int
  BY <1>1
<1>3. QED
  BY <1>1, <1>2, SubSeqProperties DEF From

\* What the window returns is the longest recent run that fits.
LEMMA WindowLongest ==
  ASSUME NEW q \in Seq(Entry)
  PROVE  IsLongest(Window(q), q)
<1> DEFINE T == {i \in 1..(Len(q) + 1) : Fits(From(q, i))}
<1>1. Len(q) \in Nat
  OBVIOUS
<1>2. Len(q) + 1 \in T
  <2>1. From(q, Len(q) + 1) = <<>>
    BY <1>1, SubSeqEmpty DEF From
  <2>2. QED
    BY <1>1, <2>1 DEF Fits
<1>3. \E i \in T : \A j \in T : i <= j
  <2>1. T \subseteq Nat
    BY <1>1
  <2> HIDE DEF T
  <2>2. QED
    BY <1>2, <2>1, LeastNumber
<1>4. \E i \in 1..(Len(q) + 1) : Fits(From(q, i)) /\ \A j \in 1..(i - 1) : ~Fits(From(q, j))
  <2>1. PICK i \in T : \A j \in T : i <= j
    BY <1>3
  <2>2. ASSUME NEW j \in 1..(i - 1) PROVE ~Fits(From(q, j))
    BY <1>1, <2>1, <2>2
  <2>3. QED
    BY <2>1, <2>2
<1> DEFINE from == CHOOSE i \in 1..(Len(q) + 1) :
                     Fits(From(q, i)) /\ \A j \in 1..(i - 1) : ~Fits(From(q, j))
<1>5. /\ from \in 1..(Len(q) + 1) /\ Fits(From(q, from))
      /\ \A j \in 1..(from - 1) : ~Fits(From(q, j))
  BY <1>4
<1>6. Window(q) = From(q, from)
  BY DEF Window, From
<1>7. QED
  BY <1>5, <1>6 DEF IsLongest

\* The window keeps the type of its entries.
LEMMA WindowType ==
  ASSUME NEW q \in Seq(Entry)
  PROVE  Window(q) \in Seq(Entry)
BY WindowLongest, FromType DEF IsLongest

\* Making room shortens a full table and adds no key.
LEMMA MakeRoomProperties ==
  ASSUME NEW q \in Seq(Keys), Len(q) <= MaxSessions
  PROVE  /\ MakeRoom(q) \in Seq(Keys)
         /\ Len(MakeRoom(q)) < MaxSessions
         /\ \A i \in DOMAIN MakeRoom(q) : \E j \in DOMAIN q : MakeRoom(q)[i] = q[j]
<1>1. Len(q) \in Nat /\ MaxSessions \in Nat /\ MaxSessions > 0
  BY BoundsAssumption
<1>2. CASE Len(q) < MaxSessions
  BY <1>2 DEF MakeRoom
<1>3. CASE Len(q) = MaxSessions
  <2>1. MakeRoom(q) = SubSeq(q, 2, Len(q))
    BY <1>1, <1>3 DEF MakeRoom
  <2>2. /\ MakeRoom(q) \in Seq(Keys)
        /\ Len(MakeRoom(q)) = Len(q) - 1
        /\ \A i \in 1..(Len(q) - 1) : MakeRoom(q)[i] = q[i + 1]
    <3>1. \A i \in 2..Len(q) : q[i] \in Keys
      BY <1>1, ElementOfSeq
    <3>2. /\ SubSeq(q, 2, Len(q)) \in Seq(Keys)
          /\ Len(SubSeq(q, 2, Len(q))) = IF 2 <= Len(q) THEN Len(q) - 2 + 1 ELSE 0
          /\ \A i \in 1..(Len(q) - 2 + 1) : SubSeq(q, 2, Len(q))[i] = q[2 + i - 1]
      BY <1>1, <3>1, SubSeqProperties
    <3>3. /\ 1..(Len(q) - 2 + 1) = 1..(Len(q) - 1)
          /\ \A i \in 1..(Len(q) - 1) : 2 + i - 1 = i + 1
      BY <1>1
    <3>4. QED
      BY <1>1, <1>3, <2>1, <3>2, <3>3
  <2>3. \A i \in 1..(Len(q) - 1) : i + 1 \in 1..Len(q)
    BY <1>1
  <2>4. /\ DOMAIN q = 1..Len(q) /\ DOMAIN MakeRoom(q) = 1..Len(MakeRoom(q))
        /\ Len(q) - 1 < MaxSessions
    BY <1>1, <1>3, <2>2
  <2>5. \A i \in DOMAIN MakeRoom(q) : MakeRoom(q)[i] = q[i + 1] /\ i + 1 \in DOMAIN q
    BY <2>2, <2>3, <2>4
  <2>6. QED
    BY <2>2, <2>4, <2>5
<1>4. QED
  BY <1>1, <1>2, <1>3

\* What a look-up finds: the table stays well formed, and whatever the session
\* held, or whoever still refers to it, is of this client.
LEMMA LookupOwns ==
  ASSUME IInv, NEW c \in Clients, NEW o \in Objs, Lookup(c, o)
  PROVE  /\ table' \in Seq(Keys) /\ Len(table') <= MaxSessions
         /\ bound' \in [Keys -> Objs \cup {NoObj}]
         /\ \A k \in Held' : k # KeyOf(c) => k \in Held /\ bound'[k] = bound[k] /\ bound[k] # o
         /\ KeyOf(c) \in Held' => bound'[KeyOf(c)] = o
         /\ \A t \in Tasks : pc[t] = "pending" /\ ses[t] = o => who[t] = c
         /\ \A t \in Tasks :
              pc[t] = "pending" /\ KeyOf(who[t]) = KeyOf(c) /\ KeyOf(c) # NoKey => who[t] = c
         /\ GatedOf(c, o) \subseteq {c} /\ GatedOf(c, o) \in SUBSET Clients
         /\ ResultsOf(c, o) \in Seq(Entry) /\ LogOf(c, o) \in Seq(Entry)
         /\ \A i \in DOMAIN LogOf(c, o) : LogOf(c, o)[i].from = c
<1>1. \A t \in Tasks :
        pc[t] = "pending" /\ KeyOf(who[t]) = KeyOf(c) /\ KeyOf(c) # NoKey => who[t] = c
  BY KeyIdentity DEF IInv, TaskInv
<1>2. Held \subseteq Keys /\ NoKey \notin Keys
  <2>1. \A i \in DOMAIN table : table[i] \in Keys
    BY ElementOfSeq, LenProperties DEF IInv, TypeOK
  <2>2. QED
    BY <2>1 DEF Held, Keys
<1>3. CASE Known(c) /\ o = bound[KeyOf(c)] /\ UNCHANGED tableVars
  <2>1. Held' = Held /\ bound' = bound /\ table' = table
    BY <1>3 DEF Held, tableVars
  <2>2. KeyOf(c) \in Held
    BY <1>3 DEF Known
  <2>3. \A t \in Tasks : pc[t] = "pending" /\ ses[t] = o => who[t] = c
    BY <1>1, <1>2, <1>3, <2>2 DEF IInv, OwnerInv
  <2>4. gated[o] \subseteq {c} /\ \A i \in DOMAIN log[o] : log[o][i].from = c
    BY <1>3 DEF IInv, Isolation, Writers
  <2>5. \A k \in Held : k # KeyOf(c) => bound[k] # o
    BY <1>3, <2>2 DEF IInv, BoundInv
  <2>6. QED
    BY <1>1, <1>3, <2>1, <2>3, <2>4, <2>5
       DEF IInv, TypeOK, GatedOf, ResultsOf, LogOf
<1>4. CASE /\ ~Known(c) /\ Fresh(o) /\ KeyOf(c) # NoKey
           /\ table' = Append(MakeRoom(table), KeyOf(c))
           /\ bound' = [bound EXCEPT ![KeyOf(c)] = o]
  <2>1. KeyOf(c) \in Keys
    BY <1>4, KeyType
  <2>2. /\ MakeRoom(table) \in Seq(Keys) /\ Len(MakeRoom(table)) < MaxSessions
        /\ \A i \in DOMAIN MakeRoom(table) : MakeRoom(table)[i] \in Held
    BY MakeRoomProperties DEF IInv, TypeOK, Held
  <2>3. table' \in Seq(Keys) /\ Len(table') <= MaxSessions
    <3>1. Len(table') = Len(MakeRoom(table)) + 1 /\ Len(MakeRoom(table)) \in Nat
      BY <1>4, <2>1, <2>2, AppendProperties, LenProperties
    <3>2. QED
      BY <1>4, <2>1, <2>2, <3>1, AppendProperties, BoundsAssumption
  <2>4. \A k \in Held' : k # KeyOf(c) => k \in Held
    <3> DEFINE m == MakeRoom(table)
    <3>1. /\ m \in Seq(Keys) /\ \A i \in DOMAIN m : m[i] \in Held
          /\ table' = Append(m, KeyOf(c))
      BY <1>4, <2>2
    <3> HIDE DEF m
    <3>2. \A i \in DOMAIN table' : table'[i] = KeyOf(c) \/ table'[i] \in Held
      BY <2>1, <3>1, AppendProperties, LenProperties
    <3>3. QED
      BY <3>2 DEF Held
  <2>5. bound \in [Keys -> Objs \cup {NoObj}]
    BY DEF IInv, TypeOK
  <2>6. /\ bound' \in [Keys -> Objs \cup {NoObj}]
        /\ bound'[KeyOf(c)] = o
        /\ \A k \in Keys : k # KeyOf(c) => bound'[k] = bound[k]
    BY <1>4, <2>1, <2>5
  <2>7. /\ \A k \in Held : bound[k] # o
        /\ \A t \in Tasks : ses[t] # o
    BY <1>4 DEF Fresh
  <2>8. GatedOf(c, o) = {} /\ ResultsOf(c, o) = <<>> /\ LogOf(c, o) = <<>>
    BY <1>4 DEF GatedOf, ResultsOf, LogOf
  <2>9. QED
    BY <1>1, <1>2, <2>3, <2>4, <2>6, <2>7, <2>8
<1>5. CASE KeyOf(c) = NoKey /\ Fresh(o) /\ UNCHANGED tableVars
  <2>1. Held' = Held /\ bound' = bound /\ table' = table
    BY <1>5 DEF Held, tableVars
  <2>2. ~Known(c)
    BY <1>2, <1>5 DEF Known
  <2>3. GatedOf(c, o) = {} /\ ResultsOf(c, o) = <<>> /\ LogOf(c, o) = <<>>
    BY <2>2 DEF GatedOf, ResultsOf, LogOf
  <2>4. KeyOf(c) \notin Held
    BY <2>2 DEF Known
  <2>5. /\ \A k \in Held : bound[k] # o
        /\ \A t \in Tasks : ses[t] # o
    BY <1>5 DEF Fresh
  <2>6. QED
    BY <1>1, <2>1, <2>3, <2>4, <2>5 DEF IInv, TypeOK
<1>6. QED
  BY <1>3, <1>4, <1>5 DEF Lookup

-----------------------------------------------------------------------------
(* The invariant                                                           *)

LEMMA InitInv == Init => IInv
BY AbsentAssumption, BoundsAssumption
   DEF Init, IInv, TypeOK, BoundInv, TaskInv, OwnerInv, Isolation, Held, Known

\* A handler that takes a session over leaves it to its client alone.
LEMMA HandStep ==
  ASSUME IInv, NEW c \in Clients, NEW o \in Objs, Lookup(c, o),
         NEW g \in SUBSET Clients, g \subseteq {c}, Hand(c, o, g)
  PROVE  /\ gated' \in [Objs -> SUBSET Clients]
         /\ results' \in [Objs -> Seq(Entry)]
         /\ log' \in [Objs -> Seq(Entry)]
         /\ BoundInv'
         /\ Writers(o)' \subseteq {c}
         /\ \A x \in Objs : x # o => Writers(x)' = Writers(x)
         /\ \A d \in Clients : Known(d)' => Writers(bound[KeyOf(d)])' \subseteq {d}
         /\ \A t \in Tasks, k \in Held' :
              pc[t] = "pending" /\ bound'[k] = ses[t] => KeyOf(who[t]) = k
<1> USE LookupOwns
<1>1. /\ gated \in [Objs -> SUBSET Clients]
      /\ results \in [Objs -> Seq(Entry)]
      /\ log \in [Objs -> Seq(Entry)]
  BY DEF IInv, TypeOK
<1>2. /\ gated' = [gated EXCEPT ![o] = g]
      /\ results' = [results EXCEPT ![o] = ResultsOf(c, o)]
      /\ log' = [log EXCEPT ![o] = LogOf(c, o)]
  BY DEF Hand
<1>3. /\ gated' \in [Objs -> SUBSET Clients]
      /\ results' \in [Objs -> Seq(Entry)]
      /\ log' \in [Objs -> Seq(Entry)]
  BY <1>1, <1>2
<1>4. Writers(o)' \subseteq {c}
  <2>1. gated'[o] = g /\ log'[o] = LogOf(c, o)
    BY <1>1, <1>2
  <2>2. \A i \in DOMAIN LogOf(c, o) : LogOf(c, o)[i].from = c
    OBVIOUS
  <2>3. QED
    BY <2>1, <2>2 DEF Writers
<1>5. \A x \in Objs : x # o => Writers(x)' = Writers(x)
  BY <1>1, <1>2 DEF Writers
<1>6. /\ \A k \in Held' : k # KeyOf(c) => k \in Held /\ bound'[k] = bound[k] /\ bound[k] # o
      /\ KeyOf(c) \in Held' => bound'[KeyOf(c)] = o
  OBVIOUS
<1>7. BoundInv'
  <2>1. \A k, l \in Held : bound[k] \in Objs /\ (bound[k] = bound[l] => k = l)
    BY DEF IInv, BoundInv
  <2>2. QED
    BY <1>6, <2>1 DEF BoundInv
<1>8. ASSUME NEW d \in Clients, Known(d)'
      PROVE  Writers(bound[KeyOf(d)])' \subseteq {d}
  <2>1. KeyOf(d) \in Held'
    BY <1>8 DEF Known, KeyOf
  <2>2. CASE KeyOf(d) = KeyOf(c)
    <3>1. KeyOf(c) # NoKey
      <4>1. table' \in Seq(Keys)
        OBVIOUS
      <4>2. Held' \subseteq Keys
        BY <4>1, ElementOfSeq, LenProperties DEF Held
      <4>3. QED
        BY <2>1, <2>2, <4>2 DEF Keys
    <3>2. d = c
      BY <2>2, <3>1, KeyIdentity
    <3>3. bound[KeyOf(d)]' = o
      BY <1>6, <2>1, <2>2 DEF KeyOf
    <3>4. gated'[o] \cup {log'[o][i].from : i \in DOMAIN log'[o]} \subseteq {d}
      BY <1>4, <3>2 DEF Writers
    <3>5. QED
      BY ONLY <3>3, <3>4, Zenon DEF Writers
  <2>3. CASE KeyOf(d) # KeyOf(c)
    <3>1. KeyOf(d) \in Held /\ bound'[KeyOf(d)] = bound[KeyOf(d)] /\ bound[KeyOf(d)] # o
      BY <1>6, <2>1, <2>3
    <3>2. bound[KeyOf(d)] \in Objs
      BY <3>1 DEF IInv, BoundInv
    <3>3. Writers(bound[KeyOf(d)]) \subseteq {d}
      BY <3>1 DEF IInv, Isolation, Known
    <3>4. /\ gated'[bound[KeyOf(d)]] = gated[bound[KeyOf(d)]]
          /\ log'[bound[KeyOf(d)]] = log[bound[KeyOf(d)]]
      BY <1>1, <1>2, <3>1, <3>2
    <3>5. bound[KeyOf(d)]' = bound[KeyOf(d)]
      BY <3>1 DEF KeyOf
    <3>6. QED
      BY <3>3, <3>4, <3>5 DEF Writers
  <2>4. QED
    BY <2>2, <2>3
<1>9. ASSUME NEW t \in Tasks, NEW k \in Held', pc[t] = "pending", bound'[k] = ses[t]
      PROVE  KeyOf(who[t]) = k
  <2>1. CASE k = KeyOf(c)
    <3>1. ses[t] = o
      BY <1>6, <1>9, <2>1
    <3>2. who[t] = c
      BY <1>9, <3>1
    <3>3. QED
      BY <2>1, <3>2
  <2>2. CASE k # KeyOf(c)
    <3>1. k \in Held /\ bound[k] = ses[t]
      BY <1>6, <1>9, <2>2
    <3>2. QED
      BY <1>9, <3>1 DEF IInv, OwnerInv
  <2>3. QED
    BY <2>1, <2>2
<1>10. QED
  BY <1>3, <1>4, <1>5, <1>7, <1>8, <1>9

\* A request that keeps no session: the gate's answer, or the report.
LEMMA HandedBack ==
  ASSUME IInv, NEW c \in Clients, NEW o \in Objs, Lookup(c, o),
         NEW g \in SUBSET Clients, g \subseteq {c}, Hand(c, o, g),
         UNCHANGED taskVars,
         report' \in [to : Clients \cup {NoClient}, says : {"none", "blind", "checked"}]
  PROVE  IInv'
<1>1. pc' = pc /\ who' = who /\ ses' = ses
  BY DEF taskVars
<1>2. TypeOK'
  BY <1>1, LookupOwns, HandStep DEF IInv, TypeOK
<1>3. TaskInv'
  BY <1>1 DEF IInv, TaskInv
<1>4. OwnerInv'
  BY <1>1, HandStep DEF IInv, OwnerInv, KeyOf
<1>5. ASSUME NEW t \in Tasks, pc[t] = "pending"
      PROVE  Writers(ses[t])' \subseteq {who[t]}
  <2>1. ses[t] \in Objs /\ Writers(ses[t]) \subseteq {who[t]}
    BY <1>5 DEF IInv, TaskInv, Isolation
  <2>2. CASE ses[t] = o
    <3>1. who[t] = c
      BY <1>5, <2>2, LookupOwns
    <3>2. Writers(o)' \subseteq {c}
      BY HandStep
    <3>3. QED
      BY <1>1, <2>2, <3>1, <3>2 DEF Writers
  <2>3. CASE ses[t] # o
    <3>1. \A x \in Objs : x # o => gated'[x] = gated[x] /\ log'[x] = log[x]
      BY DEF Hand, IInv, TypeOK
    <3>2. QED
      BY <1>1, <2>1, <2>3, <3>1 DEF Writers
  <2>4. QED
    BY <2>2, <2>3
<1>6. Isolation'
  BY <1>1, <1>5, HandStep DEF Isolation
<1>7. QED
  BY <1>2, <1>3, <1>4, <1>6, HandStep DEF IInv

\* A call keeps the session it looked up until it ends.
LEMMA CallStep ==
  ASSUME IInv, NEW t \in Tasks, NEW c \in Clients, NEW o \in Objs, Call(t, c, o)
  PROVE  IInv'
<1>1. /\ Lookup(c, o) /\ Hand(c, o, GatedOf(c, o)) /\ report' = report
      /\ pc' = [pc EXCEPT ![t] = "pending"]
      /\ who' = [who EXCEPT ![t] = c]
      /\ ses' = [ses EXCEPT ![t] = o]
  BY DEF Call
<1>2. GatedOf(c, o) \in SUBSET Clients /\ GatedOf(c, o) \subseteq {c}
  BY <1>1, LookupOwns
<1>3. /\ pc \in [Tasks -> {"idle", "pending"}]
      /\ who \in [Tasks -> Clients \cup {NoClient}]
      /\ ses \in [Tasks -> Objs \cup {NoObj}]
  BY DEF IInv, TypeOK
<1>4. /\ pc'[t] = "pending" /\ who'[t] = c /\ ses'[t] = o
      /\ \A u \in Tasks : u # t => pc'[u] = pc[u] /\ who'[u] = who[u] /\ ses'[u] = ses[u]
  BY <1>1, <1>3
<1>5. TypeOK'
  BY <1>1, <1>2, LookupOwns, HandStep DEF IInv, TypeOK
<1>6. TaskInv'
  BY <1>4 DEF IInv, TaskInv
<1>7. OwnerInv'
  <2>1. ASSUME NEW u \in Tasks, NEW k \in Held', pc'[u] = "pending", bound'[k] = ses'[u]
        PROVE  KeyOf(who'[u]) = k
    <3>1. CASE u = t
      <4>1. k # KeyOf(c) => bound'[k] # o
        BY <1>1, LookupOwns
      <4>2. QED
        BY <1>4, <2>1, <3>1, <4>1
    <3>2. CASE u # t
      BY <1>1, <1>2, <1>4, <2>1, <3>2, HandStep
    <3>3. QED
      BY <3>1, <3>2
  <2>2. ASSUME NEW u \in Tasks, NEW v \in Tasks, pc'[u] = "pending", pc'[v] = "pending",
               ses'[u] = ses'[v]
        PROVE  who'[u] = who'[v]
    <3>1. \A w \in Tasks : pc[w] = "pending" /\ ses[w] = o => who[w] = c
      BY <1>1, LookupOwns
    <3>2. QED
      BY <1>4, <2>2, <3>1 DEF IInv, OwnerInv
  <2>3. QED
    BY <2>1, <2>2 DEF OwnerInv, KeyOf
<1>8. ASSUME NEW u \in Tasks, pc'[u] = "pending"
      PROVE  Writers(ses[u])' \subseteq {who'[u]}
  <2>1. ses'[u] \in Objs
    BY <1>6, <1>8 DEF TaskInv
  <2>2. CASE ses'[u] = o
    <3>1. who'[u] = c
      BY <1>1, <1>4, <1>8, <2>2, LookupOwns
    <3>2. gated'[o] \cup {log'[o][i].from : i \in DOMAIN log'[o]} \subseteq {c}
      BY <1>1, <1>2, HandStep DEF Writers
    <3>3. QED
      BY ONLY <2>2, <3>1, <3>2, Zenon DEF Writers
  <2>3. CASE ses'[u] # o
    <3>1. \A x \in Objs : x # o => gated'[x] = gated[x] /\ log'[x] = log[x]
      BY <1>1 DEF Hand, IInv, TypeOK
    <3>2. u # t /\ pc[u] = "pending" /\ ses'[u] = ses[u] /\ who'[u] = who[u]
      BY <1>4, <1>8, <2>3
    <3>3. Writers(ses[u]) \subseteq {who[u]}
      BY <3>2 DEF IInv, Isolation
    <3>4. gated'[ses[u]] = gated[ses[u]] /\ log'[ses[u]] = log[ses[u]]
      BY <2>1, <2>3, <3>1, <3>2
    <3>5. QED
      BY ONLY <3>2, <3>3, <3>4 DEF Writers
  <2>4. QED
    BY <2>2, <2>3
<1>9. Isolation'
  BY <1>1, <1>2, <1>8, HandStep DEF Isolation
<1>10. QED
  BY <1>1, <1>2, <1>5, <1>6, <1>7, <1>9, HandStep DEF IInv

\* An ended call lets its session go; the other calls and the table keep theirs.
LEMMA DoneStep ==
  ASSUME IInv, NEW t \in Tasks, Done(t), UNCHANGED tableVars
  PROVE  /\ \A u \in Tasks : pc'[u] = "pending" =>
              u # t /\ pc[u] = "pending" /\ who'[u] = who[u] /\ ses'[u] = ses[u]
         /\ Held' = Held
         /\ BoundInv' /\ TaskInv' /\ OwnerInv'
         /\ results' \in [Objs -> Seq(Entry)] /\ log' \in [Objs -> Seq(Entry)]
              /\ gated' \in [Objs -> SUBSET Clients] => TypeOK'
<1>1. /\ pc \in [Tasks -> {"idle", "pending"}]
      /\ who \in [Tasks -> Clients \cup {NoClient}]
      /\ ses \in [Tasks -> Objs \cup {NoObj}]
  BY DEF IInv, TypeOK
<1>2. /\ pc' = [pc EXCEPT ![t] = "idle"]
      /\ who' = [who EXCEPT ![t] = NoClient]
      /\ ses' = [ses EXCEPT ![t] = NoObj]
      /\ report' = report
  BY DEF Done
<1>3. /\ pc'[t] = "idle" /\ ses'[t] = NoObj
      /\ \A u \in Tasks : u # t => pc'[u] = pc[u] /\ who'[u] = who[u] /\ ses'[u] = ses[u]
  BY <1>1, <1>2
<1>4. table' = table /\ bound' = bound /\ Held' = Held
  BY DEF tableVars, Held
<1>5. BoundInv'
  BY <1>4 DEF IInv, BoundInv
<1>6. TaskInv'
  BY <1>3 DEF IInv, TaskInv
<1>7. OwnerInv'
  BY <1>3, <1>4 DEF IInv, OwnerInv, KeyOf
<1>8. results' \in [Objs -> Seq(Entry)] /\ log' \in [Objs -> Seq(Entry)]
        /\ gated' \in [Objs -> SUBSET Clients] => TypeOK'
  BY <1>1, <1>2, <1>4 DEF IInv, TypeOK
<1>9. QED
  BY <1>3, <1>4, <1>5, <1>6, <1>7, <1>8

\* A late result goes to a session that is still its client's.
LEMMA RespondStep ==
  ASSUME IInv, NEW t \in Tasks, NEW n \in Sizes, Respond(t, n)
  PROVE  IInv'
<1> DEFINE x == ses[t]
           entry == [from |-> who[t], size |-> n]
<1>1. /\ pc[t] = "pending" /\ Done(t) /\ UNCHANGED tableVars /\ gated' = gated
      /\ log' = [log EXCEPT ![x] = Append(@, entry)]
      /\ results' = [results EXCEPT ![x] = Window(Append(@, entry))]
  BY DEF Respond
<1>2. x \in Objs /\ who[t] \in Clients /\ entry \in Entry
  BY <1>1 DEF IInv, TaskInv, Entry
<1>3. /\ log \in [Objs -> Seq(Entry)] /\ results \in [Objs -> Seq(Entry)]
      /\ gated \in [Objs -> SUBSET Clients]
  BY DEF IInv, TypeOK
<1> HIDE DEF x, entry
<1>4. TypeOK'
  <2>1. Append(log[x], entry) \in Seq(Entry) /\ Append(results[x], entry) \in Seq(Entry)
    BY <1>2, <1>3, AppendProperties
  <2>2. Window(Append(results[x], entry)) \in Seq(Entry)
    BY <2>1, WindowType
  <2>3. log' \in [Objs -> Seq(Entry)] /\ results' \in [Objs -> Seq(Entry)]
    BY <1>1, <1>2, <1>3, <2>1, <2>2
  <2>4. QED
    BY <1>1, <1>3, <2>3, DoneStep
<1>5. \A y \in Objs :
        gated'[y] \cup {log'[y][i].from : i \in DOMAIN log'[y]}
          \subseteq Writers(y) \cup (IF y = x THEN {who[t]} ELSE {})
  <2>1. \A y \in Objs : y # x => log'[y] = log[y]
    BY <1>1, <1>3
  <2>2. \A i \in DOMAIN log'[x] :
          log'[x][i].from = who[t] \/ \E j \in DOMAIN log[x] : log'[x][i] = log[x][j]
    <3>1. log'[x] = Append(log[x], entry) /\ log[x] \in Seq(Entry)
      BY <1>1, <1>2, <1>3
    <3>2. /\ Len(log'[x]) = Len(log[x]) + 1 /\ log'[x][Len(log[x]) + 1] = entry
          /\ \A i \in 1..Len(log[x]) : log'[x][i] = log[x][i]
          /\ DOMAIN log'[x] = 1..(Len(log[x]) + 1) /\ DOMAIN log[x] = 1..Len(log[x])
      BY <1>2, <3>1, AppendProperties, LenProperties
    <3>3. Len(log[x]) \in Nat
      BY <3>1, LenProperties
    <3>4. QED
      BY <3>2, <3>3 DEF entry
  <2>3. QED
    BY <1>1, <2>1, <2>2 DEF Writers
<1>6. ASSUME NEW u \in Tasks, pc'[u] = "pending"
      PROVE  Writers(ses[u])' \subseteq {who'[u]}
  <2>1. u # t /\ pc[u] = "pending" /\ who'[u] = who[u] /\ ses'[u] = ses[u]
    BY <1>1, <1>6, DoneStep
  <2>2. ses[u] \in Objs /\ Writers(ses[u]) \subseteq {who[u]}
    BY <2>1 DEF IInv, TaskInv, Isolation
  <2>3. ses[u] = x => who[u] = who[t]
    BY <1>1, <2>1 DEF IInv, OwnerInv, x
  <2>4. gated'[ses[u]] \cup {log'[ses[u]][i].from : i \in DOMAIN log'[ses[u]]} \subseteq {who[u]}
    BY <1>5, <2>2, <2>3
  <2>5. QED
    BY ONLY <2>1, <2>4, Zenon DEF Writers
<1>7. ASSUME NEW d \in Clients, Known(d)'
      PROVE  Writers(bound[KeyOf(d)])' \subseteq {d}
  <2>1. Held' = Held /\ bound' = bound
    BY <1>1, DoneStep DEF tableVars
  <2>2. KeyOf(d) \in Held
    BY <1>7, <2>1 DEF Known, KeyOf
  <2>3. bound[KeyOf(d)] \in Objs /\ Writers(bound[KeyOf(d)]) \subseteq {d}
    BY <2>2 DEF IInv, BoundInv, Isolation, Known
  <2>4. KeyOf(d) # NoKey
    <3>1. table \in Seq(Keys)
      BY DEF IInv, TypeOK
    <3>2. Held \subseteq Keys
      BY <3>1, ElementOfSeq, LenProperties DEF Held
    <3>3. QED
      BY <2>2, <3>2 DEF Keys
  <2>5. bound[KeyOf(d)] = x => who[t] = d
    <3>1. bound[KeyOf(d)] = x => KeyOf(who[t]) = KeyOf(d)
      BY <1>1, <2>2 DEF IInv, OwnerInv, x
    <3>2. QED
      BY <1>2, <2>4, <3>1, KeyIdentity
  <2>6. LET y == bound[KeyOf(d)]
        IN gated'[y] \cup {log'[y][i].from : i \in DOMAIN log'[y]} \subseteq {d}
    BY <1>5, <2>3, <2>5
  <2>7. bound[KeyOf(d)]' = bound[KeyOf(d)]
    BY <2>1 DEF KeyOf
  <2>8. QED
    BY ONLY <2>6, <2>7, Zenon DEF Writers
<1>8. Isolation'
  BY <1>6, <1>7 DEF Isolation
<1>9. QED
  BY <1>1, <1>4, <1>8, DoneStep DEF IInv

\* A call that records nothing leaves every session as it was.
LEMMA EndUnrecordedStep ==
  ASSUME IInv, NEW t \in Tasks, EndUnrecorded(t)
  PROVE  IInv'
<1>1. /\ Done(t) /\ UNCHANGED tableVars
      /\ gated' = gated /\ results' = results /\ log' = log
  BY DEF EndUnrecorded, sessionVars
<1>2. TypeOK'
  BY <1>1, DoneStep DEF IInv, TypeOK
<1>3. Isolation'
  <2>1. Held' = Held /\ bound' = bound
    BY <1>1, DoneStep DEF tableVars
  <2>2. \A u \in Tasks : pc'[u] = "pending" =>
          pc[u] = "pending" /\ who'[u] = who[u] /\ ses'[u] = ses[u]
    BY <1>1, DoneStep
  <2>3. QED
    BY <1>1, <2>1, <2>2 DEF IInv, Isolation, Known, KeyOf, Writers
<1>4. QED
  BY <1>1, <1>2, <1>3, DoneStep DEF IInv

\* The invariant: a session object has one client, through the table and through
\* the calls under way alike.
THEOREM InductiveInvariant == Spec => []IInv
<1>1. ASSUME IInv, [Next]_vars
      PROVE  IInv'
  <2>1. ASSUME NEW c \in Clients, NEW o \in Objs, Check(c, o)
        PROVE  IInv'
    <3>1. Lookup(c, o) /\ Hand(c, o, GatedOf(c, o)) /\ UNCHANGED taskVars
      BY <2>1 DEF Check
    <3>2. GatedOf(c, o) \in SUBSET Clients /\ GatedOf(c, o) \subseteq {c}
      BY <1>1, <3>1, LookupOwns
    <3>3. report' \in [to : Clients \cup {NoClient}, says : {"none", "blind", "checked"}]
      BY <2>1 DEF Check
    <3>4. QED
      BY <1>1, <3>1, <3>2, <3>3, HandedBack
  <2>2. ASSUME NEW c \in Clients, NEW o \in Objs, NEW t \in Tasks, Gate(t, c, o)
        PROVE  IInv'
    <3>1. Lookup(c, o) /\ Hand(c, o, {c}) /\ UNCHANGED taskVars /\ report' = report
      BY <2>2 DEF Gate
    <3>2. report' \in [to : Clients \cup {NoClient}, says : {"none", "blind", "checked"}]
      BY <1>1, <3>1 DEF IInv, TypeOK
    <3>3. QED
      BY <1>1, <3>1, <3>2, HandedBack
  <2>3. CASE UNCHANGED vars
    <3>1. UNCHANGED <<table, bound, gated, results, log, pc, who, ses, report>>
      BY <2>3 DEF vars, tableVars, sessionVars, taskVars
    <3>2. TypeOK'
      BY <1>1, <3>1 DEF IInv, TypeOK
    <3>3. Held' = Held
      BY <3>1 DEF Held
    <3>4. BoundInv' /\ TaskInv' /\ OwnerInv'
      BY <1>1, <3>1, <3>3 DEF IInv, BoundInv, TaskInv, OwnerInv, KeyOf
    <3>5. Isolation'
      <4>1. \A t \in Tasks : pc'[t] = "pending" => Writers(ses[t])' \subseteq {who'[t]}
        BY <1>1, <3>1 DEF IInv, Isolation, Writers
      <4>2. ASSUME NEW c \in Clients, Known(c)'
            PROVE  Writers(bound[KeyOf(c)])' \subseteq {c}
        BY <1>1, <3>1, <3>3, <4>2 DEF IInv, Isolation, Known, KeyOf, Writers
      <4>3. QED
        BY <4>1, <4>2 DEF Isolation
    <3>6. QED
      BY <3>2, <3>4, <3>5 DEF IInv
  <2>4. QED
    BY <1>1, <2>1, <2>2, <2>3, CallStep, RespondStep, EndUnrecordedStep DEF Next
<1>2. QED
  BY <1>1, InitInv, PTL DEF Spec

\* Every variable keeps its type, and the table its limit, in every behaviour.
THEOREM TypeCorrect == Spec => []TypeOK
<1>1. IInv => TypeOK
  BY DEF IInv
<1>2. QED
  BY <1>1, InductiveInvariant, PTL

\* No client meets another one's evidence or spent gate, whatever the table
\* evicts and whichever call answers late.
THEOREM Isolated == Spec => []Isolation
<1>1. IInv => Isolation
  BY DEF IInv
<1>2. QED
  BY <1>1, InductiveInvariant, PTL

-----------------------------------------------------------------------------
(* The evidence window                                                     *)

\* f[n] is the size of the first n results of q.
Running(q, f) ==
  f = [n \in 0..Len(q) |-> IF n = 0 THEN 0 ELSE f[n - 1] + q[n].size]

LEMMA RunningExists ==
  ASSUME NEW q \in Seq(Entry)
  PROVE  \E f : Running(q, f)
<1> DEFINE Upto(n, f) == f = [k \in 0..n |-> IF k = 0 THEN 0 ELSE f[k - 1] + q[k].size]
           S == {n \in Nat : \E f : Upto(n, f)}
<1>1. 0 \in S
  <2> DEFINE f == [k \in 0..0 |-> 0]
  <2>1. Upto(0, f)
    <3> DEFINE g == [k \in 0..0 |-> IF k = 0 THEN 0 ELSE f[k - 1] + q[k].size]
    <3>1. \A k \in 0..0 : f[k] = g[k]
      OBVIOUS
    <3>2. QED
      BY <3>1
  <2>2. QED
    BY <2>1
<1>2. ASSUME NEW n \in Nat, n \in S
      PROVE  n + 1 \in S
  <2>1. PICK f : Upto(n, f)
    BY <1>2
  <2> DEFINE g == [k \in 0..(n + 1) |-> IF k = n + 1 THEN f[n] + q[n + 1].size ELSE f[k]]
             h == [k \in 0..(n + 1) |-> IF k = 0 THEN 0 ELSE g[k - 1] + q[k].size]
  <2>2. ASSUME NEW k \in 0..(n + 1)
        PROVE  g[k] = h[k]
    <3>1. CASE k = n + 1
      BY <3>1
    <3>2. CASE k \in 0..n
      <4>1. f[k] = IF k = 0 THEN 0 ELSE f[k - 1] + q[k].size
        <5> DEFINE e == [l \in 0..n |-> IF l = 0 THEN 0 ELSE f[l - 1] + q[l].size]
        <5>1. e[k] = IF k = 0 THEN 0 ELSE f[k - 1] + q[k].size
          BY <3>2
        <5>2. f = e
          BY <2>1
        <5> HIDE DEF e
        <5>3. QED
          BY <5>1, <5>2
      <4>2. g[k] = f[k] /\ (k # 0 => g[k - 1] = f[k - 1])
        BY <3>2
      <4>3. h[k] = IF k = 0 THEN 0 ELSE g[k - 1] + q[k].size
        OBVIOUS
      <4> HIDE DEF g, h
      <4>4. QED
        BY <4>1, <4>2, <4>3
    <3>3. QED
      BY <3>1, <3>2
  <2>3. g = h
    <3>1. DOMAIN g = DOMAIN h /\ g = [k \in DOMAIN g |-> g[k]] /\ h = [k \in DOMAIN h |-> h[k]]
      OBVIOUS
    <3>2. DOMAIN g = 0..(n + 1)
      OBVIOUS
    <3> HIDE DEF g, h
    <3>3. QED
      BY <2>2, <3>1, <3>2
  <2>4. Upto(n + 1, g)
    <3> HIDE DEF g
    <3>1. QED
      BY <2>3
  <2> HIDE DEF Upto, g
  <2>5. QED
    BY <2>4
<1>3. Len(q) \in S
  <2>1. Len(q) \in Nat
    OBVIOUS
  <2> HIDE DEF S
  <2>2. QED
    BY <1>1, <1>2, <2>1, SetInduction
<1>4. QED
  BY <1>3 DEF Running

LEMMA RunningStep ==
  ASSUME NEW q \in Seq(Entry), NEW f, Running(q, f)
  PROVE  /\ f[0] = 0
         /\ \A n \in Nat : n + 1 <= Len(q) => f[n + 1] = f[n] + q[n + 1].size
<1>1. Len(q) \in Nat
  OBVIOUS
<1> DEFINE e == [n \in 0..Len(q) |-> IF n = 0 THEN 0 ELSE f[n - 1] + q[n].size]
<1>2. /\ e[0] = 0
      /\ \A n \in Nat : n + 1 <= Len(q) => e[n + 1] = f[n] + q[n + 1].size
  BY <1>1
<1>3. f = e
  BY DEF Running
<1> HIDE DEF e
<1>4. QED
  BY <1>2, <1>3

\* Bytes adds up the sizes: it is the last of the running sums.
LEMMA BytesIsRunning ==
  ASSUME NEW q \in Seq(Entry)
  PROVE  \E f : Running(q, f) /\ Bytes(q) = f[Len(q)]
<1> DEFINE f == CHOOSE f : Running(q, f)
<1>1. Running(q, f)
  BY RunningExists
<1>2. Bytes(q) = f[Len(q)]
  BY DEF Bytes, Running
<1>3. QED
  BY <1>1, <1>2

\* A result more weighs its size more.
LEMMA BytesAppend ==
  ASSUME NEW q \in Seq(Entry), NEW e \in Entry
  PROVE  Bytes(q) \in Nat /\ Bytes(Append(q, e)) = Bytes(q) + e.size
<1> DEFINE p == Append(q, e)
           N == Len(q)
<1>1. /\ p \in Seq(Entry) /\ Len(p) = N + 1 /\ N \in Nat
      /\ \A n \in 1..N : p[n] = q[n] /\ q[n] \in Entry
      /\ p[N + 1] = e
  BY AppendProperties, ElementOfSeq
<1>2. \A x \in Entry : x.size \in Nat
  BY BoundsAssumption DEF Entry
<1> HIDE DEF p
<1>3. PICK f : Running(q, f) /\ Bytes(q) = f[N]
  BY BytesIsRunning
<1>4. PICK g : Running(p, g) /\ Bytes(p) = g[N + 1]
  BY <1>1, BytesIsRunning
<1> DEFINE S == {n \in Nat : n <= N => f[n] = g[n] /\ f[n] \in Nat}
<1>5. 0 \in S
  BY <1>1, <1>3, <1>4, RunningStep
<1>6. ASSUME NEW n \in Nat, n \in S
      PROVE  n + 1 \in S
  <2> SUFFICES ASSUME n + 1 <= N PROVE f[n + 1] = g[n + 1] /\ f[n + 1] \in Nat
    OBVIOUS
  <2>1. f[n] = g[n] /\ f[n] \in Nat
    BY <1>1, <1>6
  <2>2. p[n + 1] = q[n + 1] /\ q[n + 1].size \in Nat
    BY <1>1, <1>2
  <2>3. f[n + 1] = f[n] + q[n + 1].size
    BY <1>3, RunningStep
  <2>4. g[n + 1] = g[n] + p[n + 1].size
    BY <1>1, <1>4, RunningStep
  <2>5. QED
    BY <2>1, <2>2, <2>3, <2>4
<1>7. N \in S
  <2> HIDE DEF S, N
  <2>1. QED
    BY <1>1, <1>5, <1>6, SetInduction
<1>8. g[N + 1] = g[N] + e.size
  BY <1>1, <1>4, RunningStep
<1>9. QED
  BY <1>1, <1>3, <1>4, <1>7, <1>8 DEF p

\* With a result less, what fits still fits.
LEMMA FitsWithout ==
  ASSUME NEW q \in Seq(Entry), NEW e \in Entry, Fits(Append(q, e))
  PROVE  Fits(q)
<1>1. Len(Append(q, e)) = Len(q) + 1 /\ Append(q, e) # <<>> /\ Len(q) \in Nat
  BY AppendProperties
<1>2. e.size \in Nat /\ MaxPayloads \in Nat /\ MaxBytes \in Nat
  BY BoundsAssumption DEF Entry
<1>3. QED
  BY <1>1, <1>2, BytesAppend DEF Fits

\* The evidence held is that of everything recorded, not of what was held before.
EvidenceInv == \A o \in Objs : IsLongest(results[o], log[o])

LEMMA FromOfAppend ==
  ASSUME NEW q \in Seq(Entry), NEW e \in Entry, NEW i \in 1..(Len(q) + 1)
  PROVE  From(Append(q, e), i) = Append(From(q, i), e)
<1> DEFINE p == Append(q, e)
           N == Len(q)
<1>1. /\ p \in Seq(Entry) /\ Len(p) = N + 1 /\ N \in Nat
      /\ \A n \in 1..N : p[n] = q[n]
      /\ p[N + 1] = e
  BY AppendProperties
<1>2. /\ From(q, i) \in Seq(Entry) /\ Len(From(q, i)) = N - i + 1
      /\ \A k \in 1..(N - i + 1) : From(q, i)[k] = q[i + k - 1]
  BY FromType
<1> HIDE DEF p, N
<1>3. i \in 1..(N + 1) /\ i \in 1..(Len(p) + 1)
  BY <1>1 DEF N
<1>4. /\ From(p, i) \in Seq(Entry) /\ Len(From(p, i)) = N - i + 2
      /\ \A k \in 1..(N - i + 2) : From(p, i)[k] = p[i + k - 1]
  <2>1. /\ From(p, i) \in Seq(Entry) /\ Len(From(p, i)) = Len(p) - i + 1
        /\ \A k \in 1..(Len(p) - i + 1) : From(p, i)[k] = p[i + k - 1]
    BY <1>1, <1>3, FromType
  <2>2. Len(p) - i + 1 = N - i + 2
    BY <1>1, <1>3
  <2>3. QED
    BY <2>1, <2>2
<1>5. /\ Append(From(q, i), e) \in Seq(Entry) /\ Len(Append(From(q, i), e)) = N - i + 2
      /\ \A k \in 1..(N - i + 1) : Append(From(q, i), e)[k] = From(q, i)[k]
      /\ Append(From(q, i), e)[N - i + 2] = e
  <2> DEFINE r == From(q, i)
  <2>1. r \in Seq(Entry) /\ Len(r) = N - i + 1 /\ Len(r) + 1 = N - i + 2
    BY <1>1, <1>2, <1>3
  <2> HIDE DEF r
  <2>2. /\ Append(r, e) \in Seq(Entry) /\ Len(Append(r, e)) = Len(r) + 1
        /\ \A k \in 1..Len(r) : Append(r, e)[k] = r[k]
        /\ Append(r, e)[Len(r) + 1] = e
    BY <2>1, AppendProperties
  <2>3. QED
    BY <2>1, <2>2 DEF r
<1>6. ASSUME NEW k \in 1..(N - i + 2)
      PROVE  From(p, i)[k] = Append(From(q, i), e)[k]
  <2>1. CASE k = N - i + 2
    BY <1>1, <1>3, <1>4, <1>5, <2>1
  <2>2. CASE k \in 1..(N - i + 1)
    <3>1. i + k - 1 \in 1..N
      BY <1>1, <1>3, <2>2
    <3>2. QED
      BY <1>1, <1>2, <1>4, <1>5, <2>2, <3>1
  <2>3. k = N - i + 2 \/ k \in 1..(N - i + 1)
    BY <1>1, <1>3
  <2>4. QED
    BY <2>1, <2>2, <2>3
<1>7. QED
  BY <1>4, <1>5, <1>6, SeqEqual DEF p

LEMMA FromOfFrom ==
  ASSUME NEW q \in Seq(Entry), NEW i \in 1..(Len(q) + 1),
         NEW m \in 1..(Len(q) - i + 2)
  PROVE  From(From(q, i), m) = From(q, i + m - 1)
<1> DEFINE r == From(q, i)
           N == Len(q)
<1>1. /\ r \in Seq(Entry) /\ Len(r) = N - i + 1 /\ N \in Nat
      /\ \A k \in 1..(N - i + 1) : r[k] = q[i + k - 1]
  BY FromType
<1> HIDE DEF r, N
<1>2. i \in 1..(N + 1) /\ m \in 1..(N - i + 2) /\ i + m - 1 \in 1..(N + 1)
  BY <1>1 DEF N
<1>3. m \in 1..(Len(r) + 1)
  BY <1>1, <1>2
<1>4. /\ From(r, m) \in Seq(Entry) /\ Len(From(r, m)) = N - i - m + 2
      /\ \A k \in 1..(N - i - m + 2) : From(r, m)[k] = r[m + k - 1]
  <2>1. /\ From(r, m) \in Seq(Entry) /\ Len(From(r, m)) = Len(r) - m + 1
        /\ \A k \in 1..(Len(r) - m + 1) : From(r, m)[k] = r[m + k - 1]
    BY <1>1, <1>3, FromType
  <2>2. Len(r) - m + 1 = N - i - m + 2
    BY <1>1, <1>2
  <2>3. QED
    BY <2>1, <2>2
<1>5. /\ From(q, i + m - 1) \in Seq(Entry) /\ Len(From(q, i + m - 1)) = N - i - m + 2
      /\ \A k \in 1..(N - i - m + 2) : From(q, i + m - 1)[k] = q[i + m - 1 + k - 1]
  <2>1. LET l == i + m - 1
        IN  /\ From(q, l) \in Seq(Entry) /\ Len(From(q, l)) = N - l + 1
            /\ \A k \in 1..(N - l + 1) : From(q, l)[k] = q[l + k - 1]
    BY <1>2, FromType DEF N
  <2>2. N - (i + m - 1) + 1 = N - i - m + 2
    BY <1>1, <1>2
  <2>3. QED
    BY <2>1, <2>2
<1>6. ASSUME NEW k \in 1..(N - i - m + 2)
      PROVE  From(r, m)[k] = From(q, i + m - 1)[k]
  <2>1. m + k - 1 \in 1..(N - i + 1) /\ i + (m + k - 1) - 1 = i + m - 1 + k - 1
    BY <1>1, <1>2
  <2>2. QED
    BY <1>1, <1>4, <1>5, <2>1
<1>7. QED
  BY <1>4, <1>5, <1>6, SeqEqual DEF r

\* Looking only at what was held is enough: a result dropped before would not fit
\* with one more after it.
LEMMA WindowOfHeld ==
  ASSUME NEW q \in Seq(Entry), NEW r, IsLongest(r, q), NEW e \in Entry
  PROVE  IsLongest(Window(Append(r, e)), Append(q, e))
<1> DEFINE p == Append(q, e)
           N == Len(q)
           w == Window(Append(r, e))
<1>1. p \in Seq(Entry) /\ Len(p) = N + 1 /\ N \in Nat
  BY AppendProperties
<1>2. PICK i \in 1..(N + 1) : r = From(q, i) /\ \A j \in 1..(i - 1) : ~Fits(From(q, j))
  BY DEF IsLongest
<1>3. Append(r, e) = From(p, i)
  BY <1>2, FromOfAppend
<1>4. i \in 1..(Len(p) + 1)
  BY <1>1
<1>5. From(p, i) \in Seq(Entry) /\ Len(From(p, i)) = N - i + 2
  <2> HIDE DEF p, N
  <2>1. From(p, i) \in Seq(Entry) /\ Len(From(p, i)) = Len(p) - i + 1
    BY <1>1, <1>4, FromType
  <2>2. QED
    BY <1>1, <1>2, <2>1
<1>6. IsLongest(w, From(p, i))
  BY <1>3, <1>5, WindowLongest
<1> HIDE DEF p, w
<1>7. PICK m \in 1..(N - i + 3) :
        /\ w = From(From(p, i), m) /\ Fits(w)
        /\ \A j \in 1..(m - 1) : ~Fits(From(From(p, i), j))
  <2>1. Len(From(p, i)) + 1 = N - i + 3
    BY <1>1, <1>5
  <2>2. QED
    BY <1>6, <2>1 DEF IsLongest
<1>8. \A j \in 1..(N - i + 3) : From(From(p, i), j) = From(p, i + j - 1)
  <2>1. Len(p) - i + 2 = N - i + 3
    BY <1>1
  <2>2. QED
    BY <1>1, <1>4, <2>1, FromOfFrom
<1>9. i + m - 1 \in 1..(Len(p) + 1) /\ w = From(p, i + m - 1)
  BY <1>1, <1>7, <1>8
<1>10. ASSUME NEW j \in 1..(i + m - 1 - 1)
       PROVE  ~Fits(From(p, j))
  <2>1. CASE j < i
    <3>1. j \in 1..(i - 1) /\ j \in 1..(N + 1)
      BY <1>1, <1>7, <2>1
    <3>2. From(p, j) = Append(From(q, j), e)
      BY <3>1, FromOfAppend DEF p
    <3>3. From(q, j) \in Seq(Entry)
      BY <3>1, FromType
    <3>4. QED
      BY <1>2, <3>1, <3>2, <3>3, FitsWithout
  <2>2. CASE j >= i
    <3>1. /\ j - i + 1 \in 1..(m - 1) /\ j - i + 1 \in 1..(N - i + 3)
          /\ i + (j - i + 1) - 1 = j
      BY <1>1, <1>7, <2>2
    <3>2. QED
      BY <1>7, <1>8, <3>1
  <2>3. QED
    BY <1>1, <1>7, <2>1, <2>2
<1>11. QED
  BY <1>7, <1>9, <1>10 DEF IsLongest, p, w

LEMMA EmptyLongest == IsLongest(<<>>, <<>>)
<1>1. From(<<>>, 1) = <<>> /\ Len(<<>>) = 0
  BY SubSeqEmpty DEF From
<1>2. 1 \in 1..(Len(<<>>) + 1) /\ Fits(<<>>) /\ 1..(1 - 1) = {}
  BY <1>1 DEF Fits
<1>3. QED
  BY <1>1, <1>2 DEF IsLongest

LEMMA SameEvidence ==
  ASSUME EvidenceInv, log' = log, results' = results
  PROVE  EvidenceInv'
<1>1. \A x \in Objs : IsLongest(results'[x], log'[x])
  BY DEF EvidenceInv
<1>2. QED
  BY <1>1 DEF EvidenceInv, IsLongest, Fits, From, Bytes

\* A look-up hands out what the session holds, or a session that holds nothing.
LEMMA HandKeepsEvidence ==
  ASSUME IInv, EvidenceInv, NEW c \in Clients, NEW o \in Objs, NEW g,
         Lookup(c, o), Hand(c, o, g)
  PROVE  EvidenceInv'
<1>1. log \in [Objs -> Seq(Entry)] /\ results \in [Objs -> Seq(Entry)]
  BY DEF IInv, TypeOK
<1>2. /\ log'[o] = LogOf(c, o) /\ results'[o] = ResultsOf(c, o)
      /\ \A x \in Objs : x # o => log'[x] = log[x] /\ results'[x] = results[x]
  BY <1>1 DEF Hand
<1>3. IsLongest(ResultsOf(c, o), LogOf(c, o))
  BY EmptyLongest DEF EvidenceInv, ResultsOf, LogOf
<1>4. \A x \in Objs : IsLongest(results'[x], log'[x])
  BY <1>2, <1>3 DEF EvidenceInv
<1>5. QED
  BY <1>4 DEF EvidenceInv, IsLongest, Fits, From, Bytes

LEMMA RespondKeepsEvidence ==
  ASSUME IInv, EvidenceInv, NEW t \in Tasks, NEW n \in Sizes, Respond(t, n)
  PROVE  EvidenceInv'
<1> DEFINE o == ses[t]
           entry == [from |-> who[t], size |-> n]
<1>1. log \in [Objs -> Seq(Entry)] /\ results \in [Objs -> Seq(Entry)]
  BY DEF IInv, TypeOK
<1>2. o \in Objs /\ entry \in Entry
  BY DEF Respond, IInv, TaskInv, Entry
<1>3. /\ log' = [log EXCEPT ![o] = Append(@, entry)]
      /\ results' = [results EXCEPT ![o] = Window(Append(@, entry))]
  BY DEF Respond
<1> HIDE DEF o, entry
<1>4. IsLongest(results'[o], log'[o])
  BY <1>1, <1>2, <1>3, WindowOfHeld DEF EvidenceInv
<1>5. \A x \in Objs : IsLongest(results'[x], log'[x])
  BY <1>1, <1>3, <1>4 DEF EvidenceInv
<1>6. QED
  BY <1>5 DEF EvidenceInv, IsLongest, Fits, From, Bytes

\* In the words of the property: the longest run is a suffix, and a longer one does
\* not fit.
LEMMA LongestSuffix ==
  ASSUME NEW q \in Seq(Entry), NEW r, IsLongest(r, q)
  PROVE  /\ IsSuffix(r, q) /\ Fits(r)
         /\ \A s \in Suffixes(q) : Len(s) > Len(r) => ~Fits(s)
<1> DEFINE N == Len(q)
<1>1. PICK i \in 1..(N + 1) :
        r = From(q, i) /\ Fits(r) /\ \A j \in 1..(i - 1) : ~Fits(From(q, j))
  BY DEF IsLongest
<1>2. /\ r \in Seq(Entry) /\ Len(r) = N - i + 1 /\ N \in Nat
      /\ \A k \in 1..(N - i + 1) : r[k] = q[i + k - 1]
  <2>1. /\ From(q, i) \in Seq(Entry) /\ Len(From(q, i)) = Len(q) - i + 1
        /\ \A k \in 1..(Len(q) - i + 1) : From(q, i)[k] = q[i + k - 1]
    BY <1>1, FromType
  <2>2. QED
    BY <1>1, <2>1
<1>3. ASSUME NEW s \in Suffixes(q), Len(s) > Len(r)
      PROVE  ~Fits(s)
  <2>1. s # <<>>
    <3>1. Len(<<>>) = 0
      OBVIOUS
    <3>2. QED
      BY <1>2, <1>3, <3>1
  <2>2. PICK l \in 1..N : s = From(q, l)
    BY <2>1 DEF Suffixes, From
  <2>3. l \in 1..(N + 1)
    BY <1>2
  <2>4. Len(s) = N - l + 1
    BY <2>2, <2>3, FromType
  <2> HIDE DEF N
  <2>5. l \in 1..(i - 1)
    BY <1>2, <1>3, <2>3, <2>4
  <2>6. QED
    BY <1>1, <2>2, <2>5
<1>4. IsSuffix(r, q)
  <2> DEFINE a == Reverse(r)
             b == Reverse(q)
             n == Len(r)
  <2>1. \A m \in Nat : \A f \in [1..m -> Entry] : f \in Seq(Entry) /\ Len(f) = m
    OBVIOUS
  <2>2. a \in [1..n -> Entry] /\ b \in [1..N -> Entry]
    <3>1. \A k \in 1..n : r[n - k + 1] \in Entry
      BY <1>2, ElementOfSeq
    <3>2. \A k \in 1..N : q[N - k + 1] \in Entry
      BY <1>2, ElementOfSeq
    <3>3. QED
      BY <3>1, <3>2 DEF Reverse
  <2>3. a \in Seq(Entry) /\ Len(a) = n /\ b \in Seq(Entry) /\ Len(b) = N /\ n \in Nat
    <3> HIDE DEF a, b
    <3>1. n \in Nat
      BY <1>2
    <3>2. QED
      BY <1>2, <2>1, <2>2, <3>1
  <2>4. \A k \in 1..n : a[k] = r[n - k + 1]
    BY DEF Reverse
  <2>5. \A k \in 1..N : b[k] = q[N - k + 1]
    BY DEF Reverse
  <2> HIDE DEF a, b, n, N
  <2>6. n = N - i + 1 /\ n <= N
    BY <1>2 DEF n
  <2>7. ASSUME NEW k \in 1..n PROVE a[k] = b[k]
    <3>1. n - k + 1 \in 1..(N - i + 1) /\ i + (n - k + 1) - 1 = N - k + 1 /\ k \in 1..N
      BY <1>2, <2>3, <2>6
    <3>2. QED
      BY <1>2, <2>4, <2>5, <3>1
  <2>8. SubSeq(a, 1, n) = SubSeq(b, 1, n)
    <3>1. /\ \A k \in 1..n : a[k] \in Entry /\ b[k] \in Entry
          /\ 1 \in Int /\ n \in Int /\ n - 1 + 1 = n
          /\ \A k \in 1..n : 1 + k - 1 = k
      BY <2>2, <2>3, <2>6
    <3>2. /\ SubSeq(a, 1, n) \in Seq(Entry)
          /\ Len(SubSeq(a, 1, n)) = IF 1 <= n THEN n - 1 + 1 ELSE 0
          /\ \A k \in 1..(n - 1 + 1) : SubSeq(a, 1, n)[k] = a[1 + k - 1]
      BY <3>1, SubSeqProperties
    <3>3. /\ SubSeq(b, 1, n) \in Seq(Entry)
          /\ Len(SubSeq(b, 1, n)) = IF 1 <= n THEN n - 1 + 1 ELSE 0
          /\ \A k \in 1..(n - 1 + 1) : SubSeq(b, 1, n)[k] = b[1 + k - 1]
      BY <3>1, SubSeqProperties
    <3>4. Len(SubSeq(a, 1, n)) = Len(SubSeq(b, 1, n)) /\ Len(SubSeq(a, 1, n)) = n
      BY <2>3, <3>2, <3>3
    <3>5. \A k \in 1..n : SubSeq(a, 1, n)[k] = SubSeq(b, 1, n)[k]
      BY <2>7, <3>1, <3>2, <3>3
    <3>6. QED
      BY <3>2, <3>3, <3>4, <3>5, SeqEqual
  <2>9. QED
    BY <2>3, <2>6, <2>8 DEF IsSuffix, IsPrefix, a, b
<1>5. QED
  BY <1>1, <1>3, <1>4

\* _remember_payload: whatever was recorded, in whatever order calls answered, the
\* evidence held is the longest run of recent results within both limits.
THEOREM LongestEvidence == Spec => []EvidenceIsLongestSuffix
<1>1. Init => EvidenceInv
  <2>1. ASSUME Init PROVE \A o \in Objs : results[o] = <<>> /\ log[o] = <<>>
    BY <2>1 DEF Init
  <2>2. QED
    BY <2>1, EmptyLongest DEF EvidenceInv
<1>2. ASSUME IInv, EvidenceInv, [Next]_vars
      PROVE  EvidenceInv'
  <2>1. ASSUME NEW c \in Clients, NEW o \in Objs, Check(c, o) PROVE EvidenceInv'
    BY <1>2, <2>1, HandKeepsEvidence DEF Check
  <2>2. ASSUME NEW c \in Clients, NEW o \in Objs, NEW t \in Tasks,
               Gate(t, c, o) \/ Call(t, c, o)
        PROVE  EvidenceInv'
    BY <1>2, <2>2, HandKeepsEvidence DEF Gate, Call
  <2>3. ASSUME NEW t \in Tasks, EndUnrecorded(t) PROVE EvidenceInv'
    <3>1. log' = log /\ results' = results
      BY <2>3 DEF EndUnrecorded, sessionVars
    <3>2. QED
      BY <1>2, <3>1, SameEvidence
  <2>4. CASE UNCHANGED vars
    <3>1. log' = log /\ results' = results
      BY <2>4 DEF vars, sessionVars
    <3>2. QED
      BY <1>2, <3>1, SameEvidence
  <2>5. QED
    BY <1>2, <2>1, <2>2, <2>3, <2>4, RespondKeepsEvidence DEF Next
<1>3. ASSUME IInv, EvidenceInv
      PROVE  EvidenceIsLongestSuffix
  <2>1. log \in [Objs -> Seq(Entry)]
    BY <1>3 DEF IInv, TypeOK
  <2>2. QED
    BY <1>3, <2>1, LongestSuffix DEF EvidenceInv, EvidenceIsLongestSuffix
<1>4. QED
  BY <1>1, <1>2, <1>3, InductiveInvariant, PTL DEF Spec

-----------------------------------------------------------------------------
(* Sessions that are private by construction                               *)

\* Client d refers to session x, through the table or through a call of its own.
Refers(d, x) == Current(d) = x \/ \E t \in Tasks : who[t] = d /\ ses[t] = x

\* What session x holds for d: nothing, if d cannot reach it.
Had(d, x) == IF Refers(d, x) THEN results[x] ELSE <<>>

\* What the abstract specification sees of the table and its objects.
Cur == [d \in Clients |-> Current(d)]
Gat == [d \in Clients |-> {x \in Reach(d) : gated[x] # {}}]
Evi == [d \in Clients |-> [x \in Reach(d) |-> results[x]]]

LEMMA KeysHeld ==
  ASSUME IInv
  PROVE  Held \subseteq Keys /\ NoKey \notin Keys /\ NoObj \notin Objs
<1>1. table \in Seq(Keys)
  BY DEF IInv, TypeOK
<1>2. Held \subseteq Keys
  BY <1>1, ElementOfSeq, LenProperties DEF Held
<1>3. QED
  BY <1>2, AbsentAssumption DEF Keys

\* A client's conversation is the one its key is bound to.
LEMMA CurrentIs ==
  ASSUME IInv, NEW d \in Clients, NEW x \in Objs
  PROVE  /\ Current(d) = x <=> KeyOf(d) \in Held /\ bound[KeyOf(d)] = x
         /\ (Current(d) = x)' <=> KeyOf(d) \in Held' /\ bound'[KeyOf(d)] = x
<1>1. NoObj # x
  BY AbsentAssumption
<1>2. Current(d)' = IF KeyOf(d) \in Held' THEN bound'[KeyOf(d)] ELSE NoObj
  BY DEF Current, Known, KeyOf
<1>3. QED
  BY <1>1, <1>2 DEF Current, Known

\* The sessions a client can reach are the objects it refers to.
LEMMA ReachIs ==
  ASSUME IInv, NEW d \in Clients
  PROVE  Reach(d) = {x \in Objs : Refers(d, x)}
<1>1. Current(d) \in Objs \cup {NoObj}
  BY DEF Current, Known, IInv, BoundInv
<1>2. \A t \in Tasks : ses[t] \in Objs \cup {NoObj}
  BY DEF IInv, TypeOK
<1>3. QED
  BY <1>1, <1>2, AbsentAssumption DEF Reach, Refers

LEMMA ReachNext ==
  ASSUME IInv', NEW d \in Clients
  PROVE  Reach(d)' = {x \in Objs : Refers(d, x)'}
<1>1. (Current(d) \in Objs \cup {NoObj})'
  BY DEF Current, Known, IInv, BoundInv
<1>2. \A t \in Tasks : ses'[t] \in Objs \cup {NoObj}
  BY DEF IInv, TypeOK
<1>3. QED
  BY <1>1, <1>2, AbsentAssumption DEF Reach, Refers

\* In the abstract specification they are the client's conversations.
LEMMA AliveIs ==
  ASSUME NEW d \in Clients
  PROVE  Private!Alive(d) = Reach(d) /\ Private!Alive(d)' = Reach(d)'
BY DEF Private!Alive, Reach

\* What the abstract specification reads off the mapping.
LEMMA Mapped ==
  ASSUME IInv, NEW d \in Clients, NEW x \in Objs
  PROVE  /\ x \in Gat[d] <=> Refers(d, x) /\ gated[x] # {}
         /\ Private!Of(Evi[d], x) = Had(d, x)
         /\ Refers(d, x) => x \in DOMAIN Evi[d] /\ Evi[d][x] = results[x]
<1>1. x \in Reach(d) <=> Refers(d, x)
  BY ReachIs
<1>2. QED
  BY <1>1 DEF Gat, Evi, Had, Private!Of

\* Of the spent gates, and of the evidence, those are remembered whose session someone
\* still refers to.
LEMMA GatesRemembered ==
  ASSUME IInv',
         \A d \in Clients, x \in Objs : Refers(d, x)' => (gated'[x] # {} <=> x \in Gat[d])
  PROVE  Gat' = [d \in Clients |-> {x \in Private!Alive(d)' : x \in Gat[d]}]
<1>1. ASSUME NEW d \in Clients
      PROVE  {x \in Reach(d)' : gated'[x] # {}} = {x \in Private!Alive(d)' : x \in Gat[d]}
  BY AliveIs, ReachNext
<1>2. Gat' = [d \in Clients |-> {x \in Reach(d)' : gated'[x] # {}}]
  BY DEF Gat
<1>3. QED
  BY <1>1, <1>2

LEMMA EvidenceRemembered ==
  ASSUME IInv, IInv', \A d \in Clients, x \in Objs : Refers(d, x)' => results'[x] = Had(d, x)
  PROVE  Evi' = [d \in Clients |-> [x \in Private!Alive(d)' |-> Private!Of(Evi[d], x)]]
<1>1. ASSUME NEW d \in Clients
      PROVE  [x \in Reach(d)' |-> results'[x]]
               = [x \in Private!Alive(d)' |-> Private!Of(Evi[d], x)]
  <2>1. \A x \in Reach(d)' : results'[x] = Private!Of(Evi[d], x)
    BY ReachNext, Mapped
  <2>2. QED
    BY <2>1, AliveIs
<1>2. Evi' = [d \in Clients |-> [x \in Reach(d)' |-> results'[x]]]
  BY DEF Evi
<1>3. QED
  BY <1>1, <1>2

\* The tasks refer to no more sessions than before, but for a call of c that takes o.
TasksTake(c, o) ==
  \A d \in Clients, x \in Objs, u \in Tasks :
    who'[u] = d /\ ses'[u] = x => (d = c /\ x = o) \/ (who[u] = d /\ ses[u] = x)

\* A look-up hands a session to its own client alone: nobody else refers to it, and
\* nobody comes to refer to another one.
LEMMA LookupRefers ==
  ASSUME IInv, NEW c \in Clients, NEW o \in Objs, Lookup(c, o), TasksTake(c, o)
  PROVE  /\ Refers(c, o) <=> Known(c)
         /\ \A d \in Clients : d # c => ~Refers(d, o) /\ ~(Refers(d, o)')
         /\ \A d \in Clients, x \in Objs : (d # c \/ x # o) /\ Refers(d, x)' => Refers(d, x)
<1>1. \A u \in Tasks : ses[u] \in Objs => pc[u] = "pending"
  BY AbsentAssumption DEF IInv, TaskInv
<1>2. /\ \A k \in Held' : k # KeyOf(c) => k \in Held /\ bound'[k] = bound[k] /\ bound[k] # o
      /\ KeyOf(c) \in Held' => bound'[KeyOf(c)] = o
      /\ \A u \in Tasks : pc[u] = "pending" /\ ses[u] = o => who[u] = c
  BY LookupOwns
<1>3. Held' \subseteq Keys
  <2>1. table' \in Seq(Keys)
    BY LookupOwns
  <2>2. QED
    BY <2>1, ElementOfSeq, LenProperties DEF Held
<1>4. ASSUME NEW d \in Clients, KeyOf(d) \in Held \cup Held', KeyOf(d) = KeyOf(c)
      PROVE  d = c
  BY <1>3, <1>4, KeysHeld, KeyIdentity
<1>5. (Known(c) /\ o = bound[KeyOf(c)]) \/ (~Known(c) /\ Fresh(o))
  BY KeysHeld DEF Lookup, Known
<1>6. Refers(c, o) <=> Known(c)
  <2>1. CASE Known(c) /\ o = bound[KeyOf(c)]
    BY <2>1 DEF Refers, Current
  <2>2. CASE ~Known(c) /\ Fresh(o)
    BY <2>2, AbsentAssumption DEF Refers, Current, Fresh
  <2>3. QED
    BY <1>5, <2>1, <2>2
<1>7. ASSUME NEW d \in Clients, d # c
      PROVE  ~Refers(d, o)
  <2>1. Current(d) # o
    <3>1. CASE Known(c) /\ o = bound[KeyOf(c)]
      <4>1. KeyOf(d) \in Held /\ bound[KeyOf(d)] = o => KeyOf(d) = KeyOf(c)
        BY <3>1 DEF IInv, BoundInv, Known
      <4>2. QED
        BY <1>4, <1>7, <4>1, CurrentIs
    <3>2. CASE Fresh(o)
      BY <3>2, CurrentIs DEF Fresh
    <3>3. QED
      BY <1>5, <3>1, <3>2
  <2>2. QED
    BY <1>1, <1>2, <1>7, <2>1 DEF Refers
<1>8. ASSUME NEW d \in Clients, NEW x \in Objs, d # c \/ x # o, (Current(d) = x)'
      PROVE  Current(d) = x /\ x # o
  <2>1. KeyOf(d) \in Held' /\ bound'[KeyOf(d)] = x
    BY <1>8, CurrentIs
  <2>2. KeyOf(d) # KeyOf(c)
    BY <1>2, <1>4, <1>8, <2>1
  <2>3. KeyOf(d) \in Held /\ bound[KeyOf(d)] = x /\ x # o
    BY <1>2, <2>1, <2>2
  <2>4. QED
    BY <2>3, CurrentIs
<1>9. \A d \in Clients, x \in Objs :
        Refers(d, x)' <=> (Current(d) = x)' \/ \E u \in Tasks : who'[u] = d /\ ses'[u] = x
  BY DEF Refers
<1>10. ASSUME NEW d \in Clients, NEW x \in Objs, d # c \/ x # o, Refers(d, x)'
       PROVE  Refers(d, x)
  <2>1. CASE (Current(d) = x)'
    BY <1>8, <1>10, <2>1 DEF Refers
  <2>2. ASSUME NEW u \in Tasks, who'[u] = d, ses'[u] = x
        PROVE  Refers(d, x)
    <3>1. who[u] = d /\ ses[u] = x
      BY <1>10, <2>2 DEF TasksTake
    <3>2. QED
      BY <3>1 DEF Refers
  <2>3. QED
    BY <1>9, <1>10, <2>1, <2>2
<1>11. \A d \in Clients : d # c => ~(Refers(d, o)')
  BY <1>7, <1>10
<1>12. QED
  BY <1>6, <1>7, <1>10, <1>11

\* So it leaves what everyone else remembers as it was.
LEMMA HandRemembered ==
  ASSUME IInv, NEW c \in Clients, NEW o \in Objs, Lookup(c, o), TasksTake(c, o),
         NEW g, Hand(c, o, g)
  PROVE  \A d \in Clients, x \in Objs :
           Refers(d, x)' =>
             /\ results'[x] = Had(d, x)
             /\ gated'[x] # {} <=> IF d = c /\ x = o THEN g # {} ELSE x \in Gat[d]
<1>1. gated \in [Objs -> SUBSET Clients] /\ results \in [Objs -> Seq(Entry)]
  BY DEF IInv, TypeOK
<1>2. /\ gated'[o] = g /\ results'[o] = ResultsOf(c, o)
      /\ \A x \in Objs : x # o => gated'[x] = gated[x] /\ results'[x] = results[x]
  BY <1>1 DEF Hand
<1>3. \A d \in Clients, x \in Objs : x \in Gat[d] <=> Refers(d, x) /\ gated[x] # {}
  BY Mapped
<1> SUFFICES ASSUME NEW d \in Clients, NEW x \in Objs, Refers(d, x)'
             PROVE  /\ results'[x] = Had(d, x)
                    /\ gated'[x] # {} <=> IF d = c /\ x = o THEN g # {} ELSE x \in Gat[d]
  OBVIOUS
<1>4. CASE d = c /\ x = o
  <2>1. ResultsOf(c, o) = Had(c, o)
    BY LookupRefers DEF ResultsOf, Had
  <2>2. QED
    BY <1>2, <1>4, <2>1
<1>5. CASE ~(d = c /\ x = o)
  <2>1. Refers(d, x) /\ x # o
    BY <1>5, LookupRefers
  <2>2. QED
    BY <1>2, <1>3, <1>5, <2>1 DEF Had
<1>6. QED
  BY <1>4, <1>5

\* What a look-up hands over, in the words of the abstract specification.
LEMMA HandedIs ==
  ASSUME IInv, NEW c \in Clients, NEW o \in Objs, Lookup(c, o), TasksTake(c, o)
  PROVE  /\ ResultsOf(c, o) = Private!Of(Evi[c], o)
         /\ GatedOf(c, o) # {} <=> o \in Gat[c]
<1>1. Refers(c, o) <=> Known(c)
  BY LookupRefers
<1>2. QED
  BY <1>1, Mapped DEF ResultsOf, GatedOf, Had

\* Only the oldest conversation goes when room is made.
LEMMA RestStays ==
  ASSUME NEW q \in Seq(Keys), Len(q) <= MaxSessions, NEW j \in 2..Len(q)
  PROVE  \E i \in DOMAIN MakeRoom(q) : MakeRoom(q)[i] = q[j]
<1>1. Len(q) \in Nat /\ MaxSessions \in Nat /\ MaxSessions > 0
  BY BoundsAssumption
<1>2. CASE Len(q) < MaxSessions
  BY <1>1, <1>2 DEF MakeRoom
<1>3. CASE Len(q) = MaxSessions
  <2>1. MakeRoom(q) = SubSeq(q, 2, Len(q))
    BY <1>1, <1>3 DEF MakeRoom
  <2>2. \A i \in 2..Len(q) : q[i] \in Keys
    BY <1>1, ElementOfSeq
  <2>3. /\ MakeRoom(q) \in Seq(Keys)
        /\ Len(MakeRoom(q)) = IF 2 <= Len(q) THEN Len(q) - 2 + 1 ELSE 0
        /\ \A i \in 1..(Len(q) - 2 + 1) : MakeRoom(q)[i] = q[2 + i - 1]
    BY <1>1, <2>1, <2>2, SubSeqProperties
  <2>4. j - 1 \in 1..(Len(q) - 2 + 1) /\ 2 + (j - 1) - 1 = j /\ 2 <= Len(q)
    BY <1>1
  <2>5. MakeRoom(q)[j - 1] = q[j]
    BY <2>3, <2>4
  <2>6. j - 1 \in DOMAIN MakeRoom(q)
    <3>1. Len(MakeRoom(q)) = Len(q) - 2 + 1 /\ DOMAIN MakeRoom(q) = 1..Len(MakeRoom(q))
      BY <2>3, <2>4
    <3>2. QED
      BY <2>4, <3>1
  <2>7. QED
    BY <2>5, <2>6
<1>4. QED
  BY <1>1, <1>2, <1>3

\* A new conversation ends at most the oldest one.
LEMMA OneLeaves ==
  ASSUME IInv, NEW k \in Keys, table' = Append(MakeRoom(table), k)
  PROVE  /\ k \in Held'
         /\ \A l \in Held : l \in Held' \/ l = table[1]
<1> DEFINE m == MakeRoom(table)
<1>1. table \in Seq(Keys) /\ Len(table) <= MaxSessions
  BY DEF IInv, TypeOK
<1>2. m \in Seq(Keys) /\ table' = Append(m, k)
  BY <1>1, MakeRoomProperties
<1>3. ASSUME NEW j \in DOMAIN table, j # 1
      PROVE  \E i \in DOMAIN m : m[i] = table[j]
  <2>1. j \in 2..Len(table)
    BY <1>1, <1>3, LenProperties
  <2>2. QED
    BY <1>1, <2>1, RestStays
<1> HIDE DEF m
<1>4. /\ DOMAIN table' = 1..(Len(m) + 1) /\ DOMAIN m = 1..Len(m) /\ Len(m) \in Nat
      /\ table'[Len(m) + 1] = k
      /\ \A i \in 1..Len(m) : table'[i] = m[i]
  BY <1>2, AppendProperties, LenProperties
<1>5. k \in Held'
  BY <1>4 DEF Held
<1>6. \A i \in DOMAIN m : m[i] \in Held'
  BY <1>4 DEF Held
<1>7. QED
  BY <1>3, <1>5, <1>6 DEF Held

\* A look-up goes on with the client's conversation, or begins one.
LEMMA Enters ==
  ASSUME IInv, NEW c \in Clients, NEW o \in Objs, Lookup(c, o), TasksTake(c, o)
  PROVE  Private!Enter(c, o)
<1>1. Cur[c] = Current(c) /\ \A d \in Clients : Cur'[d] = Current(d)'
  BY DEF Cur
<1>2. CASE Known(c) /\ o = bound[KeyOf(c)] /\ UNCHANGED tableVars
  <2>1. Cur' = Cur
    BY <1>2 DEF Cur, Current, Known, KeyOf, Held, tableVars
  <2>2. Cur[c] = o
    BY <1>1, <1>2 DEF Current
  <2>3. QED
    BY <2>1, <2>2 DEF Private!Enter, Cur
<1>3. CASE ~Known(c) /\ Fresh(o)
  <2>1. Cur[c] = NoObj
    BY <1>1, <1>3 DEF Current
  <2>2. o \notin Private!Alive(c)
    BY <1>3, AliveIs, ReachIs, LookupRefers
  <2>3. CASE UNCHANGED tableVars
    <3>1. Cur' = Cur
      BY <2>3 DEF Cur, Current, Known, KeyOf, Held, tableVars
    <3>2. QED
      BY <2>1, <2>2, <3>1 DEF Private!Enter, Cur
  <2>4. CASE /\ KeyOf(c) # NoKey
             /\ table' = Append(MakeRoom(table), KeyOf(c))
             /\ bound' = [bound EXCEPT ![KeyOf(c)] = o]
    <3>1. KeyOf(c) \in Keys
      BY <2>4, KeyType
    <3>2. KeyOf(c) \in Held' /\ \A l \in Held : l \in Held' \/ l = table[1]
      BY <2>4, <3>1, OneLeaves
    <3>3. /\ \A k \in Held' : k # KeyOf(c) => k \in Held /\ bound'[k] = bound[k]
          /\ bound'[KeyOf(c)] = o
      BY <3>2, LookupOwns
    <3>4. \A d \in Clients : Current(d)' = IF KeyOf(d) \in Held' THEN bound'[KeyOf(d)] ELSE NoObj
      BY DEF Current, Known, KeyOf
    <3>5. Current(c)' = o
      BY <3>2, <3>3, <3>4
    <3>6. ASSUME NEW d \in Clients, d # c
          PROVE  IF KeyOf(d) \in Held \ Held' THEN Current(d)' = NoObj
                                              ELSE Current(d)' = Current(d)
      <4>1. KeyOf(d) = KeyOf(c) => FALSE
        BY <2>4, <3>6, KeyIdentity
      <4>2. QED
        BY <3>3, <3>4, <4>1 DEF Current, Known
    <3>7. \A d, e \in Clients : KeyOf(d) \in Held \ Held' /\ KeyOf(e) \in Held \ Held' => d = e
      <4>1. \A d, e \in Clients :
              KeyOf(d) \in Held \ Held' /\ KeyOf(e) \in Held \ Held' =>
                KeyOf(d) = KeyOf(e) /\ KeyOf(d) # NoKey
        BY <3>2, KeysHeld
      <4>2. QED
        BY <4>1, KeyIdentity
    <3>8. \E d \in Clients : Cur' = [[Cur EXCEPT ![d] = NoObj] EXCEPT ![c] = o]
      <4>1. PICK d \in Clients :
              /\ d = c \/ KeyOf(d) \in Held \ Held'
              /\ \A e \in Clients : e # d => KeyOf(e) \notin Held \ Held' \/ e = c
        BY <3>7
      <4>2. \A e \in Clients :
              Current(e)' = IF e = c THEN o ELSE IF e = d THEN NoObj ELSE Current(e)
        BY <3>5, <3>6, <4>1
      <4>3. QED
        BY <4>2 DEF Cur
    <3>9. QED
      BY <2>1, <2>2, <3>8 DEF Private!Enter, Cur
  <2>5. QED
    BY <1>3, <2>3, <2>4 DEF Lookup
<1>4. QED
  BY <1>2, <1>3, KeysHeld DEF Lookup, Known

\* A request the gate lets pass goes on with its client's private session.
LEMMA PassesOn ==
  ASSUME IInv, IInv', NEW c \in Clients, NEW o \in Objs, Lookup(c, o), TasksTake(c, o),
         Hand(c, o, GatedOf(c, o))
  PROVE  /\ Private!Enter(c, o)
         /\ Gat' = [d \in Clients |-> {x \in Private!Alive(d)' : x \in Gat[d]}]
         /\ Evi' = [d \in Clients |-> [x \in Private!Alive(d)' |-> Private!Of(Evi[d], x)]]
<1>1. \A d \in Clients, x \in Objs :
        Refers(d, x)' =>
          /\ results'[x] = Had(d, x)
          /\ gated'[x] # {} <=> IF d = c /\ x = o THEN GatedOf(c, o) # {} ELSE x \in Gat[d]
  BY HandRemembered
<1>2. \A d \in Clients, x \in Objs :
        Refers(d, x)' => (gated'[x] # {} <=> x \in Gat[d]) /\ results'[x] = Had(d, x)
  BY <1>1, HandedIs
<1>3. Gat' = [d \in Clients |-> {x \in Private!Alive(d)' : x \in Gat[d]}]
  BY <1>2, GatesRemembered
<1>4. Evi' = [d \in Clients |-> [x \in Private!Alive(d)' |-> Private!Of(Evi[d], x)]]
  BY <1>2, EvidenceRemembered
<1>5. QED
  BY <1>3, <1>4, Enters

\* Tasks that stay as they are refer to no more than before.
LEMMA UnchangedTasksTake ==
  ASSUME UNCHANGED taskVars, NEW c \in Clients, NEW o \in Objs
  PROVE  TasksTake(c, o)
BY DEF TasksTake, taskVars

LEMMA CheckIsPrivate ==
  ASSUME IInv, IInv', NEW c \in Clients, NEW o \in Objs, Check(c, o)
  PROVE  Private!Check(c, o)
<1>1. /\ Lookup(c, o) /\ Hand(c, o, GatedOf(c, o)) /\ who' = who /\ ses' = ses
      /\ TasksTake(c, o)
  BY UnchangedTasksTake DEF Check, taskVars
<1>2. /\ Private!Enter(c, o)
      /\ Gat' = [d \in Clients |-> {x \in Private!Alive(d)' : x \in Gat[d]}]
      /\ Evi' = [d \in Clients |-> [x \in Private!Alive(d)' |-> Private!Of(Evi[d], x)]]
  BY <1>1, PassesOn
<1>3. report' = [to |-> c, says |-> IF Private!Of(Evi[c], o) = <<>> THEN "blind" ELSE "checked"]
  BY <1>1, HandedIs DEF Check
<1>4. QED
  BY <1>1, <1>2, <1>3 DEF Private!Check, Private!Remember, Gat, Evi

LEMMA CallIsPrivate ==
  ASSUME IInv, IInv', NEW t \in Tasks, NEW c \in Clients, NEW o \in Objs, Call(t, c, o)
  PROVE  Private!Call(t, c, o)
<1>1. /\ Lookup(c, o) /\ Hand(c, o, GatedOf(c, o)) /\ report' = report
      /\ who' = [who EXCEPT ![t] = c] /\ ses' = [ses EXCEPT ![t] = o]
  BY DEF Call
<1>2. TasksTake(c, o)
  BY <1>1 DEF TasksTake, IInv, TypeOK
<1>3. ses[t] = NoObj
  BY DEF Call, IInv, TaskInv
<1>4. /\ Private!Enter(c, o)
      /\ Gat' = [d \in Clients |-> {x \in Private!Alive(d)' : x \in Gat[d]}]
      /\ Evi' = [d \in Clients |-> [x \in Private!Alive(d)' |-> Private!Of(Evi[d], x)]]
  BY <1>1, <1>2, PassesOn
<1>5. QED
  BY <1>1, <1>3, <1>4 DEF Private!Call, Private!Remember, Gat, Evi

LEMMA GateIsPrivate ==
  ASSUME IInv, IInv', NEW t \in Tasks, NEW c \in Clients, NEW o \in Objs, Gate(t, c, o)
  PROVE  Private!Gate(c, o)
<1> DEFINE G == [Gat EXCEPT ![c] = @ \cup {o}]
<1>1. /\ Lookup(c, o) /\ Hand(c, o, {c}) /\ who' = who /\ ses' = ses /\ report' = report
      /\ TasksTake(c, o)
  BY UnchangedTasksTake DEF Gate, taskVars
<1>2. o \notin Gat[c]
  BY <1>1, HandedIs DEF Gate
<1>3. \A d \in Clients, x \in Objs :
        Refers(d, x)' =>
          /\ results'[x] = Had(d, x)
          /\ gated'[x] # {} <=> IF d = c /\ x = o THEN {c} # {} ELSE x \in Gat[d]
  BY <1>1, HandRemembered
<1>4. Evi' = [d \in Clients |-> [x \in Private!Alive(d)' |-> Private!Of(Evi[d], x)]]
  BY <1>3, EvidenceRemembered
<1>5. ASSUME NEW d \in Clients
      PROVE  {x \in Reach(d)' : gated'[x] # {}}
               = {x \in Private!Alive(d)' : x \in G[d]}
  <2>1. G[d] = IF d = c THEN Gat[d] \cup {o} ELSE Gat[d]
    BY DEF Gat
  <2> HIDE DEF G
  <2>2. \A x \in Objs : Refers(d, x)' => (gated'[x] # {} <=> x \in G[d])
    BY <1>3, <2>1
  <2>3. QED
    BY <2>2, AliveIs, ReachNext
<1>6. Gat' = [d \in Clients |-> {x \in Reach(d)' : gated'[x] # {}}]
  BY DEF Gat
<1> HIDE DEF G
<1>7. Gat' = [d \in Clients |-> {x \in Private!Alive(d)' : x \in G[d]}]
  BY <1>5, <1>6
<1>8. Private!Enter(c, o)
  BY <1>1, Enters
<1>9. QED
  BY <1>1, <1>2, <1>4, <1>7, <1>8 DEF Private!Gate, Private!Remember, Gat, Evi, G

\* An ended call changes no one's current conversation.
LEMMA DoneIsPrivate ==
  ASSUME IInv, NEW t \in Tasks, pc[t] = "pending", Done(t), UNCHANGED tableVars
  PROVE  /\ Private!End(t)
         /\ \A d \in Clients, x \in Objs : Refers(d, x)' => Refers(d, x)
<1>1. /\ who' = [who EXCEPT ![t] = NoClient] /\ ses' = [ses EXCEPT ![t] = NoObj]
      /\ report' = report
  BY DEF Done
<1>2. ses[t] # NoObj /\ NoObj \notin Objs
  BY AbsentAssumption DEF IInv, TaskInv
<1>3. \A d \in Clients : Current(d)' = Current(d)
  BY DEF Current, Known, KeyOf, Held, tableVars
<1>4. Cur' = Cur
  BY <1>3 DEF Cur
<1>5. ASSUME NEW d \in Clients, NEW x \in Objs, Refers(d, x)'
      PROVE  Refers(d, x)
  <2>1. Current(d)' = x \/ \E u \in Tasks : who'[u] = d /\ ses'[u] = x
    BY <1>5 DEF Refers
  <2>2. \A u \in Tasks : who'[u] = d /\ ses'[u] = x => who[u] = d /\ ses[u] = x
    BY <1>1, <1>2 DEF IInv, TypeOK
  <2>3. QED
    BY <1>3, <2>1, <2>2 DEF Refers
<1>6. QED
  BY <1>1, <1>2, <1>4, <1>5 DEF Private!End, Cur

LEMMA EndUnrecordedIsPrivate ==
  ASSUME IInv, IInv', NEW t \in Tasks, EndUnrecorded(t)
  PROVE  Private!EndUnrecorded(t)
<1>1. /\ pc[t] = "pending" /\ Done(t) /\ UNCHANGED tableVars
      /\ gated' = gated /\ results' = results
  BY DEF EndUnrecorded, sessionVars
<1>2. Private!End(t) /\ \A d \in Clients, x \in Objs : Refers(d, x)' => Refers(d, x)
  BY <1>1, DoneIsPrivate
<1>3. \A d \in Clients, x \in Objs :
        Refers(d, x)' => (gated'[x] # {} <=> x \in Gat[d]) /\ results'[x] = Had(d, x)
  BY <1>1, <1>2, Mapped DEF Had
<1>4. Gat' = [d \in Clients |-> {x \in Private!Alive(d)' : x \in Gat[d]}]
  BY <1>3, GatesRemembered
<1>5. Evi' = [d \in Clients |-> [x \in Private!Alive(d)' |-> Private!Of(Evi[d], x)]]
  BY <1>3, EvidenceRemembered
<1>6. QED
  BY <1>2, <1>4, <1>5 DEF Private!EndUnrecorded, Private!Remember, Gat, Evi

\* A late result reaches the client that asked, and no other: nobody else refers to
\* the session its call began in.
LEMMA RespondIsPrivate ==
  ASSUME IInv, IInv', NEW t \in Tasks, NEW n \in Sizes, Respond(t, n)
  PROVE  Private!Respond(t, n)
<1> DEFINE c == who[t]
           o == ses[t]
           held == Append(Evi[c][o], [from |-> c, size |-> n])
<1>1. /\ pc[t] = "pending" /\ Done(t) /\ UNCHANGED tableVars /\ gated' = gated
      /\ results' = [results EXCEPT ![o] = Window(Append(@, [from |-> c, size |-> n]))]
  BY DEF Respond
<1>2. c \in Clients /\ o \in Objs /\ [from |-> c, size |-> n] \in Entry
  BY <1>1 DEF IInv, TaskInv, Entry
<1>3. Private!End(t) /\ \A d \in Clients, x \in Objs : Refers(d, x)' => Refers(d, x)
  BY <1>1, DoneIsPrivate
<1>4. results \in [Objs -> Seq(Entry)]
  BY DEF IInv, TypeOK
<1>5. Refers(c, o)
  BY DEF Refers
<1>6. o \in DOMAIN Evi[c] /\ Evi[c][o] = results[o]
  BY <1>2, <1>5, Mapped
<1>7. held \in Seq(Entry) /\ results'[o] = Window(held)
  BY <1>1, <1>2, <1>4, <1>6, AppendProperties
<1>8. \A d \in Clients : Refers(d, o) => d = c
  <2> SUFFICES ASSUME NEW d \in Clients, Refers(d, o) PROVE d = c
    OBVIOUS
  <2>1. CASE Current(d) = o
    <3>1. KeyOf(d) \in Held /\ bound[KeyOf(d)] = o
      BY <1>2, <2>1, CurrentIs
    <3>2. KeyOf(c) = KeyOf(d)
      BY <1>1, <3>1 DEF IInv, OwnerInv
    <3>3. QED
      BY <1>2, <3>1, <3>2, KeysHeld, KeyIdentity
  <2>2. ASSUME NEW u \in Tasks, who[u] = d, ses[u] = o
        PROVE  d = c
    BY <1>1, <1>2, <2>2, AbsentAssumption DEF IInv, TaskInv, OwnerInv
  <2>3. QED
    BY <2>1, <2>2 DEF Refers
<1>9. PICK i \in 1..(Len(held) + 1) : results'[o] = SubSeq(held, i, Len(held))
  <2> HIDE DEF held
  <2>1. QED
    BY <1>7, WindowLongest DEF IsLongest, From
<1> DEFINE E == [Evi EXCEPT ![c][o] = SubSeq(held, i, Len(held))]
<1>10. \A d \in Clients, x \in Objs :
         Refers(d, x) =>
           Private!Of(E[d], x) = IF d = c /\ x = o THEN SubSeq(held, i, Len(held)) ELSE results[x]
  <2> SUFFICES ASSUME NEW d \in Clients, NEW x \in Objs, Refers(d, x)
               PROVE  Private!Of(E[d], x)
                        = IF d = c /\ x = o THEN SubSeq(held, i, Len(held)) ELSE results[x]
    OBVIOUS
  <2>1. x \in DOMAIN Evi[d] /\ Evi[d][x] = results[x]
    BY Mapped
  <2>2. E[d] = IF d = c THEN [Evi[c] EXCEPT ![o] = SubSeq(held, i, Len(held))] ELSE Evi[d]
    <3> HIDE DEF held, c, o
    <3>1. QED
      BY <1>2 DEF Evi
  <2> HIDE DEF held, c, o, E
  <2>3. CASE d = c
    BY <1>6, <2>1, <2>2, <2>3 DEF Private!Of
  <2>4. CASE d # c
    BY <2>1, <2>2, <2>4 DEF Private!Of
  <2>5. QED
    BY <2>3, <2>4
<1>11. ASSUME NEW d \in Clients, NEW x \in Objs, Refers(d, x)'
       PROVE  (gated'[x] # {} <=> x \in Gat[d]) /\ results'[x] = Private!Of(E[d], x)
  <2> HIDE DEF held, E, c, o
  <2>1. Refers(d, x)
    BY <1>3, <1>11
  <2>2. gated'[x] # {} <=> x \in Gat[d]
    BY <1>1, <2>1, Mapped
  <2>3. CASE x = o
    BY <1>2, <1>8, <1>9, <1>10, <2>1, <2>2, <2>3
  <2>4. CASE x # o
    <3>1. results'[x] = results[x]
      BY <1>1, <1>4, <2>4
    <3>2. QED
      BY <1>10, <2>1, <2>2, <2>4, <3>1
  <2>5. QED
    BY <2>3, <2>4
<1> HIDE DEF E
<1>12. Gat' = [d \in Clients |-> {x \in Private!Alive(d)' : x \in Gat[d]}]
  BY <1>11, GatesRemembered
<1>13. Evi' = [d \in Clients |-> [x \in Private!Alive(d)' |-> Private!Of(E[d], x)]]
  <2>1. ASSUME NEW d \in Clients
        PROVE  [x \in Reach(d)' |-> results'[x]]
                 = [x \in Private!Alive(d)' |-> Private!Of(E[d], x)]
    <3>1. \A x \in Reach(d)' : results'[x] = Private!Of(E[d], x)
      BY <1>11, ReachNext
    <3>2. QED
      BY <3>1, AliveIs
  <2>2. Evi' = [d \in Clients |-> [x \in Reach(d)' |-> results'[x]]]
    BY DEF Evi
  <2>3. QED
    BY <2>1, <2>2
<1>14. QED
  BY <1>3, <1>9, <1>12, <1>13 DEF Private!Respond, Private!Remember, Gat, Evi, E

\* _session_key and session_for: a table with a limit, keys, and objects whose calls
\* outlive their entry implement sessions that no two clients could share.
THEOREM ImplementsPrivate == Spec => ImplementsPrivateSessions
<1>1. Init => Private!Init
  <2> SUFFICES ASSUME Init PROVE Private!Init
    OBVIOUS
  <2>1. \A c \in Clients : Current(c) = NoObj
    BY DEF Init, Current, Known, Held
  <2>2. \A c \in Clients : Reach(c) = {}
    BY <2>1 DEF Init, Reach
  <2>3. Cur = [c \in Clients |-> NoObj]
    BY <2>1 DEF Cur
  <2>4. Gat = [c \in Clients |-> {}]
    BY <2>2 DEF Gat
  <2>5. Evi = [c \in Clients |-> [o \in Private!Alive(c) |-> <<>>]]
    <3>1. ASSUME NEW c \in Clients
          PROVE  [x \in Reach(c) |-> results[x]] = [o \in Private!Alive(c) |-> <<>>]
      BY <2>2, AliveIs
    <3>2. QED
      BY <3>1 DEF Evi
  <2>6. QED
    BY <2>3, <2>4, <2>5 DEF Init, Private!Init, Cur, Gat, Evi
<1>2. ASSUME IInv, IInv', [Next]_vars
      PROVE  [Private!Next]_(Private!privateVars)
  <2>1. ASSUME NEW c \in Clients, NEW o \in Objs,
               Check(c, o) \/ \E t \in Tasks : Gate(t, c, o) \/ Call(t, c, o)
        PROVE  Private!Next
    BY <1>2, <2>1, CheckIsPrivate, GateIsPrivate, CallIsPrivate DEF Private!Next
  <2>2. ASSUME NEW t \in Tasks, EndUnrecorded(t) \/ \E n \in Sizes : Respond(t, n)
        PROVE  Private!Next
    BY <1>2, <2>2, EndUnrecordedIsPrivate, RespondIsPrivate DEF Private!Next
  <2>3. CASE UNCHANGED vars
    <3>1. \A c \in Clients : Current(c)' = Current(c)
      BY <2>3 DEF vars, tableVars, Current, Known, KeyOf, Held
    <3>2. UNCHANGED <<who, ses, report, gated, results>>
      BY <2>3 DEF vars, taskVars, sessionVars
    <3>3. \A c \in Clients : Reach(c)' = Reach(c)
      BY <3>1, <3>2 DEF Reach
    <3>4. Cur' = Cur
      BY <3>1 DEF Cur
    <3>5. Gat' = Gat
      <4>1. Gat' = [c \in Clients |-> {x \in Reach(c)' : gated'[x] # {}}]
        BY DEF Gat
      <4>2. \A c \in Clients :
              {x \in Reach(c)' : gated'[x] # {}} = {x \in Reach(c) : gated[x] # {}}
        BY <3>2, <3>3
      <4>3. QED
        BY <4>1, <4>2 DEF Gat
    <3>6. Evi' = Evi
      <4>1. Evi' = [c \in Clients |-> [x \in Reach(c)' |-> results'[x]]]
        BY DEF Evi
      <4>2. ASSUME NEW c \in Clients
            PROVE  [x \in Reach(c)' |-> results'[x]] = [x \in Reach(c) |-> results[x]]
        BY <3>2, <3>3
      <4>3. QED
        BY <4>1, <4>2 DEF Evi
    <3>7. QED
      BY <3>2, <3>4, <3>5, <3>6 DEF Private!privateVars, Cur, Gat, Evi
  <2>4. QED
    BY <1>2, <2>1, <2>2, <2>3 DEF Next
<1>3. QED
  BY <1>1, <1>2, InductiveInvariant, PTL DEF Spec, Private!Spec, ImplementsPrivateSessions
=============================================================================
