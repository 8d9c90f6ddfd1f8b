------------------------------ MODULE UdpProofs ------------------------------
(***************************************************************************)
(* A UDP association, for any set of ports, destinations and rates, any    *)
(* room for contacted remotes and any debt: the contacted set and the      *)
(* bucket are what their histories say, and every step is one that         *)
(* Association promises.                                                   *)
(***************************************************************************)
EXTENDS Udp, FiniteSetTheorems, TLAPS

USE UdpAssumption

Types ==
    /\ strict \in BOOLEAN /\ open \in BOOLEAN /\ due \in BOOLEAN
    /\ lock \in Ports \cup {None} /\ pending \in Ports \cup {None}
    /\ idle \in 0 .. Idle

\* ContactedRemotes knows of a key when it was last recorded; what it has
\* forgotten is older than all it knows, and it forgets only when it is full.
Recorded ==
    /\ sent \in Seq(Keys) /\ Len(sent) <= MaxRecords /\ ticks = Len(sent)
    /\ seen \in [Keys -> 0 .. Len(sent)]

Latest ==
    \A k \in Keys : seen[k] # 0 =>
        sent[seen[k]] = k /\ \A i \in seen[k] + 1 .. Len(sent) : sent[i] # k

Bounded == IsFiniteSet(Present(seen)) /\ Cardinality(Present(seen)) <= MaxContacted

Forgotten ==
    \A i \in 1 .. Len(sent) : seen[sent[i]] = 0 =>
        Cardinality(Present(seen)) = MaxContacted /\ \A k \in Present(seen) : seen[k] > i

Contacts == Recorded /\ Latest /\ Bounded /\ Forgotten

\* Time that is not credited yet makes up what is due.
Credit ==
    /\ bucket \in [rate : Rates, capacity : Rates, tokens : Int, idle : 0 .. MaxDebt + 1, due : Int]
    /\ bucket.capacity = bucket.rate
    /\ -MaxDebt <= bucket.tokens /\ bucket.tokens <= bucket.rate
    /\ bucket.due = Least(bucket.tokens + bucket.idle * bucket.rate, bucket.rate)

UdpInv == Types /\ Contacts /\ Credit

-----------------------------------------------------------------------------
(***************************************************************************)
(* The operators.                                                          *)
(***************************************************************************)

\* The key of a destination is a key, with or without its port.
LEMMA KeyIsKey == ASSUME strict \in BOOLEAN, NEW d \in Dests PROVE key(d) \in Keys
  BY DEF key, Keys

\* A bucket that is refilled, or from which bytes are taken, holds what is due.
LEMMA RefillIsDue ==
  ASSUME Credit
  PROVE  /\ refill(bucket) = [bucket EXCEPT !.tokens = bucket.due, !.idle = 0]
         /\ bucket.due \in Int /\ bucket.due <= bucket.rate /\ bucket.tokens <= bucket.due
<1>1. bucket.rate \in Nat /\ bucket.idle \in Nat
  BY DEF Credit
<1>2. bucket.idle * bucket.rate \in Nat
  BY <1>1
<1> DEFINE p == bucket.idle * bucket.rate
<1>3. p \in Nat
  BY <1>2
<1>4. bucket.due = Least(bucket.tokens + p, bucket.rate)
  BY DEF Credit
<1> HIDE DEF p
<1>5. bucket.due \in Int /\ bucket.due <= bucket.rate /\ bucket.tokens <= bucket.due
  BY <1>1, <1>3, <1>4 DEF Credit, Least
<1>6. refill(bucket) = [bucket EXCEPT !.tokens = bucket.due, !.idle = 0]
  BY <1>4 DEF Credit, refill, p
<1> QED
  BY <1>5, <1>6

\* A bucket that was just refilled and holds t is well formed when t is.
LEMMA CreditAfterRefill ==
  ASSUME Credit, NEW r \in Rates, NEW t \in Int, -MaxDebt <= t, t <= r,
         bucket' = [rate |-> r, capacity |-> r, tokens |-> t, idle |-> 0, due |-> t]
  PROVE  Credit'
<1>1. r \in Nat /\ 0 * r = 0
  OBVIOUS
<1>2. t = Least(t + 0 * r, r)
  BY <1>1 DEF Least
<1>3. bucket'.due = Least(bucket'.tokens + bucket'.idle * bucket'.rate, bucket'.rate)
  BY <1>2
<1> QED
  BY <1>3 DEF Credit

LEMMA CreditOfReserve ==
  ASSUME Credit, bucket' = reserve(bucket, 1), bucket.due > -MaxDebt
  PROVE  Credit'
<1>1. bucket' = [rate |-> bucket.rate, capacity |-> bucket.rate, tokens |-> bucket.due - 1,
                 idle |-> 0, due |-> bucket.due - 1]
  BY RefillIsDue DEF reserve, Credit
<1> QED
  BY <1>1, RefillIsDue, CreditAfterRefill DEF Credit

LEMMA CreditOfRefill ==
  ASSUME Credit, bucket' = refill(bucket)
  PROVE  Credit'
<1>1. bucket' = [rate |-> bucket.rate, capacity |-> bucket.rate, tokens |-> bucket.due,
                 idle |-> 0, due |-> bucket.due]
  BY RefillIsDue DEF Credit
<1> QED
  BY <1>1, RefillIsDue, CreditAfterRefill DEF Credit

LEMMA CreditOfPolice ==
  ASSUME Credit, bucket' = police(bucket, 1)
  PROVE  Credit'
<1>1. CASE has(bucket, 1)
  <2>1. bucket.due >= 1
    BY <1>1, RefillIsDue DEF has, Credit
  <2> QED
    BY <1>1, <2>1, RefillIsDue, CreditOfReserve DEF police
<1>2. CASE ~has(bucket, 1)
  BY <1>2, CreditOfRefill DEF police
<1> QED
  BY <1>1, <1>2

LEMMA CreditOfRetune ==
  ASSUME Credit, NEW rate \in Rates, bucket' = update_rate_window(bucket, rate)
  PROVE  Credit'
<1>1. bucket' = [rate |-> rate, capacity |-> rate, tokens |-> Least(bucket.due, rate),
                 idle |-> 0, due |-> Least(bucket.due, rate)]
  BY RefillIsDue DEF update_rate_window, Credit
<1> DEFINE t == Least(bucket.due, rate)
<1>2. t \in Int /\ -MaxDebt <= t /\ t <= rate
  BY RefillIsDue DEF Credit, Least
<1> QED
  BY <1>1, <1>2, CreditAfterRefill

LEMMA Product == \A n, r \in Nat : n * r \in Nat /\ (n + 1) * r = n * r + r
  OBVIOUS

\* The cap on the time that is remembered loses nothing: after MaxDebt + 1
\* windows every debt is paid and the bucket is full.
LEMMA CreditOfPass ==
  ASSUME Credit, bucket' = Pass(bucket, MaxDebt + 1)
  PROVE  Credit'
<1>1. bucket' = [bucket EXCEPT !.idle = Least(bucket.idle + 1, MaxDebt + 1),
                               !.due = Least(bucket.due + bucket.rate, bucket.rate)]
  BY DEF Pass, Credit
<1> DEFINE r == bucket.rate
           i == bucket.idle
           t == bucket.tokens
<1>2. r \in Nat \ {0} /\ i \in 0 .. MaxDebt + 1 /\ t \in Int /\ -MaxDebt <= t /\ t <= r
      /\ bucket.due = Least(t + i * r, r)
  BY DEF Credit
<1> HIDE DEF r, i, t
<1>3. i * r \in Nat /\ (i + 1) * r = i * r + r /\ (MaxDebt + 1) * r = MaxDebt * r + r
  BY <1>2, Product
<1>4. MaxDebt * r >= MaxDebt
  <2>1. r - 1 \in Nat /\ MaxDebt * (r - 1) \in Nat
    BY <1>2
  <2>2. MaxDebt * r = MaxDebt * (r - 1) + MaxDebt
    BY <1>2
  <2> QED
    BY <2>1, <2>2
<1>5. CASE i < MaxDebt + 1
  <2>1. Least(Least(t + i * r, r) + r, r) = Least(t + (i + 1) * r, r)
    BY <1>2, <1>3 DEF Least
  <2> DEFINE d == Least(t + (i + 1) * r, r)
  <2> HIDE DEF d
  <2>2. bucket' = [bucket EXCEPT !.idle = i + 1, !.due = d]
    <3>1. d = Least(bucket.due + r, r)
      BY <1>2, <2>1 DEF d
    <3>2. Least(i + 1, MaxDebt + 1) = i + 1
      BY <1>2, <1>5 DEF Least
    <3> QED
      BY <1>1, <3>1, <3>2 DEF r, i
  <2>3. bucket'.due = Least(bucket'.tokens + bucket'.idle * bucket'.rate, bucket'.rate)
    <3>1. bucket'.due = d /\ bucket'.tokens = t /\ bucket'.idle = i + 1 /\ bucket'.rate = r
      BY <2>2 DEF Credit, r, t
    <3> QED
      BY <3>1 DEF d
  <2>4. d \in Int
    BY <1>2, <1>3 DEF d, Least
  <2>5. bucket' = [rate |-> r, capacity |-> r, tokens |-> t, idle |-> i + 1, due |-> d]
    BY <2>2 DEF Credit, r, i, t
  <2>6. r \in Rates /\ i + 1 \in 0 .. MaxDebt + 1
    BY <1>2, <1>5 DEF Credit, r
  <2> QED
    BY <1>2, <2>3, <2>4, <2>5, <2>6 DEF Credit
<1>6. CASE i = MaxDebt + 1
  <2>1. t + i * r >= r
    <3>1. i * r = MaxDebt * r + r /\ MaxDebt * r \in Nat
      BY <1>2, <1>3, <1>6, Product
    <3> DEFINE m == MaxDebt * r
               q == i * r
    <3>2. q = m + r /\ m \in Nat /\ m >= MaxDebt
      BY <1>4, <3>1
    <3> HIDE DEF m, q
    <3>3. t + q >= r
      BY <1>2, <3>2
    <3> QED
      BY <3>3 DEF q
  <2>2. Least(Least(t + i * r, r) + r, r) = r /\ Least(t + i * r, r) = r
    BY <1>2, <1>3, <2>1 DEF Least
  <2>3. bucket' = [bucket EXCEPT !.idle = i, !.due = Least(t + i * r, r)]
    <3>1. Least(bucket.due + r, r) = Least(t + i * r, r)
      BY <1>2, <2>2
    <3>2. Least(i + 1, MaxDebt + 1) = i
      BY <1>2, <1>6 DEF Least
    <3> QED
      BY <1>1, <3>1, <3>2 DEF r, i
  <2>4. bucket' = bucket
    BY <1>2, <2>3 DEF Credit, r, i, t
  <2> QED
    BY <2>4 DEF Credit
<1> QED
  BY <1>2, <1>5, <1>6

-----------------------------------------------------------------------------
(***************************************************************************)
(* ContactedRemotes.                                                       *)
(***************************************************************************)

LEMMA Smallest ==
  ASSUME NEW T \in SUBSET Nat, T # {}
  PROVE  \E x \in T : \A y \in T : x <= y
<1> DEFINE R == {pair \in Nat \X Nat : pair[1] < pair[2]}
<1>1. IsWellFoundedOn(R, Nat)
  BY NatLessThanWellFounded DEF OpToRel
<1>2. \A x, y \in Nat : <<y, x>> \notin R => x <= y
  OBVIOUS
<1> HIDE DEF R
<1>3. \E x \in T : \A y \in T : ~(<<y, x>> \in R)
  BY <1>1, WFMin
<1> QED
  BY <1>2, <1>3

\* A full set has an oldest entry, and it is older than every other.
LEMMA OldestExists ==
  ASSUME Contacts, Cardinality(Present(seen)) >= MaxContacted
  PROVE  LET j == CHOOSE j \in Present(seen) : \A i \in Present(seen) : seen[j] <= seen[i]
         IN  /\ j \in Present(seen)
             /\ \A i \in Present(seen) \ {j} : seen[j] < seen[i]
<1> DEFINE P == Present(seen)
           T == {seen[k] : k \in P}
<1>1. P # {}
  BY FS_EmptySet DEF Contacts, Recorded, Latest, Bounded, Forgotten
<1>2. P \subseteq Keys /\ T \in SUBSET Nat /\ T # {}
  <2>1. P \subseteq Keys
    BY DEF Present
  <2>2. \A k \in Keys : seen[k] \in Nat
    BY DEF Contacts, Recorded, Latest, Bounded, Forgotten
  <2> HIDE DEF P
  <2> QED
    BY <1>1, <2>1, <2>2
<1>3. PICK x \in T : \A y \in T : x <= y
  BY <1>2, Smallest
<1>4. \E j \in P : \A i \in P : seen[j] <= seen[i]
  BY <1>3
<1> DEFINE j == CHOOSE j \in P : \A i \in P : seen[j] <= seen[i]
<1>5. j \in P /\ \A i \in P : seen[j] <= seen[i]
  BY <1>4
<1> HIDE DEF j
<1>6. \A i \in P \ {j} : seen[i] # seen[j]
  BY <1>2, <1>5 DEF Contacts, Recorded, Latest, Bounded, Forgotten, Present
<1>7. \A i \in P \ {j} : seen[j] < seen[i]
  BY <1>2, <1>5, <1>6 DEF Contacts, Recorded, Latest, Bounded, Forgotten
<1> QED
  BY <1>5, <1>7 DEF j

\* Recording a key that is known, or for which there is room.
LEMMA RecordWithRoom ==
  ASSUME Contacts, NEW k \in Keys, Len(sent) < MaxRecords,
         ~(Cardinality(Present(seen)) >= MaxContacted /\ seen[k] = 0),
         seen' = [seen EXCEPT ![k] = ticks + 1], ticks' = ticks + 1, sent' = Append(sent, k)
  PROVE  Contacts'
<1> DEFINE n == Len(sent)
<1>1. n \in Nat /\ Len(sent') = n + 1 /\ sent' \in Seq(Keys) /\ sent'[n + 1] = k
      /\ \A i \in 1 .. n : sent'[i] = sent[i]
  BY DEF Contacts, Recorded, Latest, Bounded, Forgotten
<1>2. seen' \in [Keys -> 0 .. n + 1] /\ seen'[k] = n + 1
      /\ \A j \in Keys \ {k} : seen'[j] = seen[j]
  BY <1>1 DEF Contacts, Recorded, Latest, Bounded, Forgotten
<1>3. Present(seen') = Present(seen) \cup {k}
  BY <1>1, <1>2 DEF Present
<1>4. /\ IsFiniteSet(Present(seen')) /\ Cardinality(Present(seen')) <= MaxContacted
      /\ Cardinality(Present(seen)) \in Nat
      /\ seen[k] # 0 => Cardinality(Present(seen')) = Cardinality(Present(seen))
  <2>1. IsFiniteSet(Present(seen)) /\ Cardinality(Present(seen)) \in Nat
        /\ Cardinality(Present(seen)) <= MaxContacted
    BY FS_CardinalityType DEF Contacts, Recorded, Latest, Bounded, Forgotten
  <2>2. k \in Present(seen) <=> seen[k] # 0
    BY DEF Present
  <2>3. IsFiniteSet(Present(seen) \cup {k})
        /\ Cardinality(Present(seen) \cup {k})
              = IF seen[k] # 0 THEN Cardinality(Present(seen)) ELSE Cardinality(Present(seen)) + 1
    BY <2>1, <2>2, FS_AddElement
  <2>4. /\ IsFiniteSet(Present(seen) \cup {k})
        /\ Cardinality(Present(seen) \cup {k}) <= MaxContacted
        /\ seen[k] # 0 => Cardinality(Present(seen) \cup {k}) = Cardinality(Present(seen))
    BY <2>1, <2>3
  <2> QED
    BY <1>3, <2>1, <2>4
<1>5. \A j \in Keys : seen'[j] # 0 =>
          sent'[seen'[j]] = j /\ \A i \in seen'[j] + 1 .. n + 1 : sent'[i] # j
  <2> TAKE j \in Keys
  <2>1. CASE j = k
    BY <1>1, <1>2, <2>1
  <2>2. CASE j # k
    BY <1>1, <1>2, <2>2 DEF Contacts, Recorded, Latest, Bounded, Forgotten
  <2> QED
    BY <2>1, <2>2
<1>6. ASSUME NEW i \in 1 .. n + 1, seen'[sent'[i]] = 0
      PROVE  /\ Cardinality(Present(seen')) = MaxContacted
             /\ \A j \in Present(seen') : seen'[j] > i
  <2>1. i \in 1 .. n /\ sent'[i] = sent[i] /\ sent[i] \in Keys /\ sent[i] # k /\ seen[sent[i]] = 0
    BY <1>1, <1>2, <1>6 DEF Contacts, Recorded, Latest, Bounded, Forgotten
  <2>2. Cardinality(Present(seen)) = MaxContacted /\ \A j \in Present(seen) : seen[j] > i
    BY <2>1 DEF Contacts, Recorded, Latest, Bounded, Forgotten
  <2>3. seen[k] # 0
    BY <1>4, <2>2
  <2>4. ASSUME NEW j \in Present(seen') PROVE seen'[j] > i
    <3>1. CASE j = k
      BY <1>1, <1>2, <2>1, <3>1
    <3>2. CASE j # k
      BY <1>2, <1>3, <2>2, <3>2 DEF Present
    <3> QED
      BY <3>1, <3>2
  <2> QED
    BY <1>4, <2>2, <2>3, <2>4
<1>7. Recorded'
  BY <1>1, <1>2 DEF Contacts, Recorded
<1>8. Latest' /\ Bounded' /\ Forgotten'
  BY <1>1, <1>4, <1>5, <1>6 DEF Latest, Bounded, Forgotten
<1> QED
  BY <1>7, <1>8 DEF Contacts

\* Recording a new key when the set is full: the oldest entry goes.
LEMMA RecordEvicts ==
  ASSUME Contacts, NEW k \in Keys, Len(sent) < MaxRecords,
         Cardinality(Present(seen)) >= MaxContacted, seen[k] = 0,
         NEW o \in Present(seen), \A i \in Present(seen) \ {o} : seen[o] < seen[i],
         seen' = [[seen EXCEPT ![o] = 0] EXCEPT ![k] = ticks + 1],
         ticks' = ticks + 1, sent' = Append(sent, k)
  PROVE  Contacts'
<1> DEFINE n == Len(sent)
<1>1. n \in Nat /\ Len(sent') = n + 1 /\ sent' \in Seq(Keys) /\ sent'[n + 1] = k
      /\ \A i \in 1 .. n : sent'[i] = sent[i]
  BY DEF Contacts, Recorded, Latest, Bounded, Forgotten
<1>2. o \in Keys /\ seen[o] # 0 /\ seen[o] \in 1 .. n /\ o # k
  BY DEF Contacts, Recorded, Latest, Bounded, Forgotten, Present
<1>3. seen' \in [Keys -> 0 .. n + 1] /\ seen'[k] = n + 1 /\ seen'[o] = 0
      /\ \A j \in Keys \ {k, o} : seen'[j] = seen[j]
  BY <1>1, <1>2 DEF Contacts, Recorded, Latest, Bounded, Forgotten
<1>4. Present(seen') = (Present(seen) \ {o}) \cup {k}
  BY <1>1, <1>2, <1>3 DEF Present
<1>5. IsFiniteSet(Present(seen')) /\ Cardinality(Present(seen')) = MaxContacted
  <2>1. IsFiniteSet(Present(seen)) /\ Cardinality(Present(seen)) = MaxContacted /\ k \notin Present(seen)
    BY FS_CardinalityType DEF Contacts, Recorded, Latest, Bounded, Forgotten, Present
  <2>2. IsFiniteSet(Present(seen) \ {o}) /\ Cardinality(Present(seen) \ {o}) = MaxContacted - 1
    BY <2>1, FS_RemoveElement
  <2> DEFINE Q == Present(seen) \ {o}
  <2>3. IsFiniteSet(Q) /\ Cardinality(Q) = MaxContacted - 1 /\ k \notin Q
    BY <2>1, <2>2
  <2> HIDE DEF Q
  <2>4. IsFiniteSet(Q \cup {k}) /\ Cardinality(Q \cup {k}) = MaxContacted
    <3>1. IsFiniteSet(Q \cup {k}) /\ Cardinality(Q \cup {k}) = MaxContacted - 1 + 1
      BY <2>3, FS_AddElement
    <3>2. MaxContacted - 1 + 1 = MaxContacted
      OBVIOUS
    <3> QED
      BY <3>1, <3>2
  <2>5. Present(seen') = Q \cup {k}
    BY <1>4 DEF Q
  <2> QED
    BY <2>4, <2>5
<1>6. \A j \in Keys : seen'[j] # 0 =>
          sent'[seen'[j]] = j /\ \A i \in seen'[j] + 1 .. n + 1 : sent'[i] # j
  <2> TAKE j \in Keys
  <2>1. CASE j = k
    BY <1>1, <1>3, <2>1
  <2>2. CASE j # k
    BY <1>1, <1>3, <2>2 DEF Contacts, Recorded, Latest, Bounded, Forgotten
  <2> QED
    BY <2>1, <2>2
<1>7. ASSUME NEW i \in 1 .. n + 1, seen'[sent'[i]] = 0, NEW j \in Present(seen')
      PROVE  seen'[j] > i
  <2>1. i \in 1 .. n /\ sent'[i] = sent[i] /\ sent[i] \in Keys /\ sent[i] # k
    BY <1>1, <1>3, <1>7 DEF Contacts, Recorded, Latest, Bounded, Forgotten
  <2>2. CASE j = k
    BY <1>1, <1>3, <2>1, <2>2
  <2>3. CASE j # k /\ sent[i] = o
    <3>1. i <= seen[o]
      BY <1>1, <1>2, <2>1, <2>3 DEF Contacts, Recorded, Latest, Bounded, Forgotten
    <3>2. seen[o] < seen[j] /\ seen'[j] = seen[j] /\ seen[j] \in Nat
      BY <1>3, <1>4, <2>3 DEF Present, Contacts
    <3> QED
      BY <1>2, <2>1, <3>1, <3>2
  <2>4. CASE j # k /\ sent[i] # o
    <3>1. seen[sent[i]] = 0
      BY <1>3, <1>7, <2>1, <2>4
    <3> QED
      BY <1>3, <1>4, <2>1, <2>4, <3>1 DEF Contacts, Recorded, Latest, Bounded, Forgotten, Present
  <2> QED
    BY <2>2, <2>3, <2>4
<1>8. Recorded'
  BY <1>1, <1>3 DEF Contacts, Recorded
<1>9. Latest'
  BY <1>1, <1>6 DEF Latest
<1>10. Bounded' /\ Forgotten'
  <2>1. Bounded'
    BY <1>5 DEF Bounded
  <2> QED
    BY <1>1, <1>5, <1>7, <2>1 DEF Forgotten
<1> QED
  BY <1>8, <1>9, <1>10 DEF Contacts

LEMMA RecordKeeps ==
  ASSUME Contacts, NEW k \in Keys, Len(sent) < MaxRecords,
         seen' = record(k), ticks' = ticks + 1, sent' = Append(sent, k)
  PROVE  Contacts'
<1>1. CASE Cardinality(Present(seen)) >= MaxContacted /\ seen[k] = 0
  BY <1>1, OldestExists, RecordEvicts DEF record
<1>2. CASE ~(Cardinality(Present(seen)) >= MaxContacted /\ seen[k] = 0)
  BY <1>2, RecordWithRoom DEF record
<1> QED
  BY <1>1, <1>2

\* What the record keeps is what ContactedRecent says: the last remotes, as
\* many as there is room for.
LEMMA ContactsAreRecent == Contacts => ContactedRecent
<1> SUFFICES ASSUME Contacts PROVE Present(seen) = Recent
  BY DEF ContactedRecent
<1> DEFINE P == Present(seen)
           n == Len(sent)
           Since(i) == {sent[j] : j \in i .. n}
<1>1. n \in Nat /\ DOMAIN sent = 1 .. n /\ IsFiniteSet(P) /\ Cardinality(P) \in Nat
      /\ Cardinality(P) <= MaxContacted
  BY FS_CardinalityType DEF Contacts, Recorded, Latest, Bounded, Forgotten
<1>2. ASSUME NEW k \in P PROVE k \in Recent
  <2>1. k \in Keys /\ seen[k] \in 1 .. n /\ sent[seen[k]] = k
    BY DEF Contacts, Recorded, Latest, Bounded, Forgotten, Present
  <2>2. Since(seen[k]) \subseteq P
    <3> SUFFICES ASSUME NEW j \in seen[k] .. n PROVE sent[j] \in P
      OBVIOUS
    <3>1. j \in 1 .. n /\ sent[j] \in Keys
      BY <1>1, <2>1 DEF Contacts, Recorded, Latest, Bounded, Forgotten
    <3>2. seen[sent[j]] # 0
      BY <2>1, <3>1 DEF Contacts, Recorded, Latest, Bounded, Forgotten
    <3> QED
      BY <3>1, <3>2 DEF Present
  <2>3. Cardinality(Since(seen[k])) <= MaxContacted
    <3>1. Cardinality(Since(seen[k])) <= Cardinality(P) /\ IsFiniteSet(Since(seen[k]))
      BY <1>1, <2>2, FS_Subset
    <3> QED
      BY <1>1, <3>1, FS_CardinalityType
  <2> QED
    BY <1>1, <2>1, <2>3 DEF Recent
<1>3. ASSUME NEW i \in 1 .. n, Cardinality(Since(i)) <= MaxContacted PROVE sent[i] \in P
  <2> SUFFICES ASSUME sent[i] \notin P PROVE FALSE
    OBVIOUS
  <2>1. sent[i] \in Keys /\ seen[sent[i]] = 0
    BY DEF Contacts, Recorded, Latest, Bounded, Forgotten, Present
  <2>2. Cardinality(P) = MaxContacted /\ \A k \in P : seen[k] > i
    BY <2>1 DEF Contacts, Recorded, Latest, Bounded, Forgotten
  <2>3. P \cup {sent[i]} \subseteq Since(i)
    <3>1. ASSUME NEW k \in P PROVE k \in Since(i)
      BY <1>1, <2>2 DEF Contacts, Recorded, Latest, Bounded, Forgotten, Present
    <3> QED
      BY <1>1, <3>1
  <2>4. IsFiniteSet(Since(i))
    <3>1. i \in Int /\ n \in Int
      BY <1>1
    <3> DEFINE f == [j \in i .. n |-> sent[j]]
    <3>2. f \in Surjection(i .. n, Since(i))
      BY DEF Surjection
    <3> QED
      BY <3>1, <3>2, FS_Interval, FS_Surjection
  <2>5. Cardinality(P \cup {sent[i]}) = MaxContacted + 1
    BY <1>1, <2>2, FS_AddElement
  <2> QED
    BY <1>3, <2>3, <2>4, <2>5, FS_Subset, FS_CardinalityType
<1> QED
  BY <1>1, <1>2, <1>3 DEF Recent

-----------------------------------------------------------------------------
(***************************************************************************)
(* The invariant.                                                          *)
(***************************************************************************)

LEMMA UdpStart == Init => UdpInv
<1> SUFFICES ASSUME Init PROVE UdpInv
  OBVIOUS
<1>1. Types
  <2>1. strict \in BOOLEAN /\ open \in BOOLEAN /\ due \in BOOLEAN
    BY Zenon DEF Init
  <2>2. lock \in Ports \cup {None} /\ pending \in Ports \cup {None} /\ idle \in 0 .. Idle
    BY DEF Init, requested_udp_endpoint
  <2> QED
    BY <2>1, <2>2 DEF Types
<1>2. Contacts
  <2>1. Present(seen) = {}
    BY DEF Init, Present
  <2>2. Recorded /\ Latest
    BY DEF Init, Recorded, Latest
  <2>3. Bounded /\ Forgotten
    <3>1. IsFiniteSet({}) /\ Cardinality({}) <= MaxContacted
      BY FS_EmptySet
    <3>2. Bounded
      BY <2>1, <3>1 DEF Bounded
    <3> QED
      BY <3>2 DEF Init, Forgotten
  <2> QED
    BY <2>2, <2>3 DEF Contacts
<1>3. Credit
  <2>1. PICK r \in Rates : bucket = [rate |-> r, capacity |-> r, tokens |-> r, idle |-> 0, due |-> r]
    BY DEF Init, from_rate_window
  <2>2. 0 * r = 0 /\ r \in Nat
    OBVIOUS
  <2>3. bucket.due = Least(bucket.tokens + bucket.idle * bucket.rate, bucket.rate)
    BY <2>1, <2>2 DEF Least
  <2> QED
    BY <2>1, <2>2, <2>3 DEF Credit
<1> QED
  BY <1>1, <1>2, <1>3 DEF UdpInv

\* What a step that does not record leaves alone, and one that does not
\* touch the bucket.
LEMMA ContactsFrame ==
  ASSUME Contacts, UNCHANGED <<sent, seen, ticks>>
  PROVE  Contacts'
  BY DEF Contacts, Recorded, Latest, Bounded, Forgotten, Present

LEMMA CreditFrame ==
  ASSUME Credit, UNCHANGED bucket
  PROVE  Credit'
  BY DEF Credit

LEMMA OriginateKeeps ==
  ASSUME UdpInv, NEW d \in Dests, NEW s, Originate(d, s)
  PROVE  Contacts' /\ Credit'
<1>1. Contacts'
  BY KeyIsKey, RecordKeeps DEF Originate, UdpInv, Types
<1>2. Credit'
  BY CreditOfPolice DEF Originate, UdpInv
<1> QED
  BY <1>1, <1>2

LEMMA ForwardKeeps ==
  ASSUME UdpInv, NEW src \in Ports, NEW d, NEW s, Forward(src, d, s), pending' \in Ports \cup {None}
  PROVE  UdpInv'
<1>1. Contacts' /\ Credit'
  BY OriginateKeeps DEF Forward
<1>2. Types'
  BY DEF Forward, UdpInv, Types, mark, config
<1> QED
  BY <1>1, <1>2 DEF UdpInv

LEMMA UdpStep == UdpInv /\ [Next]_vars => UdpInv'
<1> SUFFICES ASSUME UdpInv, [Next]_vars PROVE UdpInv'
  OBVIOUS
<1> USE DEF UdpInv
<1>1. ASSUME NEW src \in Ports, NEW d \in Dests, NEW s \in BOOLEAN, CoreForward(src, d, s)
      PROVE  UdpInv'
  BY <1>1, ForwardKeeps DEF CoreForward, Types
<1>2. ASSUME NEW src \in Ports, NEW d \in Dests, NEW s \in BOOLEAN, OwnedReceive(src, d, s)
      PROVE  UdpInv'
  <2>1. Types'
    <3>1. (s \/ ~has(bucket, 1)) \in BOOLEAN
      BY Zenon
    <3>2. open' \in BOOLEAN
      BY <1>2, <3>1, Zenon DEF OwnedReceive, OwnedOriginate, Types
    <3>3. lock' \in Ports \cup {None} /\ idle' \in 0 .. Idle /\ UNCHANGED <<strict, pending, due>>
      BY <1>2 DEF OwnedReceive, OwnedOriginate, Types, mark, config
    <3> QED
      BY <3>2, <3>3 DEF Types
  <2>2. Contacts' /\ Credit'
    <3>1. CASE d \in Allowed
      BY <1>2, <3>1, OriginateKeeps DEF OwnedReceive, OwnedOriginate
    <3>2. CASE d \notin Allowed
      BY <1>2, <3>2, ContactsFrame, CreditFrame DEF OwnedReceive, OwnedOriginate
    <3> QED
      BY <3>1, <3>2
  <2> QED
    BY <2>1, <2>2
<1>3. ASSUME NEW d \in Dests, NEW s \in BOOLEAN, CoreResolved(d, s) PROVE UdpInv'
  <2>1. pending \in Ports
    BY <1>3 DEF CoreResolved, Types
  <2> QED
    BY <1>3, <2>1, ForwardKeeps DEF CoreResolved
<1>4. ASSUME NEW r \in Dests, NEW s \in BOOLEAN, CoreReply(r, s) \/ OwnedReply(r, s)
      PROVE  UdpInv'
  <2>1. Types'
    BY <1>4 DEF CoreReply, OwnedReply, Types, mark, config
  <2>2. Contacts'
    BY <1>4, ContactsFrame DEF CoreReply, OwnedReply
  <2>3. Credit'
    BY <1>4, CreditOfPolice, CreditFrame DEF CoreReply, OwnedReply, Deliver
  <2> QED
    BY <2>1, <2>2, <2>3
<1>5. ASSUME NEW src \in Ports \cup {Foreign}, CoreResolve(src) \/ CoreDrop(src) PROVE UdpInv'
  <2>1. UNCHANGED <<sent, seen, ticks, bucket>>
    BY <1>5 DEF CoreResolve, CoreDrop, vars
  <2>2. Types'
    BY <1>5 DEF CoreResolve, CoreDrop, Types, config, vars, client_source_accepted
  <2> QED
    BY <2>1, <2>2, ContactsFrame, CreditFrame
<1>6. ASSUME CoreUnresolved \/ ControlEnds \/ Watchdog PROVE UdpInv'
  <2>1. UNCHANGED <<sent, seen, ticks, bucket>>
    BY <1>6 DEF CoreUnresolved, ControlEnds, Watchdog
  <2>2. Types'
    BY <1>6 DEF CoreUnresolved, ControlEnds, Watchdog, Types, config
  <2> QED
    BY <2>1, <2>2, ContactsFrame, CreditFrame
<1>7. ASSUME Tick PROVE UdpInv'
  <2>1. Types'
    BY <1>7 DEF Tick, Types, config, Least
  <2> QED
    BY <1>7, <2>1, ContactsFrame, CreditOfPass DEF Tick
<1>8. ASSUME Shape PROVE UdpInv'
  <2>1. Types'
    BY <1>8 DEF Shape, Types, config
  <2>2. bucket.due > -MaxDebt
    BY <1>8, RefillIsDue DEF Shape, Credit
  <2> QED
    BY <1>8, <2>1, <2>2, ContactsFrame, CreditOfReserve DEF Shape
<1>9. ASSUME NEW rate \in Rates, Retune(rate) PROVE UdpInv'
  <2>1. Types'
    BY <1>9 DEF Retune, Types, config
  <2> QED
    BY <1>9, <2>1, ContactsFrame, CreditOfRetune DEF Retune
<1>10. CASE UNCHANGED vars
  <2>1. Types' /\ UNCHANGED <<sent, seen, ticks, bucket>>
    BY <1>10 DEF vars, Types
  <2> QED
    BY <2>1, ContactsFrame, CreditFrame
<1> QED
  BY <1>1, <1>2, <1>3, <1>4, <1>5, <1>6, <1>7, <1>8, <1>9, <1>10
  DEF Next, ClientDatagram, RemoteDatagram

(***************************************************************************)
(* ContactedRemotes::record and the shared bucket keep the invariant, in   *)
(* the core relay and under an interceptor, whatever is sent, retuned or   *)
(* shaped.                                                                 *)
(***************************************************************************)
THEOREM UdpInvariant == Spec => []UdpInv
  BY UdpStart, UdpStep, PTL DEF Spec

LEMMA InvBounds == UdpInv => ClientBounded
<1> SUFFICES ASSUME UdpInv PROVE ClientBounded
  OBVIOUS
<1>1. TypeOK
  BY DEF UdpInv, Types, Contacts, Recorded, TypeOK
<1>2. ContactedRecent
  BY ContactsAreRecent DEF UdpInv
<1>3. CreditEarned
  BY RefillIsDue DEF UdpInv, Credit, CreditEarned
<1> QED
  BY <1>1, <1>2, <1>3 DEF ClientBounded

(***************************************************************************)
(* What a client may cost: the contacted set holds exactly the last        *)
(* MAX_CONTACTED_REMOTES peers and the bucket exactly what the rates in    *)
(* force have earned, for every limit.                                     *)
(***************************************************************************)
THEOREM ClientAlwaysBounded == Spec => []ClientBounded
  BY UdpInvariant, InvBounds, PTL

-----------------------------------------------------------------------------
(***************************************************************************)
(* The refinement of Association.                                          *)
(***************************************************************************)
Peers == {sent[i] : i \in DOMAIN sent}

\* The two ways of writing a peer without its port agree on what is a
\* host and a port.
LEMMA SamePeer == ASSUME NEW d \in Dests PROVE Promise!PeerOf(d) = key(d)
<1>1. CASE strict
  BY <1>1 DEF Promise!PeerOf, key
<1>2. CASE ~strict
  <2>1. d = [host |-> d.host, port |-> d.port]
    OBVIOUS
  <2>2. [d EXCEPT !.port = 0] = [host |-> d.host, port |-> 0]
    BY <2>1
  <2> QED
    BY <1>2, <2>2 DEF Promise!PeerOf, key
<1> QED
  BY <1>1, <1>2

\* Whoever is in the contacted set was written to.
LEMMA ContactedIsPeer ==
  ASSUME UdpInv, NEW r \in Dests, contains(r)
  PROVE  Promise!PeerOf(r) \in Peers
<1>1. key(r) \in Keys /\ seen[key(r)] # 0
  BY KeyIsKey DEF contains, UdpInv, Types
<1>2. seen[key(r)] \in 1 .. Len(sent) /\ sent[seen[key(r)]] = key(r) /\ DOMAIN sent = 1 .. Len(sent)
  BY <1>1 DEF UdpInv, Contacts, Recorded, Latest
<1>3. key(r) \in Peers
  BY <1>2 DEF Peers
<1> QED
  BY <1>3, SamePeer

LEMMA PeersGrow ==
  ASSUME UdpInv, NEW k \in Keys, sent' = Append(sent, k)
  PROVE  Peers' = Peers \cup {k}
<1>1. sent \in Seq(Keys) /\ Len(sent) \in Nat /\ DOMAIN sent = 1 .. Len(sent)
      /\ DOMAIN sent' = 1 .. Len(sent) + 1 /\ sent'[Len(sent) + 1] = k
      /\ \A i \in 1 .. Len(sent) : sent'[i] = sent[i]
  BY DEF UdpInv, Contacts, Recorded
<1> QED
  BY <1>1 DEF Peers

LEMMA OriginatePromised ==
  ASSUME UdpInv, NEW d \in Allowed, NEW s, Originate(d, s), UNCHANGED strict
  PROVE  /\ Peers' = Peers \cup {Promise!PeerOf(d)}
         /\ out' \in {out, [client |-> None, addr |-> d]}
<1>1. d \in Dests /\ key(d) \in Keys
  BY KeyIsKey DEF UdpInv, Types
<1>2. Peers' = Peers \cup {key(d)}
  BY <1>1, PeersGrow DEF Originate
<1>3. Promise!PeerOf(d) = key(d)
  BY <1>1, SamePeer
<1> QED
  BY <1>2, <1>3 DEF Originate

\* A datagram of the client, through the core or an interceptor.
LEMMA ClientPromised ==
  ASSUME UdpInv, UdpInv', open, NEW src \in Ports, lock' = (IF lock = None THEN src ELSE lock),
         UNCHANGED strict,
         \/ \E d \in Allowed, s \in BOOLEAN : Originate(d, s)
         \/ UNCHANGED <<sent, out>>
  PROVE  Promise!FromClient
<1>1. open' \in BOOLEAN /\ lock' \in IF lock = None THEN Ports ELSE {lock}
  BY DEF UdpInv, Types
<1>2. \/ \E d \in Allowed : Peers' = Peers \cup {Promise!PeerOf(d)} /\ out' \in {out, [client |-> None, addr |-> d]}
      \/ UNCHANGED <<Peers, out>>
  BY OriginatePromised DEF Peers
<1> QED
  BY <1>1, <1>2 DEF Promise!FromClient, Peers

LEMMA ReplyPromised ==
  ASSUME UdpInv, UdpInv', open, NEW r \in Dests, contains(r), NEW s \in BOOLEAN,
         Deliver(r, s), lock # None, UNCHANGED <<strict, lock, sent>>
  PROVE  Promise!ToClient \/ Promise!Close \/ UNCHANGED Promise!vars
<1>1. open' \in BOOLEAN /\ Promise!PeerOf(r) \in Peers
  BY ContactedIsPeer DEF UdpInv, Types
<1>2. CASE has(bucket, 1) /\ s
  BY <1>1, <1>2 DEF Deliver, Promise!ToClient, Peers
<1>3. CASE ~(has(bucket, 1) /\ s)
  BY <1>1, <1>3 DEF Deliver, Promise!Close, Promise!vars, Peers, UdpInv, Types
<1> QED
  BY <1>2, <1>3

LEMMA StepPromised == UdpInv /\ UdpInv' /\ [Next]_vars => [Promise!Next]_(Promise!vars)
<1> SUFFICES ASSUME UdpInv, UdpInv', [Next]_vars PROVE Promise!Next \/ UNCHANGED Promise!vars
  OBVIOUS
<1>1. ASSUME NEW src \in Ports, NEW d \in Dests, NEW s \in BOOLEAN, CoreForward(src, d, s)
      PROVE  Promise!FromClient
  BY <1>1, ClientPromised DEF CoreForward, Forward, config
<1>2. ASSUME NEW src \in Ports, NEW d \in Dests, NEW s \in BOOLEAN, OwnedReceive(src, d, s)
      PROVE  Promise!FromClient
  BY <1>2, ClientPromised DEF OwnedReceive, OwnedOriginate, config
<1>3. ASSUME NEW d \in Dests, NEW s \in BOOLEAN, CoreResolved(d, s) PROVE Promise!FromClient
  <2>1. pending \in Ports
    BY <1>3 DEF CoreResolved, UdpInv, Types
  <2> QED
    BY <1>3, <2>1, ClientPromised DEF CoreResolved, Forward, config
<1>4. ASSUME NEW r \in Dests, NEW s \in BOOLEAN, CoreReply(r, s)
      PROVE  Promise!ToClient \/ Promise!Close \/ UNCHANGED Promise!vars
  BY <1>4, ReplyPromised DEF CoreReply, config
<1>5. ASSUME NEW r \in Dests, NEW s \in BOOLEAN, OwnedReply(r, s)
      PROVE  Promise!ToClient \/ Promise!Close \/ UNCHANGED Promise!vars
  <2>1. CASE lock # None
    BY <1>5, <2>1, ReplyPromised DEF OwnedReply, config
  <2>2. CASE lock = None
    BY <1>5, <2>2 DEF OwnedReply, config, Promise!vars
  <2> QED
    BY <2>1, <2>2
<1>6. ASSUME \/ \E src \in Ports \cup {Foreign} : CoreResolve(src) \/ CoreDrop(src)
             \/ CoreUnresolved \/ Tick \/ Shape \/ \E rate \in Rates : Retune(rate)
             \/ UNCHANGED vars
      PROVE  UNCHANGED Promise!vars
  BY <1>6 DEF CoreResolve, CoreDrop, CoreUnresolved, Tick, Shape, Retune, vars, config, Promise!vars
<1>7. ASSUME ControlEnds \/ Watchdog PROVE Promise!Close \/ UNCHANGED Promise!vars
  BY <1>7 DEF ControlEnds, Watchdog, config, Promise!vars, Promise!Close
<1> QED
  BY <1>1, <1>2, <1>3, <1>4, <1>5, <1>6, <1>7
  DEF Next, ClientDatagram, RemoteDatagram, Promise!Next

(***************************************************************************)
(* The tasks of run_udp_associate and the facades an interceptor works     *)
(* through implement Association: one endpoint, allowed destinations, and  *)
(* answers from peers only.                                                *)
(***************************************************************************)
THEOREM AssociationImplemented == Spec => KeepsPromise
<1>1. Init => Promise!Init
  <2> SUFFICES ASSUME Init PROVE Promise!Init
    OBVIOUS
  <2>1. Peers = {}
    BY DEF Init, Peers
  <2>2. strict \in BOOLEAN /\ open = TRUE /\ lock \in Ports \cup {None} /\ out = None
    BY DEF Init, requested_udp_endpoint
  <2> QED
    BY <2>1, <2>2 DEF Promise!Init, Peers
<1> QED
  BY <1>1, StepPromised, UdpInvariant, PTL DEF Spec, KeepsPromise, Promise!Spec
=============================================================================
