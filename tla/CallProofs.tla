---------------------------- MODULE CallProofs ----------------------------
(***************************************************************************)
(* Functions that the kernel calls later.  The safety properties of the    *)
(* callout table and of soft interrupts hold for any number of clients,    *)
(* structures, executors and CPUs, any delays and any layout of the ids    *)
(* that satisfies CalloutAssumption; those of the callback table hold for  *)
(* any number of daemons and structures.                                   *)
(***************************************************************************)
EXTENDS Callout, Callb, SleepQProofs

Entries == [cp : Structs, runtime : Int, arg : Clients]

(* Executor e of x is inside the handler of the callout in structure s.    *)
Calls(x, e, s) == x[e].pc = "call" /\ x[e].cp = s

(* The parts of the invariant are about a chain h, the ids k of the        *)
(* structures, the executors x and so on, because the step of an executor  *)
(* that leaves a handler and enters another one has a state in between.    *)

(* Structures are hashed or free, once.                                    *)
StructsOK(h, free) ==
    /\ NoDup(free)
    /\ \A i, j \in DOMAIN h : h[i].cp = h[j].cp => i = j
    /\ \A n \in Elems(h) : n.cp \notin Elems(free)

(* The marked callouts are the ones inside a handler.                      *)
ExecOK(h, k, x) ==
    /\ \A e \in Executors : x[e].pc = "call" =>
          \E n \in Elems(h) : n.cp = x[e].cp /\ n.runtime = x[e].runtime
    /\ \A s \in Structs : k[s] >= EXECUTING <=> \E e \in Executors : Calls(x, e, s)
    /\ \A e, f \in Executors :
          x[e].pc = "call" /\ x[f].pc = "call" /\ x[e].cp = x[f].cp => e = f

(* No pending callout is before r, none that is called is ahead of the     *)
(* clock, and in the chain those called precede those still to be called   *)
(* at the same time: a scan may go on behind the callout it has finished.  *)
TimesOK(h, k, r) ==
    /\ r <= 1
    /\ \A n \in Elems(h) : IF k[n.cp] >= EXECUTING THEN n.runtime <= 0 ELSE n.runtime >= r
    /\ \A i, j \in DOMAIN h :
          i < j /\ h[i].runtime = h[j].runtime /\ k[h[j].cp] >= EXECUTING
            => k[h[i].cp] >= EXECUTING

(* A hashed callout is the only one of a client that has its id.           *)
IdsOK(h, k, ids) ==
    /\ \A n \in Elems(h) : ids[n.arg] # 0 /\ k[n.cp] \in {ids[n.arg], ids[n.arg] + EXECUTING}
    /\ \A i, j \in DOMAIN h : h[i].arg = h[j].arg => i = j

(* A client's callout is pending and has not run, is running, or is gone   *)
(* because it ran or because untimeout() said so.                          *)
RanOK(h, k, ids, rn, rt) ==
    /\ \A n \in Elems(h) : rn[n.arg] = IF k[n.cp] >= EXECUTING THEN 1 ELSE 0
    /\ \A c \in Clients : ids[c] # 0 =>
          rn[c] = 1 \/ \E n \in Elems(h) : n.arg = c
    /\ \A c \in Clients : ids[c] = 0 => (rt[c] = -1 <=> rn[c] = 1)

(* A client inside untimeout() waits for its own callout, and sleeps only  *)
(* while that is called.                                                   *)
WaitsOK(h, k, ids, u) ==
    /\ \A e \in Executors : u[e].pc = "no"
    /\ \A c \in Clients : u[c].pc # "no" =>
          /\ ids[c] # 0 /\ u[c].cp \in Structs /\ u[c].xid = ids[c] + EXECUTING
          /\ \A n \in Elems(h) : n.arg = c => n.cp = u[c].cp /\ k[n.cp] = u[c].xid
          /\ u[c].pc = "sleep" => \E n \in Elems(h) : n.arg = c

(* The ids of clients.                                                     *)
ClientsOK ==
    /\ \A c \in Clients : id[c] < EXECUTING
    /\ \A c, d \in Clients : id[c] = id[d] => c = d \/ id[c] = 0
    /\ \A c \in alloc : id[c] = 0

(* Soft interrupts: a function is queued once, and a CPU is in             *)
(* callout_execute only while softint() calls it.                          *)
SoftOK ==
    /\ NoDup(softhead)
    /\ ct_type = "REALTIME" =>
          \A c \in CPUs : sint[c] # callout_execute => ex[c].pc = "idle"

CalloutInv ==
    /\ TypeOK /\ ct_curtime <= 0
    /\ ClientsOK /\ SoftOK
    /\ StructsOK(ct_hash, ct_freelist)
    /\ ExecOK(ct_hash, c_xid, ex)
    /\ TimesOK(ct_hash, c_xid, ct_runtime)
    /\ IdsOK(ct_hash, c_xid, id)
    /\ RanOK(ct_hash, c_xid, id, ran, ret)
    /\ WaitsOK(ct_hash, c_xid, id, un)

-----------------------------------------------------------------------------
LEMMA Constants ==
    /\ COUNTER_LOW \in Nat /\ COUNTER_LOW > 1
    /\ COUNTER_HIGH \in Nat /\ COUNTER_HIGH > 0
    /\ EXECUTING \in Nat /\ EXECUTING = 4 * COUNTER_HIGH
    /\ Table \in {0, 1} /\ Ids = 0..(2 * EXECUTING - 1)
<1>1. COUNTER_LOW \in Nat /\ COUNTER_LOW > 1 /\ COUNTER_HIGH \in Nat /\ COUNTER_HIGH > 0
  BY CalloutAssumption
<1>2. EXECUTING \in Nat /\ EXECUTING = 4 * COUNTER_HIGH
  BY <1>1 DEF EXECUTING
<1>3. Table \in {0, 1}
  BY DEF Table
<1> QED BY <1>1, <1>2, <1>3 DEF Ids

(* Quotient and remainder are unique.                                      *)
LEMMA Division ==
    ASSUME NEW n \in Nat, n > 0, NEW q \in Int, NEW r \in 0..(n - 1)
    PROVE  (n * q + r) % n = r /\ (n * q + r) \div n = q
<1> DEFINE a == n * q + r
<1>1. a \in Int
  OBVIOUS
<1>2. /\ a = n * (a \div n) + (a % n)
      /\ a % n \in 0..(n - 1) /\ a \div n \in Int
  BY <1>1
<1>3. ASSUME a \div n > q PROVE FALSE
  <2>1. a \div n >= q + 1
    BY <1>2, <1>3
  <2>2. n * (a \div n) >= n * (q + 1)
    BY <1>2, <2>1
  <2>3. n * (q + 1) = n * q + n
    OBVIOUS
  <2>4. n * (a \div n) \in Int /\ n * q \in Int
    BY <1>2
  <2> HIDE DEF a
  <2> QED BY <1>1, <1>2, <2>2, <2>3, <2>4 DEF a
<1>4. ASSUME a \div n < q PROVE FALSE
  <2>1. q >= (a \div n) + 1
    BY <1>2, <1>4
  <2>2. n * q >= n * ((a \div n) + 1)
    BY <1>2, <2>1
  <2>3. n * ((a \div n) + 1) = n * (a \div n) + n
    BY <1>2
  <2>4. n * (a \div n) \in Int /\ n * q \in Int
    BY <1>2
  <2> QED BY <1>1, <1>2, <2>2, <2>3, <2>4
<1>5. a \div n = q
  BY <1>2, <1>3, <1>4
<1> QED BY <1>2, <1>5

(* What the comment of callo.h promises of the ids.                        *)
Issued(i, k) == i \in Ids /\ i \div COUNTER_HIGH = k /\ i % COUNTER_LOW = Table

LEMMA Distributes ==
    ASSUME NEW a \in Int, NEW b \in Int, NEW c \in Int PROVE a * (b + c) = a * b + a * c
OBVIOUS

LEMMA NextIdIssued ==
    ASSUME NEW k \in {1, 3}, NEW last, Issued(last, k)
    PROVE  /\ Issued(NextId(last), k)
           /\ NextId(last) >= COUNTER_HIGH /\ NextId(last) < EXECUTING
<1> DEFINE H == COUNTER_HIGH
           L == COUNTER_LOW
           b == last % H
           q == last \div L
           m == H \div L
           less == last - L
<1>1. H \in Nat /\ H > 0 /\ L \in Nat /\ L > 1 /\ EXECUTING = 4 * H
  BY Constants
<1>2. last \in Int /\ last \div H = k /\ last % L = Table
  BY Constants DEF Issued
<1>3. last = H * k + b /\ b \in 0..(H - 1)
  BY <1>1, <1>2
<1>4. last = L * q + Table /\ q \in Int /\ Table \in 0..(L - 1)
  BY <1>1, <1>2, Constants
<1>5. H = L * m /\ m \in Int /\ L <= H
  <2>1. H % L = 0
    BY CalloutAssumption
  <2>2. H = L * m /\ m \in Int
    BY <1>1, <2>1
  <2>3. m >= 1
    BY <1>1, <2>2
  <2> QED BY <1>1, <2>2, <2>3
<1>6. ASSUME NEW i \in Int, NEW p \in Int, i = L * p + Table PROVE i % L = Table
  BY <1>1, <1>4, <1>6, Division
<1>7. ASSUME NEW i \in Int, NEW j \in 0..4, NEW r \in 0..(H - 1), i = H * j + r
      PROVE  i \div H = j
  BY <1>1, <1>7, Division
<1>8. ASSUME NEW i \in Int, NEW r \in 0..(H - 1), i = H * k + r
      PROVE  i \in Ids /\ i >= H /\ i < EXECUTING
  <2>1. i = H + r \/ i = 3 * H + r
    BY <1>1, <1>8
  <2> QED BY <1>1, <1>8, <2>1, Constants
<1>9. less \in Int /\ less = L * (q - 1) + Table
  BY <1>1, <1>2, <1>4
<1>10. CASE b >= L
  <2>1. less = H * k + (b - L) /\ b - L \in 0..(H - 1)
    BY <1>1, <1>3, <1>10
  <2>2. less \div H = k
    BY <1>7, <1>9, <2>1
  <2>3. NextId(last) = less
    BY <2>2 DEF NextId
  <2>4. less % L = Table
    BY <1>4, <1>6, <1>9
  <2>5. less \in Ids /\ less >= H /\ less < EXECUTING
    BY <1>8, <1>9, <2>1
  <2> HIDE DEF less
  <2> QED BY <2>2, <2>3, <2>4, <2>5 DEF Issued
<1>11. CASE b < L
  <2> DEFINE r == H + b - L
             new == less + H
  <2>1. r \in 0..(H - 1) /\ less = H * (k - 1) + r /\ new = H * k + r /\ new \in Int
    BY <1>1, <1>3, <1>5, <1>11
  <2>2. less \div H = k - 1
    BY <1>7, <1>9, <2>1
  <2>3. NextId(last) = new
    BY <2>2 DEF NextId
  <2>4. new % L = Table
    <3>0. L \in Int /\ q - 1 \in Int /\ m \in Int /\ H \in Int /\ Table \in Int
      BY <1>1, <1>4, <1>5
    <3>1. new = L * (q - 1 + m) + Table
      <4> HIDE DEF L, H, q, m, less
      <4>1. L * ((q - 1) + m) = L * (q - 1) + L * m
        BY <3>0, Distributes
      <4>2. L * (q - 1) \in Int /\ L * m \in Int
        BY <3>0
      <4> QED BY <3>0, <4>1, <4>2, <1>5, <1>9 DEF new
    <3> QED BY <1>4, <1>5, <1>6, <2>1, <3>1
  <2>5. new \in Ids /\ new >= H /\ new < EXECUTING /\ new \div H = k
    BY <1>7, <1>8, <2>1
  <2> HIDE DEF new
  <2> QED BY <2>3, <2>4, <2>5 DEF Issued
<1> QED BY <1>1, <1>3, <1>10, <1>11

-----------------------------------------------------------------------------
(* Chains: what is in them and in which order.                             *)
LEMMA ChainFacts ==
    ASSUME NEW h \in Seq(Entries)
    PROVE  /\ Len(h) \in Nat /\ DOMAIN h = 1..Len(h)
           /\ \A i \in DOMAIN h : h[i] \in Elems(h) /\ i \in Nat
           /\ \A n \in Elems(h) : /\ n \in Entries /\ n.cp \in Structs
                                  /\ n.runtime \in Int /\ n.arg \in Clients
<1>1. Len(h) \in Nat /\ DOMAIN h = 1..Len(h) /\ h \in [1..Len(h) -> Entries]
  BY LenProperties
<1>2. \A i \in DOMAIN h : h[i] \in Elems(h) /\ h[i] \in Entries /\ i \in Nat
  BY <1>1 DEF Elems
<1>3. \A n \in Entries : n.cp \in Structs /\ n.runtime \in Int /\ n.arg \in Clients
  BY DEF Entries
<1> QED BY <1>1, <1>2, <1>3 DEF Elems

(* The entries of g are entries of h, in the same order.                   *)
Embeds(f, g, h) ==
    /\ f \in [DOMAIN g -> DOMAIN h]
    /\ \A i \in DOMAIN g : g[i] = h[f[i]]
    /\ \A i, j \in DOMAIN g : i < j => f[i] < f[j]

LEMMA EmbedOnce ==
    ASSUME NEW h \in Seq(Entries), NEW g \in Seq(Entries), NEW f, Embeds(f, g, h),
           NEW i \in DOMAIN g, NEW j \in DOMAIN g, f[i] = f[j]
    PROVE  i = j
<1>1. i \in Int /\ j \in Int /\ f[i] \in Int /\ f[j] \in Int
  BY ChainFacts DEF Embeds
<1>2. ~(i < j) /\ ~(j < i)
  BY <1>1 DEF Embeds
<1> QED BY <1>1, <1>2

LEMMA Thinned ==
    ASSUME NEW h \in Seq(Entries), NEW p \in DOMAIN h, NEW g,
           \A i, j \in DOMAIN h : h[i].cp = h[j].cp => i = j,
           g = [i \in 1..(Len(h) - 1) |-> h[IF i < p THEN i ELSE i + 1]]
    PROVE  /\ g \in Seq(Entries) /\ DOMAIN g = 1..(Len(h) - 1)
           /\ Elems(g) = {n \in Elems(h) : n.cp # h[p].cp}
           /\ Embeds([i \in DOMAIN g |-> IF i < p THEN i ELSE i + 1], g, h)
<1> DEFINE m == Len(h) - 1
           f == [i \in DOMAIN g |-> IF i < p THEN i ELSE i + 1]
<1>1. Len(h) \in Nat /\ DOMAIN h = 1..Len(h) /\ p \in Nat /\ p >= 1 /\ p <= Len(h)
  BY ChainFacts
<1>2. m \in Nat /\ DOMAIN g = 1..m
  BY <1>1
<1>3. \A i \in 1..m : /\ (IF i < p THEN i ELSE i + 1) \in DOMAIN h
                      /\ (IF i < p THEN i ELSE i + 1) # p
  BY <1>1
<1>4. \A i \in DOMAIN g : g[i] = h[f[i]] /\ f[i] \in DOMAIN h /\ f[i] # p
  BY <1>2, <1>3
<1>5. g \in Seq(Entries)
  <2>1. \A i \in 1..m : g[i] \in Entries
    BY <1>2, <1>4, ChainFacts
  <2>2. g \in [1..m -> Entries]
    BY <1>2, <2>1
  <2> QED BY <1>2, <2>2, SeqDef
<1>6. Embeds(f, g, h)
  <2>1. \A i, j \in DOMAIN g : i < j => f[i] < f[j]
    BY <1>1, <1>2
  <2> QED BY <1>4, <2>1 DEF Embeds
<1>7. ASSUME NEW i \in DOMAIN h, i # p PROVE \E j \in DOMAIN g : g[j] = h[i]
  <2>1. CASE i < p
    <3>1. i \in DOMAIN g /\ f[i] = i
      BY <1>1, <1>2, <2>1
    <3> QED BY <1>4, <3>1
  <2>2. CASE i > p
    <3>1. i - 1 \in DOMAIN g /\ f[i - 1] = i
      BY <1>1, <1>2, <2>2
    <3> QED BY <1>4, <3>1
  <2> QED BY <1>1, <1>7, <2>1, <2>2
<1>8. Elems(g) = {n \in Elems(h) : n.cp # h[p].cp}
  <2>1. ASSUME NEW i \in DOMAIN g PROVE g[i] \in Elems(h) /\ g[i].cp # h[p].cp
    BY <1>4 DEF Elems
  <2>2. ASSUME NEW n \in Elems(h), n.cp # h[p].cp PROVE n \in Elems(g)
    BY <1>7, <2>2 DEF Elems
  <2> QED BY <2>1, <2>2 DEF Elems
<1> QED BY <1>2, <1>5, <1>6, <1>8

LEMMA Pushed ==
    ASSUME NEW T, NEW h \in Seq(T), NEW n \in T
    PROVE  LET g == <<n>> \o h IN
           /\ g \in Seq(T) /\ DOMAIN g = 1..(Len(h) + 1)
           /\ g[1] = n /\ \A i \in 1..Len(h) : g[i + 1] = h[i]
           /\ Elems(g) = {n} \cup Elems(h)
<1> DEFINE g == <<n>> \o h
<1>1. Len(h) \in Nat /\ DOMAIN h = 1..Len(h)
  BY LenProperties
<1>2. <<n>> \in Seq(T) /\ Len(<<n>>) = 1 /\ <<n>>[1] = n
  OBVIOUS
<1>3. g \in Seq(T) /\ Len(g) = Len(h) + 1 /\ DOMAIN g = 1..(Len(h) + 1)
  BY <1>1, <1>2
<1>4. g[1] = n /\ \A i \in 1..Len(h) : g[i + 1] = h[i]
  BY <1>1, <1>2
<1>5. Elems(g) = {n} \cup Elems(h)
  <2>1. \A i \in DOMAIN g : i = 1 \/ (i - 1 \in DOMAIN h /\ g[i] = h[i - 1])
    BY <1>1, <1>3, <1>4
  <2>2. \A i \in DOMAIN h : i + 1 \in DOMAIN g /\ g[i + 1] = h[i]
    BY <1>1, <1>3, <1>4
  <2>3. 1 \in DOMAIN g
    BY <1>1, <1>3
  <2> HIDE DEF g
  <2> QED BY <1>4, <2>1, <2>2, <2>3 DEF Elems
<1> QED BY <1>3, <1>4, <1>5

(* A structure that is hashed has its place in the chain.                  *)
LEMMA PlaceIs ==
    ASSUME ct_hash \in Seq(Entries), NEW p \in DOMAIN ct_hash,
           \A i, j \in DOMAIN ct_hash : ct_hash[i].cp = ct_hash[j].cp => i = j
    PROVE  Place(ct_hash[p].cp) = p
BY DEF Place

-----------------------------------------------------------------------------
ExTypes == [pc : {"idle", "cv", "top", "call"}, cp : Structs \cup {NoCallout}, runtime : Int]
UnTypes == [pc : {"no", "sleep", "recheck"}, cp : Structs \cup {NoCallout}, xid : Ids]

Typed(h, k, x, ids, rn, u) ==
    /\ h \in Seq(Entries) /\ k \in [Structs -> Ids] /\ x \in [Executors -> ExTypes]
    /\ ids \in [Clients -> Ids] /\ rn \in [Clients -> 0..1]
    /\ u \in [Clients \cup Executors -> UnTypes]

PartsOK(h, free, k, x, r, ids, rn, rt, u) ==
    /\ StructsOK(h, free) /\ ExecOK(h, k, x) /\ TimesOK(h, k, r)
    /\ IdsOK(h, k, ids) /\ RanOK(h, k, ids, rn, rt) /\ WaitsOK(h, k, ids, u)

(* Ids are numbers.                                                        *)
LEMMA IdsInt == \A i \in Ids : i \in Int /\ i >= 0
BY Constants

(* An entry leaves the chain and its structure goes to the freelist.       *)
LEMMA FreedStructs ==
    ASSUME NEW h \in Seq(Entries), NEW g \in Seq(Entries), NEW f, Embeds(f, g, h),
           NEW free \in Seq(Structs), NEW s \in Structs, NEW n \in Elems(h), n.cp = s,
           Elems(g) = {m \in Elems(h) : m.cp # s}, StructsOK(h, free)
    PROVE  StructsOK(g, <<s>> \o free) /\ <<s>> \o free \in Seq(Structs)
<1> DEFINE new == <<s>> \o free
<1>1. /\ new \in Seq(Structs) /\ DOMAIN new = 1..(Len(free) + 1)
      /\ new[1] = s /\ \A i \in 1..Len(free) : new[i + 1] = free[i]
      /\ Elems(new) = {s} \cup Elems(free)
  BY Pushed
<1>2. s \notin Elems(free)
  BY DEF StructsOK
<1>3. NoDup(new)
  <2>1. Len(free) \in Nat /\ DOMAIN free = 1..Len(free)
    BY LenProperties
  <2> SUFFICES ASSUME NEW i \in DOMAIN new, NEW j \in DOMAIN new, new[i] = new[j]
               PROVE  i = j
    BY DEF NoDup
  <2>2. ASSUME NEW a \in DOMAIN new, a # 1
        PROVE  a - 1 \in DOMAIN free /\ new[a] = free[a - 1] /\ new[a] # s
    <3>1. a - 1 \in 1..Len(free) /\ (a - 1) + 1 = a
      BY <1>1, <2>1, <2>2
    <3> HIDE DEF new
    <3>2. new[a] = free[a - 1]
      BY <1>1, <3>1
    <3> QED BY <1>2, <2>1, <3>1, <3>2 DEF Elems
  <2>3. i \in Int /\ j \in Int
    BY <1>1, <2>1
  <2> HIDE DEF new
  <2>4. CASE i = 1 \/ j = 1
    BY <1>1, <2>2, <2>4
  <2>5. CASE i # 1 /\ j # 1
    <3>1. i - 1 = j - 1
      BY <2>2, <2>5 DEF StructsOK, NoDup
    <3> QED BY <2>3, <3>1
  <2> QED BY <2>4, <2>5
<1>4. \A i, j \in DOMAIN g : g[i].cp = g[j].cp => i = j
  <2> SUFFICES ASSUME NEW i \in DOMAIN g, NEW j \in DOMAIN g, g[i].cp = g[j].cp
               PROVE  i = j
    OBVIOUS
  <2>1. f[i] = f[j]
    BY DEF StructsOK, Embeds
  <2> QED BY <2>1, EmbedOnce
<1> HIDE DEF new
<1>5. \A m \in Elems(g) : m.cp \notin Elems(new)
  BY <1>1 DEF StructsOK
<1> QED BY <1>1, <1>3, <1>4, <1>5 DEF StructsOK, new

(* The order of a chain is the order of what is left of it.                *)
LEMMA ThinnedOrder ==
    ASSUME NEW h \in Seq(Entries), NEW g \in Seq(Entries), NEW f, Embeds(f, g, h),
           NEW k, NEW r, TimesOK(h, k, r), NEW new,
           Elems(g) \subseteq Elems(h),
           \A n \in Elems(g) : new[n.cp] = k[n.cp]
    PROVE  TimesOK(g, new, r)
<1>1. \A n \in Elems(g) :
         IF new[n.cp] >= EXECUTING THEN n.runtime <= 0 ELSE n.runtime >= r
  BY DEF TimesOK
<1>2. ASSUME NEW i \in DOMAIN g, NEW j \in DOMAIN g, i < j,
             g[i].runtime = g[j].runtime, new[g[j].cp] >= EXECUTING
      PROVE  new[g[i].cp] >= EXECUTING
  <2>1. g[i] \in Elems(g) /\ g[j] \in Elems(g)
    BY DEF Elems
  <2>2. f[i] \in DOMAIN h /\ f[j] \in DOMAIN h /\ f[i] < f[j] /\ g[i] = h[f[i]] /\ g[j] = h[f[j]]
    BY <1>2 DEF Embeds
  <2>3. k[g[i].cp] >= EXECUTING
    BY <1>2, <2>1, <2>2 DEF TimesOK
  <2> QED BY <2>1, <2>3
<1> QED BY <1>1, <1>2 DEF TimesOK

(* The handler of structure s returned to executor e: the callout leaves   *)
(* the chain and its mark is cleared.                                      *)
Woken(u, s) ==
    [t \in Clients \cup Executors |->
        IF u[t].pc = "sleep" /\ u[t].cp = s THEN [u[t] EXCEPT !.pc = "recheck"] ELSE u[t]]

LEMMA Finished ==
    ASSUME NEW h, NEW free \in Seq(Structs), NEW k, NEW x, NEW r, NEW ids, NEW rn, NEW rt,
           NEW u, Typed(h, k, x, ids, rn, u), PartsOK(h, free, k, x, r, ids, rn, rt, u),
           NEW e \in Executors, NEW s \in Structs, Calls(x, e, s),
           NEW g \in Seq(Entries), NEW f, Embeds(f, g, h),
           Elems(g) = {m \in Elems(h) : m.cp # s}
    PROVE  LET k2 == [k EXCEPT ![s] = 0]
               x2 == [x EXCEPT ![e] = ExAt("idle")]
           IN  /\ Typed(g, k2, x2, ids, rn, Woken(u, s))
               /\ PartsOK(g, <<s>> \o free, k2, x2, r, ids, rn, rt, Woken(u, s))
               /\ <<s>> \o free \in Seq(Structs)
<1> DEFINE k2 == [k EXCEPT ![s] = 0]
           x2 == [x EXCEPT ![e] = ExAt("idle")]
           u2 == Woken(u, s)
<1>1. EXECUTING \in Nat /\ EXECUTING > 0 /\ 0 \in Ids
  BY Constants
<1>2. /\ h \in Seq(Entries) /\ k \in [Structs -> Ids] /\ x \in [Executors -> ExTypes]
      /\ ids \in [Clients -> Ids] /\ u \in [Clients \cup Executors -> UnTypes]
  BY DEF Typed
<1>3. k2 \in [Structs -> Ids] /\ k2[s] = 0 /\ \A m \in Structs \ {s} : k2[m] = k[m]
  BY <1>1, <1>2
<1>4. /\ x2 \in [Executors -> ExTypes] /\ x2[e].pc = "idle"
      /\ \A d \in Executors \ {e} : x2[d] = x[d]
  BY <1>2 DEF ExTypes, ExAt
<1>5. u2 \in [Clients \cup Executors -> UnTypes]
  BY <1>2 DEF UnTypes, Woken
<1>6. PICK n \in Elems(h) : n.cp = s /\ n.runtime = x[e].runtime
  BY DEF PartsOK, ExecOK, Calls
<1>7. \A m \in Elems(g) : m \in Elems(h) /\ m.cp \in Structs /\ m.cp # s /\ k2[m.cp] = k[m.cp]
  BY <1>2, <1>3, ChainFacts
<1> HIDE DEF k2, x2, u2
<1>8. Typed(g, k2, x2, ids, rn, u2)
  BY <1>3, <1>4, <1>5 DEF Typed
<1>9. StructsOK(g, <<s>> \o free) /\ <<s>> \o free \in Seq(Structs)
  BY <1>2, <1>6, FreedStructs DEF PartsOK
<1>10. ExecOK(g, k2, x2)
  <2>1. ASSUME NEW d \in Executors, x2[d].pc = "call"
        PROVE  d # e /\ x[d].pc = "call" /\ x[d].cp # s /\ x2[d] = x[d]
    BY <1>4, <2>1 DEF PartsOK, ExecOK, Calls
  <2>2. ASSUME NEW d \in Executors, x2[d].pc = "call"
        PROVE  \E m \in Elems(g) : m.cp = x2[d].cp /\ m.runtime = x2[d].runtime
    BY <2>1, <2>2 DEF PartsOK, ExecOK
  <2>3. ASSUME NEW m \in Structs
        PROVE  k2[m] >= EXECUTING <=> \E d \in Executors : Calls(x2, d, m)
    <3>1. CASE m = s
      BY <1>1, <1>3, <2>1, <3>1 DEF Calls
    <3>2. CASE m # s
      <4>1. \A d \in Executors : Calls(x2, d, m) <=> Calls(x, d, m)
        BY <1>4, <3>2 DEF Calls
      <4> QED BY <1>3, <3>2, <4>1 DEF PartsOK, ExecOK
    <3> QED BY <3>1, <3>2
  <2>4. ASSUME NEW c \in Executors, NEW d \in Executors,
               x2[c].pc = "call", x2[d].pc = "call", x2[c].cp = x2[d].cp
        PROVE  c = d
    BY <2>1, <2>4 DEF PartsOK, ExecOK
  <2> QED BY <2>2, <2>3, <2>4 DEF ExecOK
<1>11. TimesOK(g, k2, r)
  BY <1>2, <1>7, ThinnedOrder DEF PartsOK
<1>12. IdsOK(g, k2, ids)
  <2>1. ASSUME NEW i \in DOMAIN g, NEW j \in DOMAIN g, g[i].arg = g[j].arg PROVE i = j
    <3>1. f[i] = f[j]
      BY <2>1 DEF PartsOK, IdsOK, Embeds
    <3> QED BY <1>2, <3>1, EmbedOnce
  <2> QED BY <1>7, <2>1 DEF PartsOK, IdsOK
<1>13. RanOK(g, k2, ids, rn, rt)
  <2>1. \A m \in Elems(g) : rn[m.arg] = IF k2[m.cp] >= EXECUTING THEN 1 ELSE 0
    BY <1>7 DEF PartsOK, RanOK
  <2>2. ASSUME NEW c \in Clients, ids[c] # 0
        PROVE  rn[c] = 1 \/ \E m \in Elems(g) : m.arg = c
    <3>1. k[s] >= EXECUTING
      BY DEF PartsOK, ExecOK
    <3>2. \A m \in Elems(h) : m.cp = s => rn[m.arg] = 1
      BY <3>1 DEF PartsOK, RanOK
    <3> QED BY <2>2, <3>2 DEF PartsOK, RanOK
  <2> QED BY <2>1, <2>2 DEF PartsOK, RanOK
<1>14. WaitsOK(g, k2, ids, u2)
  <2>1. \A t \in Clients \cup Executors :
           /\ u2[t].pc = "no" <=> u[t].pc = "no"
           /\ u2[t].cp = u[t].cp /\ u2[t].xid = u[t].xid
           /\ u2[t].pc = "sleep" => u[t].pc = "sleep" /\ u[t].cp # s
    BY <1>2 DEF u2, Woken, UnTypes
  <2>2. ASSUME NEW c \in Clients, u2[c].pc # "no"
        PROVE  /\ ids[c] # 0 /\ u2[c].cp \in Structs /\ u2[c].xid = ids[c] + EXECUTING
               /\ \A m \in Elems(g) : m.arg = c => m.cp = u2[c].cp /\ k2[m.cp] = u2[c].xid
               /\ u2[c].pc = "sleep" => \E m \in Elems(g) : m.arg = c
    <3>1. u[c].pc # "no"
      BY <2>1, <2>2
    <3>2. /\ ids[c] # 0 /\ u[c].cp \in Structs /\ u[c].xid = ids[c] + EXECUTING
          /\ \A m \in Elems(h) : m.arg = c => m.cp = u[c].cp /\ k[m.cp] = u[c].xid
          /\ u[c].pc = "sleep" => \E m \in Elems(h) : m.arg = c
      BY <3>1 DEF PartsOK, WaitsOK
    <3> QED BY <1>7, <2>1, <3>2
  <2> QED BY <2>1, <2>2 DEF PartsOK, WaitsOK
<1> QED BY <1>8, <1>9, <1>10, <1>11, <1>12, <1>13, <1>14 DEF PartsOK, k2, x2, u2

(* Executor e enters the handler of the callout at place p, which is due   *)
(* and the first one in the chain that is pending for its time.            *)
MayBegin(h, k, p) ==
    /\ p \in DOMAIN h /\ ~(k[h[p].cp] >= EXECUTING) /\ h[p].runtime <= 0
    /\ \A i \in DOMAIN h : i < p /\ h[i].runtime = h[p].runtime => k[h[i].cp] >= EXECUTING

LEMMA Begun ==
    ASSUME NEW h, NEW free, NEW k, NEW x, NEW r, NEW ids, NEW rn, NEW rt,
           NEW u, Typed(h, k, x, ids, rn, u), PartsOK(h, free, k, x, r, ids, rn, rt, u),
           NEW e \in Executors, x[e].pc # "call", NEW p, MayBegin(h, k, p)
    PROVE  LET n == h[p]
               k2 == [k EXCEPT ![n.cp] = @ + EXECUTING]
               x2 == [x EXCEPT ![e] = [pc |-> "call", cp |-> n.cp, runtime |-> n.runtime]]
               rn2 == [rn EXCEPT ![n.arg] = @ + 1]
           IN  /\ Typed(h, k2, x2, ids, rn2, u)
               /\ PartsOK(h, free, k2, x2, r, ids, rn2, rt, u)
<1> DEFINE n == h[p]
           k2 == [k EXCEPT ![n.cp] = @ + EXECUTING]
           x2 == [x EXCEPT ![e] = [pc |-> "call", cp |-> n.cp, runtime |-> n.runtime]]
           rn2 == [rn EXCEPT ![n.arg] = @ + 1]
<1>1. EXECUTING \in Nat /\ EXECUTING > 0 /\ Ids = 0..(2 * EXECUTING - 1)
  BY Constants
<1>2. /\ h \in Seq(Entries) /\ k \in [Structs -> Ids] /\ x \in [Executors -> ExTypes]
      /\ ids \in [Clients -> Ids] /\ rn \in [Clients -> 0..1]
      /\ u \in [Clients \cup Executors -> UnTypes]
  BY DEF Typed
<1>3. /\ p \in DOMAIN h /\ n \in Elems(h) /\ n.cp \in Structs /\ n.runtime \in Int
      /\ n.arg \in Clients
  BY <1>2, ChainFacts DEF MayBegin
<1>4. /\ ~(k[n.cp] >= EXECUTING) /\ k[n.cp] = ids[n.arg] /\ ids[n.arg] # 0 /\ rn[n.arg] = 0
      /\ n.runtime <= 0 /\ k[n.cp] \in Int /\ k[n.cp] >= 0
  <2>1. ~(k[n.cp] >= EXECUTING) /\ n.runtime <= 0
    BY DEF MayBegin
  <2>2. ids[n.arg] # 0 /\ k[n.cp] \in {ids[n.arg], ids[n.arg] + EXECUTING}
    BY <1>3 DEF PartsOK, IdsOK
  <2>3. ids[n.arg] \in Int /\ ids[n.arg] >= 0 /\ k[n.cp] \in Int /\ k[n.cp] >= 0
    BY <1>1, <1>2, <1>3
  <2>4. k[n.cp] = ids[n.arg]
    BY <1>1, <2>1, <2>2, <2>3
  <2>5. rn[n.arg] = 0
    BY <1>3, <2>1 DEF PartsOK, RanOK
  <2> HIDE DEF n
  <2> QED BY <2>1, <2>2, <2>3, <2>4, <2>5
<1>5. \A m \in Elems(h) : m # n => m.cp # n.cp /\ m.arg # n.arg
  BY <1>2, <1>3 DEF PartsOK, StructsOK, IdsOK, Elems
<1> HIDE DEF n
<1>6. /\ k2 \in [Structs -> Ids] /\ k2[n.cp] = ids[n.arg] + EXECUTING /\ k2[n.cp] >= EXECUTING
      /\ \A m \in Structs \ {n.cp} : k2[m] = k[m]
  <2>1. k[n.cp] + EXECUTING \in Ids
    BY <1>1, <1>4
  <2>2. k2[n.cp] = k[n.cp] + EXECUTING
    BY <1>2, <1>3
  <2> QED BY <1>1, <1>2, <1>3, <1>4, <2>1, <2>2
<1>7. /\ x2 \in [Executors -> ExTypes] /\ x2[e].pc = "call" /\ x2[e].cp = n.cp
      /\ x2[e].runtime = n.runtime
      /\ \A d \in Executors \ {e} : x2[d] = x[d]
  BY <1>2, <1>3 DEF ExTypes
<1>8. /\ rn2 \in [Clients -> 0..1] /\ rn2[n.arg] = 1
      /\ \A c \in Clients \ {n.arg} : rn2[c] = rn[c]
  BY <1>2, <1>3, <1>4
<1> HIDE DEF k2, x2, rn2
<1>9. \A m \in Elems(h) : m.cp \in Structs /\ m.arg \in Clients
  BY <1>2, ChainFacts
<1>10. Typed(h, k2, x2, ids, rn2, u)
  BY <1>2, <1>6, <1>7, <1>8 DEF Typed
<1>11. StructsOK(h, free)
  BY DEF PartsOK
<1>12. ExecOK(h, k2, x2)
  <2>0. \A d \in Executors : ~Calls(x, d, n.cp)
    BY <1>3, <1>4 DEF PartsOK, ExecOK
  <2>1. ASSUME NEW d \in Executors, x2[d].pc = "call"
        PROVE  \E m \in Elems(h) : m.cp = x2[d].cp /\ m.runtime = x2[d].runtime
    <3>1. CASE d = e
      BY <1>3, <1>7, <3>1
    <3>2. CASE d # e
      BY <1>7, <2>1, <3>2 DEF PartsOK, ExecOK
    <3> QED BY <3>1, <3>2
  <2>2. ASSUME NEW m \in Structs
        PROVE  k2[m] >= EXECUTING <=> \E d \in Executors : Calls(x2, d, m)
    <3>1. CASE m = n.cp
      BY <1>6, <1>7, <3>1 DEF Calls
    <3>2. CASE m # n.cp
      <4>1. \A d \in Executors : Calls(x2, d, m) <=> Calls(x, d, m)
        BY <1>7, <3>2 DEF Calls
      <4> QED BY <1>6, <3>2, <4>1 DEF PartsOK, ExecOK
    <3> QED BY <3>1, <3>2
  <2>3. ASSUME NEW c \in Executors, NEW d \in Executors,
               x2[c].pc = "call", x2[d].pc = "call", x2[c].cp = x2[d].cp
        PROVE  c = d
    <3>1. CASE c # e /\ d # e
      BY <1>7, <2>3, <3>1 DEF PartsOK, ExecOK
    <3>2. CASE (c = e /\ d # e) \/ (c # e /\ d = e)
      BY <1>7, <2>0, <2>3, <3>2 DEF Calls
    <3> QED BY <3>1, <3>2
  <2> QED BY <2>1, <2>2, <2>3 DEF ExecOK
<1>13. TimesOK(h, k2, r)
  <2>1. \A m \in Elems(h) :
           IF k2[m.cp] >= EXECUTING THEN m.runtime <= 0 ELSE m.runtime >= r
    <3>1. ASSUME NEW m \in Elems(h), m # n PROVE k2[m.cp] = k[m.cp]
      BY <1>5, <1>6, <1>9, <3>1
    <3> QED BY <1>4, <1>6, <3>1 DEF PartsOK, TimesOK
  <2>2. ASSUME NEW i \in DOMAIN h, NEW j \in DOMAIN h, i < j,
               h[i].runtime = h[j].runtime, k2[h[j].cp] >= EXECUTING
        PROVE  k2[h[i].cp] >= EXECUTING
    <3>1. h[i] \in Elems(h) /\ h[j] \in Elems(h)
      BY DEF Elems
    <3>2. k[h[i].cp] >= EXECUTING
      <4>1. CASE h[j] = n
        <5>1. j = p
          BY <1>3, <4>1 DEF PartsOK, StructsOK, n
        <5> QED BY <2>2, <5>1 DEF MayBegin
      <4>2. CASE h[j] # n
        <5>1. k2[h[j].cp] = k[h[j].cp]
          BY <1>5, <1>6, <1>9, <3>1, <4>2
        <5> QED BY <2>2, <5>1 DEF PartsOK, TimesOK
      <4> QED BY <4>1, <4>2
    <3> QED BY <1>4, <1>6, <1>9, <3>1, <3>2
  <2> QED BY <2>1, <2>2 DEF PartsOK, TimesOK
<1>14. IdsOK(h, k2, ids)
  <2>1. ASSUME NEW m \in Elems(h)
        PROVE  ids[m.arg] # 0 /\ k2[m.cp] \in {ids[m.arg], ids[m.arg] + EXECUTING}
    <3>1. CASE m = n
      BY <1>4, <1>6, <3>1
    <3>2. CASE m # n
      BY <1>5, <1>6, <1>9, <3>2 DEF PartsOK, IdsOK
    <3> QED BY <3>1, <3>2
  <2> QED BY <2>1 DEF PartsOK, IdsOK
<1>15. RanOK(h, k2, ids, rn2, rt)
  <2>1. ASSUME NEW m \in Elems(h)
        PROVE  rn2[m.arg] = IF k2[m.cp] >= EXECUTING THEN 1 ELSE 0
    <3>1. CASE m = n
      BY <1>6, <1>8, <3>1
    <3>2. CASE m # n
      <4>1. k2[m.cp] = k[m.cp] /\ rn2[m.arg] = rn[m.arg]
        BY <1>5, <1>6, <1>8, <1>9, <3>2
      <4> QED BY <4>1 DEF PartsOK, RanOK
    <3> QED BY <3>1, <3>2
  <2>2. ASSUME NEW c \in Clients, ids[c] # 0
        PROVE  rn2[c] = 1 \/ \E m \in Elems(h) : m.arg = c
    BY <1>8, <2>2 DEF PartsOK, RanOK
  <2>3. ASSUME NEW c \in Clients, ids[c] = 0 PROVE rt[c] = -1 <=> rn2[c] = 1
    BY <1>4, <1>8, <2>3 DEF PartsOK, RanOK
  <2> QED BY <2>1, <2>2, <2>3 DEF RanOK
<1>16. WaitsOK(h, k2, ids, u)
  <2>1. ASSUME NEW c \in Clients, u[c].pc # "no" PROVE c # n.arg
    <3>1. c = n.arg => k[n.cp] = ids[c] + EXECUTING
      BY <1>3, <2>1 DEF PartsOK, WaitsOK
    <3>2. ids[c] \in Int /\ ids[c] >= 0
      BY <1>1, <1>2
    <3> QED BY <1>1, <1>4, <3>1, <3>2
  <2>2. ASSUME NEW c \in Clients, u[c].pc # "no", NEW m \in Elems(h), m.arg = c
        PROVE  m.cp = u[c].cp /\ k2[m.cp] = u[c].xid
    <3>1. m.cp = u[c].cp /\ k[m.cp] = u[c].xid
      BY <2>2 DEF PartsOK, WaitsOK
    <3>2. m # n
      BY <2>1, <2>2
    <3> QED BY <1>5, <1>6, <1>9, <3>1, <3>2
  <2> QED BY <2>2 DEF PartsOK, WaitsOK
<1> QED BY <1>10, <1>11, <1>12, <1>13, <1>14, <1>15, <1>16
  DEF PartsOK, k2, x2, rn2, n

-----------------------------------------------------------------------------
(* The search for due callouts, by the clock and by executors.             *)
LEMMA MinNat ==
    ASSUME NEW U \in SUBSET Nat, U # {} PROVE Min(U) \in U /\ \A y \in U : Min(U) <= y
BY MinExists DEF Min

LEMMA MinInt ==
    ASSUME NEW U \in SUBSET Int, U # {}, NEW a \in Int, \A y \in U : y >= a
    PROVE  Min(U) \in U /\ \A y \in U : Min(U) <= y
<1> DEFINE V == {y - a : y \in U}
<1>1. V \in SUBSET Nat /\ V # {}
  <2>1. \A y \in U : y \in Int /\ y >= a
    OBVIOUS
  <2>2. \A y \in U : y - a \in Nat
    BY <2>1
  <2> QED BY <2>2
<1>2. PICK v \in V : \A w \in V : v <= w
  <2> HIDE DEF V
  <2> QED BY <1>1, MinExists
<1>3. PICK x \in U : v = x - a
  OBVIOUS
<1>4. ASSUME NEW y \in U PROVE x <= y
  <2>1. y - a \in V
    OBVIOUS
  <2>2. v <= y - a
    <3> HIDE DEF V
    <3> QED BY <1>2, <2>1
  <2>3. x \in Int /\ y \in Int
    OBVIOUS
  <2> QED BY <1>3, <2>2, <2>3
<1> QED BY <1>4 DEF Min

LEMMA SearchNone ==
    ASSUME NEW h \in Seq(Entries), NEW k, NEW r \in Int, NEW now \in Int, now <= 0,
           TimesOK(h, k, r), \A n \in Elems(h) : k[n.cp] = c_xid[n.cp],
           DueTimes(h, r, now) = {}
    PROVE  Past(r, now) \in Int /\ TimesOK(h, k, Past(r, now))
<1>1. Past(r, now) \in Int /\ Past(r, now) <= 1 /\ (Past(r, now) = r \/ r <= now)
  BY DEF Past, TimesOK
<1>2. ASSUME NEW n \in Elems(h), ~(k[n.cp] >= EXECUTING) PROVE n.runtime >= Past(r, now)
  <2>1. n.runtime \in Int /\ n.runtime >= r
    BY <1>2, ChainFacts DEF TimesOK
  <2>2. CASE n.runtime <= now
    <3>1. n.runtime \in r..now
      BY <2>1, <2>2
    <3>2. PICK i \in DOMAIN h : n = h[i]
      BY DEF Elems
    <3>3. i \in DueAt(h, n.runtime)
      BY <1>2, <3>2 DEF DueAt, Executing
    <3> QED BY <3>1, <3>3 DEF DueTimes
  <2>3. CASE n.runtime > now
    BY <2>1, <2>3 DEF Past
  <2> QED BY <2>1, <2>2, <2>3
<1> QED BY <1>1, <1>2 DEF TimesOK

LEMMA SearchFirst ==
    ASSUME NEW h \in Seq(Entries), NEW k, NEW r \in Int, NEW now \in Int, now <= 0,
           TimesOK(h, k, r), \A n \in Elems(h) : k[n.cp] = c_xid[n.cp],
           DueTimes(h, r, now) # {}
    PROVE  LET first == FirstDue(h, r, now) IN
           /\ first \in Int /\ first <= 0 /\ TimesOK(h, k, first)
           /\ MayBegin(h, k, Min(DueAt(h, first))) /\ h[Min(DueAt(h, first))].runtime = first
<1> DEFINE D == DueTimes(h, r, now)
           first == FirstDue(h, r, now)
<1>1. D \in SUBSET Int /\ \A s \in D : s >= r /\ s <= now /\ DueAt(h, s) # {}
  BY DEF DueTimes
<1>2. first \in D /\ \A s \in D : first <= s
  <2> HIDE DEF D
  <2>1. Min(D) \in D /\ \A s \in D : Min(D) <= s
    BY <1>1, MinInt DEF D
  <2> QED BY <2>1 DEF FirstDue, D
<1>3. first \in Int /\ first >= r /\ first <= 0 /\ DueAt(h, first) # {}
  BY <1>1, <1>2
<1>4. \A n \in Elems(h) : n.runtime \in Int
  BY ChainFacts
<1>5. ASSUME NEW n \in Elems(h), ~(k[n.cp] >= EXECUTING) PROVE n.runtime >= first
  <2>1. n.runtime >= r
    BY <1>5 DEF TimesOK
  <2>2. CASE n.runtime <= now
    <3>1. n.runtime \in r..now
      BY <1>4, <2>1, <2>2
    <3>2. PICK i \in DOMAIN h : n = h[i]
      BY DEF Elems
    <3>3. i \in DueAt(h, n.runtime)
      BY <1>5, <3>2 DEF DueAt, Executing
    <3>4. n.runtime \in D
      BY <3>1, <3>3 DEF DueTimes
    <3> HIDE DEF D, first
    <3> QED BY <1>2, <1>3, <1>4, <3>4
  <2>3. CASE n.runtime > now
    <3> HIDE DEF first
    <3>1. first <= now
      BY <1>1, <1>2 DEF first
    <3> QED BY <1>3, <1>4, <2>3, <3>1
  <2> QED BY <1>4, <2>2, <2>3
<1>6. TimesOK(h, k, first)
  <2> HIDE DEF first
  <2>1. first <= 1
    BY <1>3
  <2> QED BY <1>5, <2>1 DEF TimesOK
<1> HIDE DEF first, D
<1>7. DueAt(h, first) \in SUBSET Nat
  BY ChainFacts DEF DueAt
<1> DEFINE p == Min(DueAt(h, first))
<1>8. p \in DueAt(h, first) /\ \A i \in DueAt(h, first) : p <= i
  BY <1>3, <1>7, MinNat
<1> HIDE DEF p
<1>9. p \in DOMAIN h /\ h[p].runtime = first /\ ~(k[h[p].cp] >= EXECUTING)
  BY <1>8 DEF DueAt, Executing, Elems
<1>10. ASSUME NEW i \in DOMAIN h, i < p, h[i].runtime = h[p].runtime
       PROVE  k[h[i].cp] >= EXECUTING
  <2>1. p \in Nat /\ i \in Nat /\ h[i] \in Elems(h)
    BY <1>9, ChainFacts
  <2>2. i \notin DueAt(h, first)
    BY <1>8, <1>10, <2>1
  <2> QED BY <1>9, <1>10, <2>1, <2>2 DEF DueAt, Executing
<1> QED BY <1>3, <1>6, <1>9, <1>10 DEF MayBegin, first, p

(* What callout_execute does with the chain h and the marks k.             *)
LEMMA Searched ==
    ASSUME NEW h \in Seq(Entries), NEW k, NEW r \in Int, NEW e,
           ct_curtime \in Int, ct_curtime <= 0,
           TimesOK(h, k, r), \A n \in Elems(h) : k[n.cp] = c_xid[n.cp],
           Run(e, h, k, r)
    PROVE  /\ ct_runtime' \in Int /\ TimesOK(h, k, ct_runtime')
           /\ Stop(e, k) \/ \E p \in DOMAIN h : MayBegin(h, k, p) /\ Start(e, h[p], k)
<1>1. CASE DueTimes(h, r, ct_curtime) = {}
  BY <1>1, SearchNone DEF Run
<1>2. CASE DueTimes(h, r, ct_curtime) # {}
  <2> DEFINE first == FirstDue(h, r, ct_curtime)
  <2>1. /\ first \in Int /\ TimesOK(h, k, first)
        /\ MayBegin(h, k, Min(DueAt(h, first)))
    BY <1>2, SearchFirst
  <2>2. ct_runtime' = first /\ Start(e, h[Min(DueAt(h, first))], k)
    BY <1>2 DEF Run
  <2>3. Min(DueAt(h, first)) \in DOMAIN h
    BY <2>1 DEF MayBegin
  <2> HIDE DEF first
  <2> QED BY <2>1, <2>2, <2>3
<1> QED BY <1>1, <1>2

-----------------------------------------------------------------------------
LEMMA InvParts ==
    ASSUME CalloutInv
    PROVE  /\ Typed(ct_hash, c_xid, ex, id, ran, un)
           /\ PartsOK(ct_hash, ct_freelist, c_xid, ex, ct_runtime, id, ran, ret, un)
           /\ ct_freelist \in Seq(Structs) /\ ct_hash \in Seq(Entries)
           /\ ct_runtime \in Int /\ ct_curtime \in Int /\ ct_curtime <= 0
BY DEF CalloutInv, TypeOK, Typed, PartsOK, Entries, ExTypes, UnTypes

(* What an executor leaves alone.                                          *)
LEMMA ExecutorFrame ==
    ASSUME CalloutInv, NEW e \in Executors, ex[e].pc \in {"top", "call"},
           ex' = [ex EXCEPT ![e] = ex'[e]],
           UNCHANGED <<clk, cpr_stop_callout, ct_curtime, ct_short_id, ct_long_id,
                       id, alloc, ret, soft_vars>>,
           Typed(ct_hash', c_xid', ex', id', ran', un'), ct_freelist' \in Seq(Structs),
           PartsOK(ct_hash', ct_freelist', c_xid', ex', ct_runtime', id', ran', ret', un'),
           ct_runtime' \in Int
    PROVE  CalloutInv'
<1>1. TypeOK'
  BY
  DEF CalloutInv, TypeOK, Typed, Entries, ExTypes, UnTypes, soft_vars, SoftTypeOK
<1>2. ct_curtime' <= 0 /\ ClientsOK'
  BY DEF CalloutInv, ClientsOK
<1>3. SoftOK'
  <2>1. ASSUME ct_type = "REALTIME", NEW c \in CPUs, sint[c] # callout_execute
        PROVE  ex'[c].pc = "idle"
    <3>1. c \in Executors
      BY <2>1 DEF Executors
    <3>2. ex[c].pc = "idle"
      BY <2>1 DEF CalloutInv, SoftOK
    <3>3. ex'[c] = ex[c]
      <4>1. c # e
        BY <3>2
      <4> QED BY <3>1, <4>1 DEF CalloutInv, TypeOK
    <3> QED BY <3>2, <3>3
  <2> QED BY <2>1 DEF CalloutInv, SoftOK, soft_vars
<1> QED BY <1>1, <1>2, <1>3 DEF CalloutInv, PartsOK

(* An executor, outside a handler in the state x and u, enters one or      *)
(* comes to the end of callout_execute.                                    *)
LEMMA Resumed ==
    ASSUME NEW h, NEW free, NEW k, NEW x, NEW r, NEW u,
           Typed(h, k, x, id, ran, u), PartsOK(h, free, k, x, r, id, ran, ret, u),
           NEW e \in Executors, x[e].pc # "call",
           x = [ex EXCEPT ![e] = x[e]], ex \in [Executors -> ExTypes],
           \/ Stop(e, k)
           \/ \E p \in DOMAIN h : MayBegin(h, k, p) /\ Start(e, h[p], k)
    PROVE  /\ Typed(h, c_xid', ex', id, ran', u) /\ ex' = [ex EXCEPT ![e] = ex'[e]]
           /\ PartsOK(h, free, c_xid', ex', r, id, ran', ret, u)
<1>0. /\ x \in [Executors -> ExTypes] /\ \A d \in Executors \ {e} : x[d] = ex[d]
      /\ ExAt("idle") \in ExTypes /\ ExAt("idle").pc = "idle"
  BY DEF Typed, ExAt, ExTypes
<1>1. CASE Stop(e, k)
  <2>1. ex' = [x EXCEPT ![e] = ExAt("idle")] /\ c_xid' = k /\ ran' = ran
    BY <1>0, <1>1 DEF Stop
  <2>2. /\ ex' \in [Executors -> ExTypes] /\ ex'[e].pc # "call"
        /\ \A d \in Executors \ {e} : ex'[d] = x[d]
    BY <1>0, <2>1
  <2>3. \A d \in Executors : ex'[d].pc = "call" => ex'[d] = x[d]
    BY <2>2
  <2>4. \A d \in Executors : x[d].pc = "call" => ex'[d] = x[d]
    BY <2>2
  <2>5. ExecOK(h, k, ex')
    <3>1. \A d \in Executors, s \in Structs : Calls(ex', d, s) <=> Calls(x, d, s)
      BY <2>3, <2>4 DEF Calls
    <3> QED BY <2>3, <3>1 DEF PartsOK, ExecOK
  <2>6. ex' = [ex EXCEPT ![e] = ex'[e]]
    BY <1>0, <1>1, <2>2 DEF Stop
  <2> QED BY <2>1, <2>2, <2>5, <2>6 DEF Typed, PartsOK
<1>2. ASSUME NEW p \in DOMAIN h, MayBegin(h, k, p), Start(e, h[p], k)
      PROVE  /\ Typed(h, c_xid', ex', id, ran', u) /\ ex' = [ex EXCEPT ![e] = ex'[e]]
             /\ PartsOK(h, free, c_xid', ex', r, id, ran', ret, u)
  <2> DEFINE n == h[p]
             new == [pc |-> "call", cp |-> n.cp, runtime |-> n.runtime]
  <2>1. /\ ex' = [ex EXCEPT ![e] = new]
        /\ c_xid' = [k EXCEPT ![n.cp] = @ + EXECUTING]
        /\ ran' = [ran EXCEPT ![n.arg] = @ + 1]
    BY <1>2 DEF Start
  <2>2. [ex EXCEPT ![e] = new] = [x EXCEPT ![e] = new]
    BY <1>0
  <2>3. ex' = [ex EXCEPT ![e] = ex'[e]]
    <3> HIDE DEF new
    <3> QED BY <2>1
  <2>4. /\ Typed(h, [k EXCEPT ![n.cp] = @ + EXECUTING], [x EXCEPT ![e] = new], id,
                 [ran EXCEPT ![n.arg] = @ + 1], u)
        /\ PartsOK(h, free, [k EXCEPT ![n.cp] = @ + EXECUTING], [x EXCEPT ![e] = new], r, id,
                   [ran EXCEPT ![n.arg] = @ + 1], ret, u)
    BY <1>2, Begun
  <2> HIDE DEF n, new
  <2> QED BY <2>1, <2>2, <2>3, <2>4
<1> QED BY <1>1, <1>2

LEMMA ExecuteTopKeeps ==
    ASSUME CalloutInv, NEW e \in Executors, ExecuteTop(e) PROVE CalloutInv'
<1>1. /\ Typed(ct_hash, c_xid, ex, id, ran, un) /\ ct_freelist \in Seq(Structs)
      /\ PartsOK(ct_hash, ct_freelist, c_xid, ex, ct_runtime, id, ran, ret, un)
      /\ ct_hash \in Seq(Entries) /\ ct_runtime \in Int /\ ct_curtime \in Int
      /\ ct_curtime <= 0 /\ ex \in [Executors -> ExTypes]
  BY InvParts DEF Typed
<1>2. /\ ct_runtime' \in Int /\ TimesOK(ct_hash, c_xid, ct_runtime')
      /\ \/ Stop(e, c_xid)
         \/ \E p \in DOMAIN ct_hash : MayBegin(ct_hash, c_xid, p) /\ Start(e, ct_hash[p], c_xid)
  BY <1>1, Searched DEF ExecuteTop, PartsOK
<1>3. PartsOK(ct_hash, ct_freelist, c_xid, ex, ct_runtime', id, ran, ret, un)
  BY <1>1, <1>2 DEF PartsOK
<1>4. /\ Typed(ct_hash, c_xid', ex', id, ran', un) /\ ex' = [ex EXCEPT ![e] = ex'[e]]
      /\ PartsOK(ct_hash, ct_freelist, c_xid', ex', ct_runtime', id, ran', ret, un)
  <2>1. ex[e].pc = "top" /\ ex = [ex EXCEPT ![e] = ex[e]]
    BY <1>1 DEF ExecuteTop
  <2> QED BY <1>1, <1>2, <1>3, <2>1, Resumed
<1> QED BY <1>1, <1>2, <1>4, ExecutorFrame DEF ExecuteTop

(* The scan goes on behind the callout that has been called: what is       *)
(* before it in the chain is not due at this time.                         *)
LEMMA ScanOn ==
    ASSUME CalloutInv, NEW p \in DOMAIN ct_hash, Executing(ct_hash[p].cp),
           NEW g, g = Without(ct_hash[p].cp), NEW k, k = [c_xid EXCEPT ![ct_hash[p].cp] = 0],
           NEW q, q \in DueAt(ct_hash, ct_hash[p].runtime), q > p,
           \A i \in DueAt(ct_hash, ct_hash[p].runtime) : i > p => q <= i
    PROVE  \E j \in DOMAIN g : g[j] = ct_hash[q] /\ MayBegin(g, k, j)
<1> DEFINE h == ct_hash
           s == h[p].cp
           r == h[p].runtime
<1>1. h \in Seq(Entries) /\ TimesOK(h, c_xid, ct_runtime) /\ StructsOK(h, ct_freelist)
  BY InvParts DEF PartsOK
<1>2. Len(h) \in Nat /\ DOMAIN h = 1..Len(h) /\ s \in Structs /\ c_xid \in [Structs -> Ids]
  BY <1>1, InvParts, ChainFacts DEF Typed
<1>3. Place(s) = p
  BY <1>1, PlaceIs DEF StructsOK
<1>4. g = [i \in 1..(Len(h) - 1) |-> h[IF i < p THEN i ELSE i + 1]]
  BY <1>3 DEF Without
<1>5. /\ g \in Seq(Entries) /\ DOMAIN g = 1..(Len(h) - 1)
      /\ Elems(g) = {n \in Elems(h) : n.cp # s}
  BY <1>1, <1>4, Thinned DEF StructsOK
<1>6. q \in DOMAIN h /\ h[q].runtime = r /\ ~(c_xid[h[q].cp] >= EXECUTING)
  BY DEF DueAt, Executing
<1>7. \A n \in Elems(g) : k[n.cp] = c_xid[n.cp]
  BY <1>2, <1>5, ChainFacts
<1> DEFINE j == q - 1
<1>8. j \in DOMAIN g /\ g[j] = h[q] /\ j \in Int /\ g[j] \in Elems(g)
  <2>1. j \in 1..(Len(h) - 1) /\ ~(j < p) /\ j + 1 = q
    BY <1>2, <1>6
  <2>2. j \in DOMAIN g /\ g[j] = h[q] /\ j \in Int
    BY <1>4, <1>5, <2>1
  <2> QED BY <2>2 DEF Elems
<1>9. h[q].runtime <= 0
  <2>1. h[p] \in Elems(h) /\ c_xid[s] >= EXECUTING
    BY DEF Executing, Elems
  <2>2. r <= 0
    BY <1>1, <2>1 DEF TimesOK
  <2> QED BY <1>6, <2>2
<1>10. ASSUME NEW i \in DOMAIN g, i < j, g[i].runtime = g[j].runtime
       PROVE  k[g[i].cp] >= EXECUTING
  <2> DEFINE l == IF i < p THEN i ELSE i + 1
  <2>1. l \in DOMAIN h /\ g[i] = h[l] /\ l < q /\ l # p /\ l \in Int /\ p \in Int
    BY <1>2, <1>4, <1>5, <1>6, <1>10
  <2>2. g[i] \in Elems(g)
    BY DEF Elems
  <2>3. c_xid[h[l].cp] >= EXECUTING
    <3> HIDE DEF l
    <3>1. CASE l < p
      BY <1>1, <1>6, <1>8, <1>10, <2>1, <3>1 DEF TimesOK, Executing
    <3>2. CASE l > p
      <4>1. q \in Int
        BY <1>2, <1>6
      <4>2. l \notin DueAt(h, r)
        BY <2>1, <3>2, <4>1
      <4> QED BY <1>6, <1>8, <1>10, <2>1, <4>2 DEF DueAt, Executing
    <3> QED BY <2>1, <3>1, <3>2
  <2> QED BY <1>7, <2>1, <2>2, <2>3
<1> QED BY <1>6, <1>7, <1>8, <1>9, <1>10 DEF MayBegin

(* The handler that executor e has called: its place in the chain.         *)
LEMMA Called ==
    ASSUME CalloutInv, NEW e \in Executors, ex[e].pc = "call"
    PROVE  /\ ex[e].cp \in Structs /\ Executing(ex[e].cp) /\ Calls(ex, e, ex[e].cp)
           /\ \E p \in DOMAIN ct_hash :
                /\ ct_hash[p].cp = ex[e].cp /\ ct_hash[p].runtime = ex[e].runtime
                /\ Place(ex[e].cp) = p
<1>1. ct_hash \in Seq(Entries) /\ StructsOK(ct_hash, ct_freelist) /\ ExecOK(ct_hash, c_xid, ex)
  BY InvParts DEF PartsOK
<1>2. PICK p \in DOMAIN ct_hash : ct_hash[p].cp = ex[e].cp /\ ct_hash[p].runtime = ex[e].runtime
  BY <1>1 DEF ExecOK, Elems
<1>3. Place(ex[e].cp) = p
  BY <1>1, <1>2, PlaceIs DEF StructsOK
<1>4. ex[e].cp \in Structs
  BY <1>1, <1>2, ChainFacts
<1>5. Calls(ex, e, ex[e].cp)
  BY DEF Calls
<1>6. Executing(ex[e].cp)
  BY <1>1, <1>4, <1>5 DEF ExecOK, Executing
<1> QED BY <1>2, <1>3, <1>4, <1>5, <1>6

(* After a scan to the end of the chain nothing is pending for its time.   *)
LEMMA Advanced ==
    ASSUME CalloutInv, NEW p \in DOMAIN ct_hash, Executing(ct_hash[p].cp),
           NEW g \in Seq(Entries), Elems(g) = {n \in Elems(ct_hash) : n.cp # ct_hash[p].cp},
           NEW k, \A n \in Elems(g) : k[n.cp] = c_xid[n.cp],
           TimesOK(g, k, ct_runtime),
           {i \in DueAt(ct_hash, ct_hash[p].runtime) : i > p} = {}
    PROVE  LET r == Advance(ct_hash[p].runtime) IN r \in Int /\ TimesOK(g, k, r)
<1> DEFINE t == ct_hash[p].runtime
           r == Advance(t)
<1>1. /\ ct_hash \in Seq(Entries) /\ TimesOK(ct_hash, c_xid, ct_runtime)
      /\ StructsOK(ct_hash, ct_freelist) /\ ct_runtime \in Int
  BY InvParts DEF PartsOK
<1>2. t \in Int /\ t <= 0
  BY <1>1, ChainFacts DEF TimesOK, Executing
<1>3. CASE ct_runtime # t
  BY <1>1, <1>3 DEF Advance
<1>4. CASE ct_runtime = t
  <2>1. r = t + 1
    BY <1>4 DEF Advance
  <2>2. ASSUME NEW n \in Elems(g), ~(k[n.cp] >= EXECUTING) PROVE n.runtime >= r
    <3>1. n.runtime >= t /\ n.runtime \in Int
      BY <1>4, <2>2, ChainFacts DEF TimesOK
    <3>0. n \in Elems(ct_hash) /\ n.cp # ct_hash[p].cp
      OBVIOUS
    <3>2. PICK i \in DOMAIN ct_hash : ct_hash[i] = n
      BY <3>0 DEF Elems
    <3>3. i # p /\ i \in Int /\ p \in Int
      BY <1>1, <3>2, ChainFacts
    <3>4. ASSUME n.runtime = t PROVE FALSE
      <4>1. i \in DueAt(ct_hash, t)
        BY <2>2, <3>2, <3>4 DEF DueAt, Executing
      <4>2. i < p
        BY <3>3, <4>1
      <4> QED BY <1>1, <2>2, <3>2, <3>4, <4>2 DEF TimesOK, Executing
    <3> HIDE DEF t, r
    <3> QED BY <1>2, <2>1, <3>1, <3>4
  <2>3. r \in Int /\ r <= 1
    BY <1>2, <2>1
  <2> HIDE DEF r
  <2>4. TimesOK(g, k, r)
    BY <2>2, <2>3 DEF TimesOK
  <2> QED BY <2>3, <2>4 DEF r
<1> QED BY <1>3, <1>4

LEMMA ExecuteDoneKeeps ==
    ASSUME CalloutInv, NEW e \in Executors, ExecuteDone(e) PROVE CalloutInv'
<1> DEFINE s == ex[e].cp
           r == ex[e].runtime
           g == Without(s)
           k == [c_xid EXCEPT ![s] = 0]
           x == [ex EXCEPT ![e] = ExAt("idle")]
           u == Woken(un, s)
           free == <<s>> \o ct_freelist
           behind == {i \in DueAt(ct_hash, r) : i > Place(s)}
<1>1. /\ ex[e].pc = "call" /\ ct_hash' = g /\ ct_freelist' = free /\ un' = Broadcast(s)
      /\ IF behind # {}
         THEN Start(e, ct_hash[Min(behind)], k) /\ UNCHANGED ct_runtime
         ELSE Run(e, g, k, Advance(r))
      /\ UNCHANGED <<clk, cpr_stop_callout, ct_curtime, ct_short_id,
                     ct_long_id, id, alloc, ret, soft_vars>>
  BY DEF ExecuteDone, Free
<1>2. /\ Typed(ct_hash, c_xid, ex, id, ran, un) /\ ct_freelist \in Seq(Structs)
      /\ PartsOK(ct_hash, ct_freelist, c_xid, ex, ct_runtime, id, ran, ret, un)
      /\ ct_hash \in Seq(Entries) /\ ct_runtime \in Int /\ ct_curtime \in Int
      /\ ct_curtime <= 0
  BY InvParts
<1>3. PICK p \in DOMAIN ct_hash :
         ct_hash[p].cp = s /\ ct_hash[p].runtime = r /\ Place(s) = p
  BY <1>1, Called
<1>4. s \in Structs /\ Executing(s) /\ Calls(ex, e, s)
  BY <1>1, Called
<1>5. un' = u
  <2>1. DOMAIN un = Clients \cup Executors
    BY <1>2 DEF Typed
  <2> QED BY <1>1, <2>1 DEF Broadcast, Woken
<1>6. /\ g \in Seq(Entries) /\ Elems(g) = {n \in Elems(ct_hash) : n.cp # s}
      /\ \E f : Embeds(f, g, ct_hash)
  <2>1. g = [i \in 1..(Len(ct_hash) - 1) |-> ct_hash[IF i < p THEN i ELSE i + 1]]
    BY <1>3 DEF Without
  <2>2. \A i, j \in DOMAIN ct_hash : ct_hash[i].cp = ct_hash[j].cp => i = j
    BY <1>2 DEF PartsOK, StructsOK
  <2> HIDE DEF g, s
  <2>3. /\ g \in Seq(Entries) /\ Elems(g) = {n \in Elems(ct_hash) : n.cp # ct_hash[p].cp}
        /\ Embeds([i \in DOMAIN g |-> IF i < p THEN i ELSE i + 1], g, ct_hash)
    BY <1>2, <2>1, <2>2, Thinned
  <2> QED BY <1>3, <2>3
<1>7. /\ Typed(g, k, x, id, ran, u) /\ PartsOK(g, free, k, x, ct_runtime, id, ran, ret, u)
      /\ free \in Seq(Structs)
  <2> HIDE DEF g, s
  <2> QED BY <1>2, <1>4, <1>6, Finished
<1>8. \A n \in Elems(g) : k[n.cp] = c_xid[n.cp]
  <2>1. c_xid \in [Structs -> Ids] /\ \A n \in Elems(ct_hash) : n.cp \in Structs
    BY <1>2, ChainFacts DEF Typed
  <2> HIDE DEF g, s
  <2> QED BY <1>4, <1>6, <2>1
<1>9. /\ ct_runtime' \in Int /\ PartsOK(g, free, k, x, ct_runtime', id, ran, ret, u)
      /\ Stop(e, k) \/ \E j \in DOMAIN g : MayBegin(g, k, j) /\ Start(e, g[j], k)
  <2>1. CASE behind # {}
    <3>1. behind \in SUBSET Nat
      BY <1>2, ChainFacts DEF DueAt
    <3> DEFINE q == Min(behind)
    <3>2. q \in behind /\ \A i \in behind : q <= i
      <4> HIDE DEF behind
      <4> QED BY <2>1, <3>1, MinNat
    <3>3. /\ q \in DueAt(ct_hash, ct_hash[p].runtime) /\ q > p
          /\ \A i \in DueAt(ct_hash, ct_hash[p].runtime) : i > p => q <= i
      <4> HIDE DEF q
      <4> QED BY <1>3, <3>2
    <3>4. \E j \in DOMAIN g : g[j] = ct_hash[q] /\ MayBegin(g, k, j)
      <4> HIDE DEF q
      <4> QED BY <1>3, <1>4, <3>3, ScanOn
    <3>5. Start(e, ct_hash[q], k) /\ ct_runtime' = ct_runtime
      BY <1>1, <2>1
    <3> HIDE DEF q, g, k, x, u, free
    <3> QED BY <1>2, <1>7, <3>4, <3>5
  <2>2. CASE behind = {}
    <3>1. Run(e, g, k, Advance(r))
      BY <1>1, <2>2
    <3>2. TimesOK(g, k, ct_runtime)
      BY <1>7 DEF PartsOK
    <3>3. Advance(r) \in Int /\ TimesOK(g, k, Advance(r))
      <4>1. {i \in DueAt(ct_hash, ct_hash[p].runtime) : i > p} = {}
        BY <1>3, <2>2
      <4> HIDE DEF g, k
      <4> QED BY <1>3, <1>4, <1>6, <1>8, <3>2, <4>1, Advanced
    <3>4. /\ ct_runtime' \in Int /\ TimesOK(g, k, ct_runtime')
          /\ Stop(e, k) \/ \E j \in DOMAIN g : MayBegin(g, k, j) /\ Start(e, g[j], k)
      <4> HIDE DEF g, k, r
      <4> QED BY <1>2, <1>6, <1>8, <3>1, <3>3, Searched
    <3> HIDE DEF g, k, x, u, free
    <3> QED BY <1>7, <3>4 DEF PartsOK
  <2> QED BY <2>1, <2>2
<1>10. /\ Typed(g, c_xid', ex', id, ran', u) /\ ex' = [ex EXCEPT ![e] = ex'[e]]
       /\ PartsOK(g, free, c_xid', ex', ct_runtime', id, ran', ret, u)
  <2>1. ex \in [Executors -> ExTypes]
    BY <1>2 DEF Typed
  <2>2. x[e].pc # "call" /\ x = [ex EXCEPT ![e] = x[e]]
    BY <2>1 DEF ExAt
  <2> HIDE DEF g, k, x, u, free
  <2> QED BY <1>7, <1>9, <2>1, <2>2, Resumed
<1> HIDE DEF g, k, x, u, free, behind, r, s
<1> QED BY <1>1, <1>5, <1>7, <1>9, <1>10, ExecutorFrame

-----------------------------------------------------------------------------
(* What clients leave alone.                                               *)
LEMMA ClientFrame ==
    ASSUME CalloutInv, UNCHANGED <<clk, cpr_stop_callout, ct_curtime, ct_runtime, ex, soft_vars>>,
           Typed(ct_hash', c_xid', ex', id', ran', un'), ct_freelist' \in Seq(Structs),
           PartsOK(ct_hash', ct_freelist', c_xid', ex', ct_runtime', id', ran', ret', un'),
           Issued(ct_short_id', 1), Issued(ct_long_id', 3),
           ret' \in [Clients -> {TimeLeft, -1}], alloc' \in SUBSET Clients, ClientsOK'
    PROVE  CalloutInv'
<1>1. TypeOK'
  BY
  DEF CalloutInv, TypeOK, Typed, Entries, ExTypes, UnTypes, soft_vars, SoftTypeOK,
      Issued
<1>2. ct_curtime' <= 0 /\ SoftOK'
  BY DEF CalloutInv, SoftOK, soft_vars
<1> QED BY <1>1, <1>2 DEF CalloutInv, PartsOK

LEMMA IssuedNow ==
    ASSUME CalloutInv PROVE Issued(ct_short_id, 1) /\ Issued(ct_long_id, 3)
BY DEF CalloutInv, TypeOK, Issued

(* The id of an entry is its client's: EXECUTING tells pending from called.*)
LEMMA EntryId ==
    ASSUME CalloutInv, NEW n \in Elems(ct_hash)
    PROVE  /\ n.arg \in Clients /\ n.cp \in Structs /\ id[n.arg] # 0
           /\ id[n.arg] \in Int /\ id[n.arg] >= 0 /\ id[n.arg] < EXECUTING /\ EXECUTING \in Nat
           /\ c_xid[n.cp] = IF Executing(n.cp) THEN id[n.arg] + EXECUTING ELSE id[n.arg]
<1>1. n.arg \in Clients /\ n.cp \in Structs
  BY InvParts, ChainFacts
<1>2. id[n.arg] # 0 /\ c_xid[n.cp] \in {id[n.arg], id[n.arg] + EXECUTING}
  BY InvParts DEF PartsOK, IdsOK
<1>3. id[n.arg] \in Int /\ id[n.arg] >= 0 /\ id[n.arg] < EXECUTING /\ EXECUTING \in Nat
  <2>1. id[n.arg] \in Ids
    BY <1>1, InvParts DEF Typed
  <2> QED BY <1>1, <2>1, IdsInt, Constants DEF CalloutInv, ClientsOK
<1>4. c_xid[n.cp] = IF Executing(n.cp) THEN id[n.arg] + EXECUTING ELSE id[n.arg]
  BY <1>2, <1>3 DEF Executing
<1> QED BY <1>1, <1>2, <1>3, <1>4

(* A structure that is marked is hashed.                                   *)
LEMMA MarkedHashed ==
    ASSUME CalloutInv, NEW s \in Structs, Executing(s)
    PROVE  \E n \in Elems(ct_hash) : n.cp = s
<1>1. ExecOK(ct_hash, c_xid, ex)
  BY InvParts DEF PartsOK
<1>2. PICK e \in Executors : Calls(ex, e, s)
  BY <1>1 DEF ExecOK, Executing
<1> QED BY <1>1, <1>2 DEF ExecOK, Calls

LEMMA Armed ==
    ASSUME CalloutInv, NEW c \in Clients, id[c] = 0, NEW delta \in Deltas, NEW s \in Structs,
           \A n \in Elems(ct_hash) : n.cp # s, Arm(c, s, delta),
           ct_freelist' \in Seq(Structs), NoDup(ct_freelist'), s \notin Elems(ct_freelist'),
           Elems(ct_freelist') \subseteq Elems(ct_freelist), alloc' = alloc \ {c}
    PROVE  CalloutInv'
<1> DEFINE d == AtLeastOne(delta)
           new == NextId(IF d > LONGTERM_TICKS THEN ct_long_id ELSE ct_short_id)
           n == [cp |-> s, runtime |-> lbolt + d, arg |-> c]
<1>1. /\ \A k \in Clients : id[k] # new
      /\ \/ ct_long_id' = new /\ ct_short_id' = ct_short_id /\ new = NextId(ct_long_id)
         \/ ct_short_id' = new /\ ct_long_id' = ct_long_id /\ new = NextId(ct_short_id)
      /\ c_xid' = [c_xid EXCEPT ![s] = new] /\ ct_hash' = <<n>> \o ct_hash
      /\ id' = [id EXCEPT ![c] = new] /\ ran' = [ran EXCEPT ![c] = 0]
      /\ ret' = [ret EXCEPT ![c] = TimeLeft]
      /\ UNCHANGED <<clk, cpr_stop_callout, ct_curtime, ct_runtime, ex, un, soft_vars>>
  BY DEF Arm
<1>2. n \in Entries /\ n.cp = s /\ n.arg = c /\ n.runtime \in Int /\ n.runtime >= 1
  <2>1. delta \in Int
    BY CalloutAssumption
  <2>2. d \in Int /\ d >= 1 /\ lbolt + d = d
    BY <2>1 DEF AtLeastOne, lbolt
  <2> HIDE DEF d
  <2> QED BY <2>2 DEF Entries
<1>3. /\ Typed(ct_hash, c_xid, ex, id, ran, un)
      /\ PartsOK(ct_hash, ct_freelist, c_xid, ex, ct_runtime, id, ran, ret, un)
      /\ ct_hash \in Seq(Entries) /\ ct_runtime \in Int
  BY InvParts
<1>4. /\ Issued(ct_short_id', 1) /\ Issued(ct_long_id', 3)
      /\ new \in Ids /\ new < EXECUTING /\ new # 0 /\ new \in Int /\ EXECUTING \in Nat
  <2> HIDE DEF new
  <2>1. COUNTER_HIGH > 0 /\ COUNTER_HIGH \in Nat /\ EXECUTING \in Nat
    BY Constants
  <2>2. CASE new = NextId(ct_long_id) /\ ct_long_id' = new /\ ct_short_id' = ct_short_id
    <3>1. Issued(new, 3) /\ new >= COUNTER_HIGH /\ new < EXECUTING
      BY <2>2, IssuedNow, NextIdIssued
    <3> QED BY <2>1, <2>2, <3>1, IssuedNow, IdsInt DEF Issued
  <2>3. CASE new = NextId(ct_short_id) /\ ct_short_id' = new /\ ct_long_id' = ct_long_id
    <3>1. Issued(new, 1) /\ new >= COUNTER_HIGH /\ new < EXECUTING
      BY <2>3, IssuedNow, NextIdIssued
    <3> QED BY <2>1, <2>3, <3>1, IssuedNow, IdsInt DEF Issued
  <2> QED BY <1>1, <2>2, <2>3
<1> HIDE DEF new, n, d
<1>5. /\ ct_hash' \in Seq(Entries) /\ DOMAIN ct_hash' = 1..(Len(ct_hash) + 1)
      /\ ct_hash'[1] = n /\ \A i \in 1..Len(ct_hash) : ct_hash'[i + 1] = ct_hash[i]
      /\ Elems(ct_hash') = {n} \cup Elems(ct_hash)
  BY <1>1, <1>2, <1>3, Pushed
<1>6. \A i \in DOMAIN ct_hash' :
         i \in Int /\ (i = 1 \/ (i - 1 \in DOMAIN ct_hash /\ ct_hash'[i] = ct_hash[i - 1]))
  <2>1. Len(ct_hash) \in Nat /\ DOMAIN ct_hash = 1..Len(ct_hash)
    BY <1>3, ChainFacts
  <2>2. ASSUME NEW i \in DOMAIN ct_hash', i # 1 PROVE i - 1 \in 1..Len(ct_hash) /\ (i - 1) + 1 = i
    BY <1>5, <2>1, <2>2
  <2> QED BY <1>5, <2>1, <2>2
<1>7. \A m \in Elems(ct_hash) : m.arg # c /\ m.arg \in Clients /\ m.cp \in Structs /\ m.cp # s
  BY EntryId
<1>8. \A i \in DOMAIN ct_hash : ct_hash[i] \in Elems(ct_hash)
  BY DEF Elems
<1>9. ~(c_xid[s] >= EXECUTING)
  BY MarkedHashed DEF Executing
<1>10. /\ c_xid' \in [Structs -> Ids] /\ c_xid'[s] = new /\ ~(new >= EXECUTING)
       /\ \A m \in Structs \ {s} : c_xid'[m] = c_xid[m]
  <2>1. c_xid \in [Structs -> Ids]
    BY <1>3 DEF Typed
  <2> QED BY <1>1, <1>4, <2>1
<1>11. /\ id' \in [Clients -> Ids] /\ id'[c] = new /\ \A k \in Clients \ {c} : id'[k] = id[k]
       /\ ran' \in [Clients -> 0..1] /\ ran'[c] = 0 /\ \A k \in Clients \ {c} : ran'[k] = ran[k]
  <2>1. id \in [Clients -> Ids] /\ ran \in [Clients -> 0..1]
    BY <1>3 DEF Typed
  <2> QED BY <1>1, <1>4, <2>1
<1>12. ret' \in [Clients -> {TimeLeft, -1}] /\ \A k \in Clients \ {c} : ret'[k] = ret[k]
  <2>1. ret \in [Clients -> {TimeLeft, -1}]
    BY DEF CalloutInv, TypeOK
  <2> QED BY <1>1, <2>1
<1>13. Typed(ct_hash', c_xid', ex', id', ran', un')
  BY <1>1, <1>3, <1>5, <1>10, <1>11 DEF Typed
<1>14. StructsOK(ct_hash', ct_freelist')
  <2>1. ASSUME NEW i \in DOMAIN ct_hash', NEW j \in DOMAIN ct_hash',
               ct_hash'[i].cp = ct_hash'[j].cp
        PROVE  i = j
    <3>1. CASE i = 1 \/ j = 1
      BY <1>2, <1>5, <1>6, <1>7, <1>8, <2>1, <3>1
    <3>2. CASE i # 1 /\ j # 1
      <4>1. i - 1 = j - 1
        BY <1>3, <1>6, <2>1, <3>2 DEF PartsOK, StructsOK
      <4> QED BY <1>6, <4>1
    <3> QED BY <3>1, <3>2
  <2>2. \A m \in Elems(ct_hash') : m.cp \notin Elems(ct_freelist')
    BY <1>2, <1>3, <1>5 DEF PartsOK, StructsOK
  <2> QED BY <2>1, <2>2 DEF StructsOK
<1>15. ExecOK(ct_hash', c_xid', ex')
  <2>1. \A m \in Structs : c_xid'[m] >= EXECUTING <=> c_xid[m] >= EXECUTING
    BY <1>9, <1>10
  <2>2. \A e \in Executors : ex[e].pc = "call" =>
           \E m \in Elems(ct_hash') : m.cp = ex[e].cp /\ m.runtime = ex[e].runtime
    BY <1>3, <1>5 DEF PartsOK, ExecOK
  <2> QED BY <1>1, <1>3, <2>1, <2>2 DEF PartsOK, ExecOK
<1>16. TimesOK(ct_hash', c_xid', ct_runtime')
  <2>0. ct_runtime <= 1 /\ ct_runtime' = ct_runtime
    BY <1>1, <1>3 DEF PartsOK, TimesOK
  <2>1. ASSUME NEW m \in Elems(ct_hash')
        PROVE  IF c_xid'[m.cp] >= EXECUTING THEN m.runtime <= 0 ELSE m.runtime >= ct_runtime
    <3>1. CASE m = n
      <4>1. n.runtime >= ct_runtime
        BY <1>2, <1>3, <2>0
      <4> QED BY <1>2, <1>10, <3>1, <4>1
    <3>2. CASE m \in Elems(ct_hash)
      <4>1. c_xid'[m.cp] = c_xid[m.cp]
        BY <1>7, <1>10, <3>2
      <4> QED BY <1>3, <3>2, <4>1 DEF PartsOK, TimesOK
    <3> QED BY <1>5, <3>1, <3>2
  <2>2. ASSUME NEW i \in DOMAIN ct_hash', NEW j \in DOMAIN ct_hash', i < j,
               ct_hash'[i].runtime = ct_hash'[j].runtime,
               c_xid'[ct_hash'[j].cp] >= EXECUTING
        PROVE  c_xid'[ct_hash'[i].cp] >= EXECUTING
    <3>1. j # 1
      BY <1>2, <1>5, <1>10, <2>2
    <3>2. ct_hash'[j] \in Elems(ct_hash) /\ ct_hash'[j].runtime <= 0
      <4>1. ct_hash'[j] \in Elems(ct_hash)
        BY <1>6, <1>8, <3>1
      <4> QED BY <1>5, <2>1, <2>2, <4>1
    <3>3. i # 1
      BY <1>2, <1>5, <2>2, <3>2
    <3>4. /\ i - 1 \in DOMAIN ct_hash /\ j - 1 \in DOMAIN ct_hash /\ i - 1 < j - 1
          /\ ct_hash'[i] = ct_hash[i - 1] /\ ct_hash'[j] = ct_hash[j - 1]
      BY <1>6, <2>2, <3>1, <3>3
    <3>5. /\ c_xid'[ct_hash'[i].cp] = c_xid[ct_hash'[i].cp]
          /\ c_xid'[ct_hash'[j].cp] = c_xid[ct_hash'[j].cp]
      BY <1>7, <1>8, <1>10, <3>4
    <3>6. c_xid[ct_hash[i - 1].cp] >= EXECUTING
      BY <1>3, <2>2, <3>4, <3>5 DEF PartsOK, TimesOK
    <3> QED BY <3>4, <3>5, <3>6
  <2> QED BY <2>0, <2>1, <2>2 DEF TimesOK
<1>17. IdsOK(ct_hash', c_xid', id')
  <2>1. ASSUME NEW m \in Elems(ct_hash')
        PROVE  id'[m.arg] # 0 /\ c_xid'[m.cp] \in {id'[m.arg], id'[m.arg] + EXECUTING}
    <3>1. CASE m = n
      BY <1>2, <1>4, <1>10, <1>11, <3>1
    <3>2. CASE m \in Elems(ct_hash)
      BY <1>3, <1>7, <1>10, <1>11, <3>2 DEF PartsOK, IdsOK
    <3> QED BY <1>5, <3>1, <3>2
  <2>2. ASSUME NEW i \in DOMAIN ct_hash', NEW j \in DOMAIN ct_hash',
               ct_hash'[i].arg = ct_hash'[j].arg
        PROVE  i = j
    <3>1. CASE i = 1 \/ j = 1
      BY <1>2, <1>5, <1>6, <1>7, <1>8, <2>2, <3>1
    <3>2. CASE i # 1 /\ j # 1
      <4>1. i - 1 = j - 1
        BY <1>3, <1>6, <2>2, <3>2 DEF PartsOK, IdsOK
      <4> QED BY <1>6, <4>1
    <3> QED BY <3>1, <3>2
  <2> QED BY <2>1, <2>2 DEF IdsOK
<1>18. RanOK(ct_hash', c_xid', id', ran', ret')
  <2>1. ASSUME NEW m \in Elems(ct_hash')
        PROVE  ran'[m.arg] = IF c_xid'[m.cp] >= EXECUTING THEN 1 ELSE 0
    <3>1. CASE m = n
      BY <1>2, <1>10, <1>11, <3>1
    <3>2. CASE m \in Elems(ct_hash)
      <4>1. c_xid'[m.cp] = c_xid[m.cp] /\ ran'[m.arg] = ran[m.arg]
        BY <1>7, <1>10, <1>11, <3>2
      <4> QED BY <1>3, <3>2, <4>1 DEF PartsOK, RanOK
    <3> QED BY <1>5, <3>1, <3>2
  <2>2. ASSUME NEW k \in Clients, id'[k] # 0
        PROVE  ran'[k] = 1 \/ \E m \in Elems(ct_hash') : m.arg = k
    <3>1. CASE k = c
      BY <1>2, <1>5, <3>1
    <3>2. CASE k # c
      BY <1>3, <1>5, <1>11, <2>2, <3>2 DEF PartsOK, RanOK
    <3> QED BY <3>1, <3>2
  <2>3. ASSUME NEW k \in Clients, id'[k] = 0 PROVE ret'[k] = -1 <=> ran'[k] = 1
    <3>1. k # c
      BY <1>4, <1>11, <2>3
    <3> QED BY <1>3, <1>11, <1>12, <2>3, <3>1 DEF PartsOK, RanOK
  <2> QED BY <2>1, <2>2, <2>3 DEF RanOK
<1>19. WaitsOK(ct_hash', c_xid', id', un')
  <2>1. ASSUME NEW k \in Clients, un[k].pc # "no"
        PROVE  /\ id'[k] # 0 /\ un[k].cp \in Structs /\ un[k].xid = id'[k] + EXECUTING
               /\ \A m \in Elems(ct_hash') : m.arg = k =>
                     m.cp = un[k].cp /\ c_xid'[m.cp] = un[k].xid
               /\ un[k].pc = "sleep" => \E m \in Elems(ct_hash') : m.arg = k
    <3>1. /\ id[k] # 0 /\ un[k].cp \in Structs /\ un[k].xid = id[k] + EXECUTING
          /\ \A m \in Elems(ct_hash) : m.arg = k => m.cp = un[k].cp /\ c_xid[m.cp] = un[k].xid
          /\ un[k].pc = "sleep" => \E m \in Elems(ct_hash) : m.arg = k
      BY <1>3, <2>1 DEF PartsOK, WaitsOK
    <3>2. k # c
      BY <3>1
    <3> QED BY <1>2, <1>5, <1>7, <1>10, <1>11, <3>1, <3>2
  <2>2. un' = un
    BY <1>1
  <2>3. \A e \in Executors : un[e].pc = "no"
    BY <1>3 DEF PartsOK, WaitsOK
  <2> QED BY <2>1, <2>2, <2>3 DEF WaitsOK
<1>20. ClientsOK'
  <2>1. ASSUME NEW j \in Clients, NEW k \in Clients, id'[j] = id'[k]
        PROVE  j = k \/ id'[j] = 0
    BY <1>1, <1>11, <2>1 DEF CalloutInv, ClientsOK
  <2>2. \A k \in Clients : id'[k] < EXECUTING
    BY <1>4, <1>11 DEF CalloutInv, ClientsOK
  <2>3. \A k \in alloc' : id'[k] = 0
    BY <1>11 DEF CalloutInv, ClientsOK, TypeOK
  <2> QED BY <2>1, <2>2, <2>3 DEF ClientsOK
<1>21. alloc' \in SUBSET Clients
  BY DEF CalloutInv, TypeOK
<1> QED
  BY <1>1, <1>4, <1>12, <1>13, <1>14, <1>15, <1>16, <1>17, <1>18, <1>19, <1>20,
     <1>21,
           ClientFrame DEF PartsOK

LEMMA TimeoutKeeps ==
    ASSUME CalloutInv, NEW c \in Clients, NEW delta \in Deltas, timeout(c, delta)
    PROVE  CalloutInv'
<1> DEFINE s == Head(ct_freelist)
<1>1. /\ id[c] = 0 /\ c \notin alloc /\ ct_freelist # <<>> /\ Arm(c, s, delta)
      /\ ct_freelist' = Tail(ct_freelist) /\ alloc' = alloc
  BY DEF timeout
<1>2. ct_freelist \in Seq(Structs) /\ StructsOK(ct_hash, ct_freelist)
  BY InvParts DEF PartsOK
<1>3. Len(ct_freelist) > 0 /\ NoDup(ct_freelist)
  BY <1>1, <1>2 DEF StructsOK
<1>4. /\ s \in Structs /\ s \in Elems(ct_freelist) /\ ct_freelist' \in Seq(Structs)
      /\ Elems(ct_freelist') = Elems(ct_freelist) \ {s} /\ NoDup(ct_freelist')
  BY <1>1, <1>2, <1>3, TailQueue
<1>5. \A n \in Elems(ct_hash) : n.cp # s
  BY <1>2, <1>4 DEF StructsOK
<1>6. alloc' = alloc \ {c}
  BY <1>1
<1> HIDE DEF s
<1> QED BY <1>1, <1>4, <1>5, <1>6, Armed

LEMMA TimeoutFreshKeeps ==
    ASSUME CalloutInv, NEW c \in Clients, NEW delta \in Deltas, timeout_fresh(c, delta)
    PROVE  CalloutInv'
<1>1. PICK s \in Fresh : Arm(c, s, delta)
  BY DEF timeout_fresh
<1>2. c \in alloc /\ alloc' = alloc \ {c} /\ ct_freelist' = ct_freelist
  BY DEF timeout_fresh
<1>3. id[c] = 0
  BY <1>2 DEF CalloutInv, ClientsOK
<1>4. ct_freelist \in Seq(Structs) /\ StructsOK(ct_hash, ct_freelist)
  BY InvParts DEF PartsOK
<1>5. s \in Structs /\ s \notin Elems(ct_freelist)
  BY <1>1 DEF Fresh, Range, Elems
<1>6. \A n \in Elems(ct_hash) : n.cp # s
  BY <1>1 DEF Fresh, Hashed, Elems
<1> QED BY <1>1, <1>2, <1>3, <1>4, <1>5, <1>6, Armed DEF StructsOK

LEMMA AllocKeeps ==
    ASSUME CalloutInv, NEW c \in Clients, callout_alloc(c) PROVE CalloutInv'
<1>1. /\ id[c] = 0 /\ alloc' = alloc \cup {c}
      /\ UNCHANGED <<clk, cpr_stop_callout, ct_vars, ex, un, id, ran, ret, soft_vars>>
  BY DEF callout_alloc
<1>2. ClientsOK' /\ alloc' \in SUBSET Clients
  BY <1>1 DEF CalloutInv, ClientsOK, TypeOK
<1>3. ret \in [Clients -> {TimeLeft, -1}]
  BY DEF CalloutInv, TypeOK
<1> QED BY <1>1, <1>2, <1>3, InvParts, IssuedNow, ClientFrame DEF ct_vars

(* untimeout() returns v to client c, whose callout is not hashed any more *)
(* and ran just if v is -1.                                                *)
LEMMA Forgotten ==
    ASSUME CalloutInv, NEW c \in Clients, NEW v \in {TimeLeft, -1}, v = -1 <=> ran[c] = 1,
           Return(c, v), ct_hash' \in Seq(Entries),
           Elems(ct_hash') = {n \in Elems(ct_hash) : n.arg # c},
           \A i, j \in DOMAIN ct_hash' : ct_hash'[i].arg = ct_hash'[j].arg => i = j,
           StructsOK(ct_hash', ct_freelist'), ExecOK(ct_hash', c_xid, ex),
           TimesOK(ct_hash', c_xid, ct_runtime), ct_freelist' \in Seq(Structs),
           UNCHANGED <<clk, cpr_stop_callout, ct_curtime, ct_runtime, ct_short_id, ct_long_id,
                       c_xid, ex, alloc, ran, soft_vars>>
    PROVE  CalloutInv'
<1>1. /\ un' = [un EXCEPT ![c] = NotIn] /\ id' = [id EXCEPT ![c] = 0]
      /\ ret' = [ret EXCEPT ![c] = v]
  BY DEF Return
<1>2. /\ Typed(ct_hash, c_xid, ex, id, ran, un)
      /\ PartsOK(ct_hash, ct_freelist, c_xid, ex, ct_runtime, id, ran, ret, un)
  BY InvParts
<1>3. 0 \in Ids /\ 0 < EXECUTING
  BY Constants
<1>4. /\ id' \in [Clients -> Ids] /\ id'[c] = 0 /\ \A k \in Clients \ {c} : id'[k] = id[k]
      /\ un' \in [Clients \cup Executors -> UnTypes] /\ un'[c].pc = "no"
      /\ \A t \in (Clients \cup Executors) \ {c} : un'[t] = un[t]
  <2>1. id \in [Clients -> Ids] /\ un \in [Clients \cup Executors -> UnTypes]
    BY <1>2 DEF Typed
  <2>2. NotIn \in UnTypes /\ NotIn.pc = "no"
    BY <1>3 DEF NotIn, UnTypes
  <2> HIDE DEF NotIn
  <2> QED BY <1>1, <1>3, <2>1, <2>2
<1>5. /\ ret' \in [Clients -> {TimeLeft, -1}] /\ ret'[c] = v
      /\ \A k \in Clients \ {c} : ret'[k] = ret[k]
  <2>1. ret \in [Clients -> {TimeLeft, -1}]
    BY DEF CalloutInv, TypeOK
  <2> QED BY <1>1, <2>1
<1>6. Typed(ct_hash', c_xid', ex', id', ran', un')
  BY <1>2, <1>4 DEF Typed
<1>7. \A n \in Elems(ct_hash') : n \in Elems(ct_hash) /\ n.arg \in Clients /\ n.arg # c
  BY EntryId
<1>8. IdsOK(ct_hash', c_xid, id')
  BY <1>2, <1>4, <1>7 DEF PartsOK, IdsOK
<1>9. RanOK(ct_hash', c_xid, id', ran, ret')
  <2>1. \A n \in Elems(ct_hash') : ran[n.arg] = IF c_xid[n.cp] >= EXECUTING THEN 1 ELSE 0
    BY <1>2, <1>7 DEF PartsOK, RanOK
  <2>2. \A k \in Clients : id'[k] # 0 => ran[k] = 1 \/ \E n \in Elems(ct_hash') : n.arg = k
    BY <1>2, <1>4 DEF PartsOK, RanOK
  <2>3. \A k \in Clients : id'[k] = 0 => (ret'[k] = -1 <=> ran[k] = 1)
    BY <1>2, <1>4, <1>5 DEF PartsOK, RanOK
  <2> QED BY <2>1, <2>2, <2>3 DEF RanOK
<1>10. WaitsOK(ct_hash', c_xid, id', un')
  <2>1. ASSUME NEW k \in Clients, un'[k].pc # "no"
        PROVE  /\ id'[k] # 0 /\ un'[k].cp \in Structs /\ un'[k].xid = id'[k] + EXECUTING
               /\ \A n \in Elems(ct_hash') : n.arg = k =>
                     n.cp = un'[k].cp /\ c_xid[n.cp] = un'[k].xid
               /\ un'[k].pc = "sleep" => \E n \in Elems(ct_hash') : n.arg = k
    <3>1. k # c /\ un'[k] = un[k] /\ id'[k] = id[k]
      BY <1>4, <2>1
    <3>2. /\ id[k] # 0 /\ un[k].cp \in Structs /\ un[k].xid = id[k] + EXECUTING
          /\ \A n \in Elems(ct_hash) : n.arg = k => n.cp = un[k].cp /\ c_xid[n.cp] = un[k].xid
          /\ un[k].pc = "sleep" => \E n \in Elems(ct_hash) : n.arg = k
      BY <1>2, <2>1, <3>1 DEF PartsOK, WaitsOK
    <3> QED BY <1>7, <3>1, <3>2
  <2>2. \A e \in Executors : un'[e].pc = "no"
    BY <1>2, <1>4 DEF PartsOK, WaitsOK
  <2> QED BY <2>1, <2>2 DEF WaitsOK
<1>11. ClientsOK'
  <2>1. ASSUME NEW j \in Clients, NEW k \in Clients, id'[j] = id'[k]
        PROVE  j = k \/ id'[j] = 0
    BY <1>4, <2>1 DEF CalloutInv, ClientsOK
  <2>2. \A k \in Clients : id'[k] < EXECUTING
    BY <1>3, <1>4 DEF CalloutInv, ClientsOK
  <2>3. \A k \in alloc' : id'[k] = 0
    BY <1>4 DEF CalloutInv, ClientsOK, TypeOK
  <2> QED BY <2>1, <2>2, <2>3 DEF ClientsOK
<1>12. Issued(ct_short_id', 1) /\ Issued(ct_long_id', 3) /\ alloc' \in SUBSET Clients
  BY IssuedNow DEF CalloutInv, TypeOK
<1>13. PartsOK(ct_hash', ct_freelist', c_xid', ex', ct_runtime', id', ran', ret', un')
  BY <1>8, <1>9, <1>10 DEF PartsOK
<1> QED BY <1>5, <1>6, <1>11, <1>12, <1>13, ClientFrame

(* A client's callout is found by its id, and marked just if it has run.   *)
LEMMA Found ==
    ASSUME CalloutInv, NEW c \in Clients, id[c] # 0, NEW n \in Elems(ct_hash)
    PROVE  /\ c_xid[n.cp] = id[c] <=> n.arg = c /\ ~Executing(n.cp)
           /\ c_xid[n.cp] = id[c] + EXECUTING <=> n.arg = c /\ Executing(n.cp)
<1>1. /\ n.arg \in Clients /\ id[n.arg] \in Int /\ id[n.arg] >= 0 /\ id[n.arg] < EXECUTING
      /\ EXECUTING \in Nat
      /\ c_xid[n.cp] = IF Executing(n.cp) THEN id[n.arg] + EXECUTING ELSE id[n.arg]
  BY EntryId
<1>2. id[c] \in Int /\ id[c] >= 0 /\ id[c] < EXECUTING
  <2>1. id[c] \in Ids
    BY InvParts DEF Typed
  <2> QED BY <2>1, IdsInt DEF CalloutInv, ClientsOK
<1>3. id[n.arg] = id[c] => n.arg = c
  BY <1>1 DEF CalloutInv, ClientsOK
<1> QED BY <1>1, <1>2, <1>3

(* The mark names the executor that is inside the handler.                 *)
LEMMA ExecutorIs ==
    ASSUME CalloutInv, NEW s \in Structs, Executing(s)
    PROVE  /\ c_executor(s) \in Executors /\ Calls(ex, c_executor(s), s)
           /\ \A e \in Executors : Calls(ex, e, s) => e = c_executor(s)
<1>1. ExecOK(ct_hash, c_xid, ex)
  BY InvParts DEF PartsOK
<1>2. \E e \in Executors : ex[e].pc = "call" /\ ex[e].cp = s
  BY <1>1 DEF ExecOK, Executing, Calls
<1>3. c_executor(s) \in Executors /\ Calls(ex, c_executor(s), s)
  BY <1>2 DEF c_executor, Calls
<1> QED BY <1>1, <1>3 DEF ExecOK, Calls

LEMMA ClientsApart == \A c \in Clients : c \notin Executors
BY CalloutAssumption DEF Executors

(* untimeout() removes the pending callout of a client.                    *)
LEMMA Removed ==
    ASSUME CalloutInv, NEW c \in Clients, id[c] # 0, NEW n \in Elems(ct_hash),
           c_xid[n.cp] = id[c], Free(n.cp), Return(c, TimeLeft),
           UNCHANGED <<clk, cpr_stop_callout, ct_curtime, ct_runtime, ct_short_id, ct_long_id,
                       c_xid, ex, alloc, ran, soft_vars>>
    PROVE  CalloutInv'
<1> DEFINE g == Without(n.cp)
           s == n.cp
<1>1. /\ Typed(ct_hash, c_xid, ex, id, ran, un)
      /\ PartsOK(ct_hash, ct_freelist, c_xid, ex, ct_runtime, id, ran, ret, un)
      /\ ct_freelist \in Seq(Structs) /\ ct_hash \in Seq(Entries)
  BY InvParts
<1>2. n.arg = c /\ ~Executing(s) /\ s \in Structs
  BY Found, EntryId
<1>3. PICK p \in DOMAIN ct_hash : ct_hash[p] = n
  BY DEF Elems
<1>4. g = [i \in 1..(Len(ct_hash) - 1) |-> ct_hash[IF i < p THEN i ELSE i + 1]]
  <2>1. Place(s) = p
    BY <1>1, <1>3, PlaceIs DEF PartsOK, StructsOK
  <2> QED BY <2>1 DEF Without
<1>5. ct_hash' = g /\ ct_freelist' = <<s>> \o ct_freelist
  BY DEF Free
<1> DEFINE f == [i \in DOMAIN g |-> IF i < p THEN i ELSE i + 1]
<1>6. /\ g \in Seq(Entries) /\ Elems(g) = {m \in Elems(ct_hash) : m.cp # s}
      /\ Embeds(f, g, ct_hash)
  <2>1. \A i, j \in DOMAIN ct_hash : ct_hash[i].cp = ct_hash[j].cp => i = j
    BY <1>1 DEF PartsOK, StructsOK
  <2> HIDE DEF g, s
  <2>2. /\ g \in Seq(Entries) /\ Elems(g) = {m \in Elems(ct_hash) : m.cp # ct_hash[p].cp}
        /\ Embeds([i \in DOMAIN g |-> IF i < p THEN i ELSE i + 1], g, ct_hash)
    BY <1>1, <1>4, <2>1, Thinned
  <2> QED BY <1>3, <2>2 DEF s
<1> HIDE DEF g, f
<1>7. StructsOK(g, ct_freelist') /\ ct_freelist' \in Seq(Structs)
  BY <1>1, <1>2, <1>5, <1>6, FreedStructs DEF PartsOK
<1>8. TimesOK(g, c_xid, ct_runtime)
  BY <1>1, <1>6, ThinnedOrder DEF PartsOK
<1>9. ExecOK(g, c_xid, ex)
  <2>1. ASSUME NEW e \in Executors, ex[e].pc = "call"
        PROVE  \E m \in Elems(g) : m.cp = ex[e].cp /\ m.runtime = ex[e].runtime
    <3>1. PICK m \in Elems(ct_hash) : m.cp = ex[e].cp /\ m.runtime = ex[e].runtime
      BY <1>1, <2>1 DEF PartsOK, ExecOK
    <3>2. c_xid[m.cp] >= EXECUTING
      BY <1>1, <2>1, <3>1, EntryId DEF PartsOK, ExecOK, Calls
    <3>3. m.cp # s
      BY <1>2, <3>2 DEF Executing
    <3> QED BY <1>6, <3>1, <3>3
  <2> QED BY <1>1, <2>1 DEF PartsOK, ExecOK
<1>10. Elems(g) = {m \in Elems(ct_hash) : m.arg # c}
  <2>1. \A m \in Elems(ct_hash) : m.arg = c <=> m.cp = s
    BY <1>1, <1>2 DEF PartsOK, IdsOK, StructsOK, Elems
  <2> QED BY <1>6, <2>1
<1>11. \A i, j \in DOMAIN g : g[i].arg = g[j].arg => i = j
  <2> SUFFICES ASSUME NEW i \in DOMAIN g, NEW j \in DOMAIN g, g[i].arg = g[j].arg
               PROVE  i = j
    OBVIOUS
  <2>1. f[i] = f[j]
    BY <1>1, <1>6 DEF PartsOK, IdsOK, Embeds
  <2> QED BY <1>1, <1>6, <2>1, EmbedOnce
<1>12. ran[c] = 0
  BY <1>1, <1>2 DEF PartsOK, RanOK, Executing
<1>13. TimeLeft # -1
  BY DEF TimeLeft
<1> QED BY <1>5, <1>6, <1>7, <1>8, <1>9, <1>10, <1>11, <1>12, <1>13, Forgotten

(* untimeout() returns -1 to a client whose callout is not hashed.         *)
LEMMA NotFound ==
    ASSUME CalloutInv, NEW c \in Clients, id[c] # 0, \A n \in Elems(ct_hash) : n.arg # c,
           Return(c, -1),
           UNCHANGED <<clk, cpr_stop_callout, ct_vars, ex, alloc, ran, soft_vars>>
    PROVE  CalloutInv'
<1>1. /\ PartsOK(ct_hash, ct_freelist, c_xid, ex, ct_runtime, id, ran, ret, un)
      /\ ct_freelist \in Seq(Structs) /\ ct_hash \in Seq(Entries)
  BY InvParts
<1>2. ran[c] = 1
  BY <1>1 DEF PartsOK, RanOK
<1>3. ct_hash' = ct_hash /\ ct_freelist' = ct_freelist
  BY DEF ct_vars
<1>4. /\ StructsOK(ct_hash', ct_freelist') /\ ExecOK(ct_hash', c_xid, ex)
      /\ TimesOK(ct_hash', c_xid, ct_runtime)
      /\ \A i, j \in DOMAIN ct_hash' : ct_hash'[i].arg = ct_hash'[j].arg => i = j
  BY <1>1, <1>3 DEF PartsOK, IdsOK
<1>5. Elems(ct_hash') = {n \in Elems(ct_hash) : n.arg # c}
  BY <1>3
<1> QED BY <1>1, <1>2, <1>3, <1>4, <1>5, Forgotten DEF ct_vars

(* A client goes to sleep, or back to sleep, while its callout is called.  *)
LEMMA Waits ==
    ASSUME CalloutInv, NEW c \in Clients, id[c] # 0, NEW n \in Elems(ct_hash), n.arg = c,
           Executing(n.cp), NEW w, w = [pc |-> "sleep", cp |-> n.cp, xid |-> id[c] + EXECUTING],
           un' = [un EXCEPT ![c] = w],
           UNCHANGED <<clk, cpr_stop_callout, ct_vars, ex, id, alloc, ran, ret, soft_vars>>
    PROVE  CalloutInv'
<1>1. /\ Typed(ct_hash, c_xid, ex, id, ran, un)
      /\ PartsOK(ct_hash, ct_freelist, c_xid, ex, ct_runtime, id, ran, ret, un)
      /\ ct_freelist \in Seq(Structs)
  BY InvParts
<1>2. n.cp \in Structs /\ c_xid[n.cp] = id[c] + EXECUTING
  BY EntryId
<1>3. /\ un' \in [Clients \cup Executors -> UnTypes] /\ un'[c] = w
      /\ \A t \in (Clients \cup Executors) \ {c} : un'[t] = un[t]
  <2>1. c_xid[n.cp] \in Ids /\ un \in [Clients \cup Executors -> UnTypes]
    BY <1>1, <1>2 DEF Typed
  <2>2. w \in UnTypes
    BY <1>2, <2>1 DEF UnTypes
  <2> QED BY <2>1, <2>2
<1>4. \A m \in Elems(ct_hash) : m.arg = c => m = n
  BY <1>1 DEF PartsOK, IdsOK, Elems
<1>5. WaitsOK(ct_hash, c_xid, id, un')
  <2>1. ASSUME NEW k \in Clients, un'[k].pc # "no"
        PROVE  /\ id[k] # 0 /\ un'[k].cp \in Structs /\ un'[k].xid = id[k] + EXECUTING
               /\ \A m \in Elems(ct_hash) : m.arg = k =>
                     m.cp = un'[k].cp /\ c_xid[m.cp] = un'[k].xid
               /\ un'[k].pc = "sleep" => \E m \in Elems(ct_hash) : m.arg = k
    <3>1. CASE k = c
      BY <1>2, <1>3, <1>4, <3>1
    <3>2. CASE k # c
      BY <1>1, <1>3, <2>1, <3>2 DEF PartsOK, WaitsOK
    <3> QED BY <3>1, <3>2
  <2>2. \A e \in Executors : un'[e].pc = "no"
    BY <1>1, <1>3, ClientsApart DEF PartsOK, WaitsOK
  <2> QED BY <2>1, <2>2 DEF WaitsOK
<1>6. /\ Typed(ct_hash', c_xid', ex', id', ran', un')
      /\ PartsOK(ct_hash', ct_freelist', c_xid', ex', ct_runtime', id', ran', ret', un')
  BY <1>1, <1>3, <1>5 DEF Typed, PartsOK, ct_vars
<1>7. /\ ClientsOK' /\ ret' \in [Clients -> {TimeLeft, -1}] /\ alloc' \in SUBSET Clients
  BY DEF CalloutInv, ClientsOK, TypeOK
<1> QED BY <1>1, <1>6, <1>7, IssuedNow, ClientFrame DEF ct_vars

LEMMA UntimeoutKeeps ==
    ASSUME CalloutInv, NEW c \in Clients, ClientUntimeout(c) PROVE CalloutInv'
<1>1. /\ id[c] # 0
      /\ UNCHANGED <<clk, cpr_stop_callout, ct_curtime, ct_runtime, ct_short_id, ct_long_id,
                     c_xid, ex, alloc, ran, soft_vars>>
  BY DEF ClientUntimeout, untimeout
<1>2. ASSUME NEW n \in Range(ct_hash), c_xid[n.cp] = id[c], Free(n.cp), Return(c, TimeLeft)
      PROVE  CalloutInv'
  <2>1. n \in Elems(ct_hash)
    BY DEF Range, Elems
  <2> QED BY <1>1, <1>2, <2>1, Removed
<1>3. ASSUME NEW s \in Hashed, c_xid[s] = id[c] + EXECUTING,
             UNCHANGED <<ct_hash, ct_freelist>>,
             IF MustWait(c, s)
             THEN /\ un' = [un EXCEPT ![c] = [pc |-> "sleep", cp |-> s,
                                              xid |-> id[c] + EXECUTING]]
                  /\ UNCHANGED <<id, ret>>
             ELSE Return(c, -1)
      PROVE  CalloutInv'
  <2>1. PICK n \in Elems(ct_hash) : n.cp = s
    BY DEF Hashed, Elems
  <2>2. n.arg = c /\ Executing(s) /\ s \in Structs
    BY <1>1, <1>3, <2>1, Found, EntryId
  <2>3. MustWait(c, s)
    BY <2>2, ExecutorIs, ClientsApart DEF MustWait
  <2>4. /\ un' = [un EXCEPT ![c] = [pc |-> "sleep", cp |-> s, xid |-> id[c] + EXECUTING]]
        /\ UNCHANGED <<id, ret>>
    BY <1>3, <2>3
  <2>5. UNCHANGED <<clk, cpr_stop_callout, ct_vars, ex, id, alloc, ran, ret, soft_vars>>
    BY <1>1, <1>3, <2>4 DEF ct_vars
  <2> QED BY <1>1, <2>1, <2>2, <2>4, <2>5, Waits
<1>4. ASSUME \A s \in Hashed : c_xid[s] \notin {id[c], id[c] + EXECUTING}, Return(c, -1),
             UNCHANGED <<ct_hash, ct_freelist>>
      PROVE  CalloutInv'
  <2>1. ASSUME NEW n \in Elems(ct_hash) PROVE n.arg # c
    <3>1. n.cp \in Hashed
      BY DEF Hashed, Elems
    <3> QED BY <1>1, <1>4, <3>1, Found
  <2>2. UNCHANGED <<clk, cpr_stop_callout, ct_vars, ex, alloc, ran, soft_vars>>
    BY <1>1, <1>4 DEF ct_vars
  <2> QED BY <1>1, <1>4, <2>1, <2>2, NotFound
<1> QED BY <1>2, <1>3, <1>4 DEF ClientUntimeout, untimeout

(* A handler that cancels itself finds its callout marked, and its own     *)
(* executor in c_executor: it goes on.                                     *)
LEMMA SelfUntimeoutKeeps ==
    ASSUME CalloutInv, NEW e \in Executors, SelfUntimeout(e) PROVE CalloutInv'
<1> DEFINE s == ex[e].cp
           xid == c_xid[s] - EXECUTING
<1>1. /\ Typed(ct_hash, c_xid, ex, id, ran, un)
      /\ PartsOK(ct_hash, ct_freelist, c_xid, ex, ct_runtime, id, ran, ret, un)
      /\ ct_freelist \in Seq(Structs)
  BY InvParts
<1>2. /\ ex[e].pc = "call" /\ untimeout(e, xid)
      /\ UNCHANGED <<clk, cpr_stop_callout, ct_curtime, ct_runtime, ct_short_id, ct_long_id,
                     c_xid, ex, alloc, ran, soft_vars>>
  BY DEF SelfUntimeout, untimeout
<1>3. PICK n \in Elems(ct_hash) : n.cp = s
  BY <1>1, <1>2 DEF PartsOK, ExecOK
<1>4. s \in Structs /\ Executing(s) /\ Calls(ex, e, s) /\ s \in Hashed
  BY <1>1, <1>2, <1>3, EntryId
  DEF PartsOK, ExecOK, Executing, Calls, Hashed, Elems
<1>5. c_executor(s) = e
  BY <1>4, ExecutorIs
<1>6. xid = id[n.arg] /\ id[n.arg] # 0 /\ n.arg \in Clients /\ xid + EXECUTING = c_xid[s]
  BY <1>3, <1>4, EntryId
<1>7. \A m \in Elems(ct_hash) : /\ c_xid[m.cp] # xid
                                /\ c_xid[m.cp] = xid + EXECUTING => m.cp = s
  <2>1. \A m \in Elems(ct_hash) : m.arg = n.arg => m = n
    BY <1>1 DEF PartsOK, IdsOK, Elems
  <2> HIDE DEF xid, s
  <2> QED BY <1>3, <1>4, <1>6, <2>1, Found
<1>8. Return(e, -1) /\ UNCHANGED <<ct_hash, ct_freelist>>
  <2>1. ~ \E m \in Range(ct_hash) : c_xid[m.cp] = xid
    BY <1>7 DEF Range, Elems
  <2>2. ~ \A m \in Hashed : c_xid[m] \notin {xid, xid + EXECUTING}
    BY <1>4, <1>6
  <2>3. ASSUME NEW m \in Hashed, c_xid[m] = xid + EXECUTING PROVE ~MustWait(e, m)
    <3>1. m = s
      BY <1>7, <2>3 DEF Hashed, Elems
    <3> QED BY <1>5, <3>1 DEF MustWait
  <2> HIDE DEF xid, s
  <2> QED BY <1>2, <2>1, <2>2, <2>3 DEF untimeout
<1>9. un' = [un EXCEPT ![e] = NotIn] /\ UNCHANGED <<id, ret>>
  BY <1>8, ClientsApart DEF Return
<1>10. /\ un' \in [Clients \cup Executors -> UnTypes] /\ un'[e].pc = "no"
       /\ \A t \in (Clients \cup Executors) \ {e} : un'[t] = un[t]
  <2>1. un \in [Clients \cup Executors -> UnTypes]
    BY <1>1 DEF Typed
  <2>2. NotIn \in UnTypes /\ NotIn.pc = "no"
    BY Constants DEF NotIn, UnTypes
  <2> HIDE DEF NotIn
  <2> QED BY <1>9, <2>1, <2>2
<1>11. WaitsOK(ct_hash, c_xid, id, un')
  <2>1. \A f \in Executors : un'[f].pc = "no"
    BY <1>1, <1>10 DEF PartsOK, WaitsOK
  <2>2. \A c \in Clients : un'[c] = un[c]
    BY <1>10, ClientsApart
  <2> QED BY <1>1, <2>1, <2>2 DEF PartsOK, WaitsOK
<1> HIDE DEF xid, s
<1>12. /\ Typed(ct_hash', c_xid', ex', id', ran', un')
       /\ PartsOK(ct_hash', ct_freelist', c_xid', ex', ct_runtime', id', ran', ret', un')
  BY <1>1, <1>2, <1>8, <1>9, <1>10, <1>11 DEF Typed, PartsOK
<1>13. /\ ClientsOK' /\ ret' \in [Clients -> {TimeLeft, -1}] /\ alloc' \in SUBSET Clients
  BY <1>2, <1>9 DEF CalloutInv, ClientsOK, TypeOK
<1> QED BY <1>1, <1>2, <1>8, <1>12, <1>13, IssuedNow, ClientFrame

(* The client looks at the id again: while it is the same the callout is   *)
(* still called, and once it has changed the callout is gone.              *)
LEMMA RecheckKeeps ==
    ASSUME CalloutInv, NEW t \in Clients \cup Executors, UntimeoutRecheck(t)
    PROVE  CalloutInv'
<1>1. /\ Typed(ct_hash, c_xid, ex, id, ran, un)
      /\ PartsOK(ct_hash, ct_freelist, c_xid, ex, ct_runtime, id, ran, ret, un)
  BY InvParts
<1>2. /\ un[t].pc = "recheck"
      /\ UNCHANGED <<clk, cpr_stop_callout, ct_vars, ex, alloc, ran, soft_vars>>
  BY DEF UntimeoutRecheck
<1>3. t \in Clients
  BY <1>1, <1>2 DEF PartsOK, WaitsOK
<1>4. /\ id[t] # 0 /\ un[t].cp \in Structs /\ un[t].xid = id[t] + EXECUTING
      /\ \A n \in Elems(ct_hash) : n.arg = t => n.cp = un[t].cp /\ c_xid[n.cp] = un[t].xid
  BY <1>1, <1>2, <1>3 DEF PartsOK, WaitsOK
<1>5. CASE c_xid[un[t].cp] = un[t].xid
  <2> DEFINE s == un[t].cp
  <2>1. Executing(s)
    <3>1. id[t] \in Int /\ id[t] >= 0 /\ EXECUTING \in Nat
      BY <1>1, <1>3, IdsInt, Constants DEF Typed
    <3> QED BY <1>4, <1>5, <3>1 DEF Executing
  <2>2. PICK n \in Elems(ct_hash) : n.cp = s
    BY <1>4, <2>1, MarkedHashed
  <2>3. n.arg = t
    BY <1>3, <1>4, <1>5, <2>2, Found
  <2>4. un' = [un EXCEPT ![t].pc = "sleep"] /\ UNCHANGED <<id, ret>>
    BY <1>5 DEF UntimeoutRecheck
  <2> DEFINE w == [pc |-> "sleep", cp |-> n.cp, xid |-> id[t] + EXECUTING]
  <2>5. un' = [un EXCEPT ![t] = w]
    <3>1. un[t] \in UnTypes
      BY <1>1 DEF Typed
    <3>2. [un[t] EXCEPT !.pc = "sleep"] = w
      BY <1>4, <2>2, <3>1 DEF UnTypes
    <3> QED BY <2>4, <3>2
  <2> HIDE DEF w
  <2>6. UNCHANGED <<clk, cpr_stop_callout, ct_vars, ex, id, alloc, ran, ret, soft_vars>>
    BY <1>2, <2>4
  <2> QED BY <1>3, <1>4, <2>1, <2>2, <2>3, <2>5, <2>6, Waits DEF w
<1>6. CASE c_xid[un[t].cp] # un[t].xid
  <2>1. \A n \in Elems(ct_hash) : n.arg # t
    BY <1>4, <1>6
  <2>2. Return(t, -1)
    BY <1>6 DEF UntimeoutRecheck
  <2> QED BY <1>2, <1>3, <1>4, <2>1, <2>2, NotFound
<1> QED BY <1>5, <1>6

-----------------------------------------------------------------------------
(* What the clock, checkpoints, soft interrupts and executors outside a    *)
(* handler leave alone.                                                    *)
LEMMA OutsideFrame ==
    ASSUME CalloutInv, UNCHANGED <<ct_short_id, ct_long_id, ct_freelist, ct_hash, c_xid, un, id,
                                   alloc, ran, ret>>,
           ct_curtime' \in Int, ct_curtime' <= 0, ct_runtime' \in Int,
           TimesOK(ct_hash, c_xid, ct_runtime'),
           ex' \in [Executors -> ExTypes], ExecOK(ct_hash, c_xid, ex'),
           clk' \in {"idle", "sched", "softcall"}, cpr_stop_callout' \in BOOLEAN,
           SoftTypeOK', SoftOK'
    PROVE  CalloutInv'
<1>1. TypeOK'
  BY DEF CalloutInv, TypeOK, ExTypes
<1>2. ClientsOK'
  BY DEF CalloutInv, ClientsOK
<1> QED BY <1>1, <1>2 DEF CalloutInv

(* What of the table an executor outside a handler leaves alone.           *)
LEMMA TableFrame ==
    ASSUME CalloutInv, UNCHANGED <<ct_vars, un, id, alloc, ran, ret>>,
           ex' \in [Executors -> ExTypes], ExecOK(ct_hash, c_xid, ex'),
           clk' \in {"idle", "sched", "softcall"}, cpr_stop_callout' \in BOOLEAN,
           SoftTypeOK', SoftOK'
    PROVE  CalloutInv'
<1>1. /\ ct_curtime \in Int /\ ct_curtime <= 0 /\ ct_runtime \in Int
      /\ TimesOK(ct_hash, c_xid, ct_runtime)
  BY InvParts DEF PartsOK
<1> QED BY <1>1, OutsideFrame DEF ct_vars

(* An executor moves outside the handlers.                                 *)
LEMMA Moved ==
    ASSUME CalloutInv, NEW e \in Executors, ex[e].pc # "call",
           NEW l \in {"idle", "cv", "top"}, ex' = [ex EXCEPT ![e] = ExAt(l)]
    PROVE  /\ ex' \in [Executors -> ExTypes] /\ ExecOK(ct_hash, c_xid, ex')
           /\ ex'[e].pc = l /\ \A d \in Executors \ {e} : ex'[d] = ex[d]
<1>1. ExecOK(ct_hash, c_xid, ex) /\ ex \in [Executors -> ExTypes]
  BY InvParts DEF PartsOK, Typed
<1>2. ExAt(l) \in ExTypes /\ ExAt(l).pc = l
  BY DEF ExAt, ExTypes
<1>3. /\ ex' \in [Executors -> ExTypes] /\ ex'[e].pc = l
      /\ \A d \in Executors \ {e} : ex'[d] = ex[d]
  <2> HIDE DEF ExAt
  <2> QED BY <1>1, <1>2
<1>4. \A d \in Executors : ex'[d].pc = "call" => ex'[d] = ex[d]
  BY <1>3
<1>5. \A d \in Executors : ex[d].pc = "call" => ex'[d] = ex[d]
  BY <1>3
<1>6. \A d \in Executors, s \in Structs : Calls(ex', d, s) <=> Calls(ex, d, s)
  BY <1>4, <1>5 DEF Calls
<1>7. ExecOK(ct_hash, c_xid, ex')
  BY <1>1, <1>4, <1>6 DEF ExecOK
<1> QED BY <1>3, <1>7

LEMMA Stays ==
    ASSUME CalloutInv, ex' = ex PROVE ex' \in [Executors -> ExTypes] /\ ExecOK(ct_hash, c_xid, ex')
BY InvParts DEF PartsOK, Typed

LEMMA ThreadKeeps ==
    ASSUME CalloutInv, NEW e \in Executors, callout_thread(e) PROVE CalloutInv'
<1>1. /\ ct_type = "NORMAL" /\ ex[e].pc = "idle" /\ ex' = [ex EXCEPT ![e] = ExAt("cv")]
      /\ UNCHANGED <<clk, cpr_stop_callout, ct_vars, un, id, alloc, ran, ret, soft_vars>>
  BY DEF callout_thread
<1>2. /\ SoftTypeOK' /\ SoftOK' /\ clk' \in {"idle", "sched", "softcall"}
      /\ cpr_stop_callout' \in BOOLEAN
  BY <1>1 DEF CalloutInv, TypeOK, SoftTypeOK, SoftOK, soft_vars
<1>3. ex' \in [Executors -> ExTypes] /\ ExecOK(ct_hash, c_xid, ex')
  BY <1>1, Moved
<1> QED BY <1>1, <1>2, <1>3, TableFrame

(* softcall() queues a function that is not queued: there is a structure   *)
(* for each.                                                               *)
LEMMA SoftcallQueue ==
    ASSUME SoftTypeOK, NoDup(softhead), NEW c \in CPUs, NEW f \in Funcs, softcall(c, f)
    PROVE  /\ softhead' \in Seq(Funcs) /\ NoDup(softhead') /\ Len(softhead') <= NSOFTCALLS
           /\ kick' \in SUBSET CPUs
<1>1. softhead \in Seq(Funcs) /\ kick \in SUBSET CPUs /\ Len(softhead) <= NSOFTCALLS
  BY DEF SoftTypeOK
<1>2. Len(softhead) \in Nat /\ DOMAIN softhead = 1..Len(softhead)
  BY <1>1, LenProperties
<1>3. CASE Queued(f)
  BY <1>1, <1>3 DEF softcall
<1>4. CASE ~Queued(f)
  <2> DEFINE q == Append(softhead, f)
  <2>1. softhead' = q /\ kick' \in SUBSET CPUs
    BY <1>1, <1>4 DEF softcall
  <2>2. /\ q \in Seq(Funcs) /\ DOMAIN q = 1..(Len(softhead) + 1)
        /\ q[Len(softhead) + 1] = f /\ \A i \in 1..Len(softhead) : q[i] = softhead[i]
    BY <1>1, <1>2
  <2> HIDE DEF q
  <2>3. \A i \in 1..Len(softhead) : softhead[i] # f
    BY <1>4 DEF Queued
  <2>4. NoDup(q)
    <3> SUFFICES ASSUME NEW i \in DOMAIN q, NEW j \in DOMAIN q, q[i] = q[j] PROVE i = j
      BY DEF NoDup
    <3>1. \A l \in DOMAIN q : l = Len(softhead) + 1 \/ l \in 1..Len(softhead)
      BY <1>2, <2>2
    <3>2. CASE i = Len(softhead) + 1 \/ j = Len(softhead) + 1
      BY <2>2, <2>3, <3>1, <3>2
    <3>3. CASE i \in 1..Len(softhead) /\ j \in 1..Len(softhead)
      BY <1>2, <2>2, <3>3 DEF NoDup
    <3> QED BY <3>1, <3>2, <3>3
  <2>5. IsFiniteSet(Elems(q)) /\ Cardinality(Elems(q)) = Len(q)
    BY <2>2, <2>4, QueueCardinality
  <2>6. Elems(q) \subseteq Funcs
    <3>1. \A i \in DOMAIN q : q[i] \in Funcs
      BY <2>2
    <3> QED BY <3>1 DEF Elems
  <2>7. Cardinality(Elems(q)) <= Cardinality(Funcs) /\ Cardinality(Funcs) \in Nat
    BY <2>6, SoftintAssumption, FS_Subset, FS_CardinalityType
  <2>8. Len(q) <= NSOFTCALLS
    BY <1>2, <2>2, <2>5, <2>7, SoftintAssumption
  <2> QED BY <2>1, <2>2, <2>4, <2>8
<1> QED BY <1>3, <1>4

(* A softcall() leaves the executors where they are.                       *)
LEMMA SoftcallKeeps ==
    ASSUME CalloutInv, NEW c \in CPUs, NEW f \in Funcs, softcall(c, f),
           UNCHANGED <<cpr_stop_callout, ct_vars, ex, un, id, alloc, ran, ret, sir, sint>>,
           clk' \in {"idle", "sched", "softcall"}
    PROVE  CalloutInv'
<1>1. SoftTypeOK /\ SoftOK /\ cpr_stop_callout \in BOOLEAN
  BY DEF CalloutInv, TypeOK
<1>2. /\ softhead' \in Seq(Funcs) /\ NoDup(softhead') /\ Len(softhead') <= NSOFTCALLS
      /\ kick' \in SUBSET CPUs
  BY <1>1, SoftcallQueue DEF SoftOK
<1>3. SoftTypeOK' /\ SoftOK'
  BY <1>1, <1>2 DEF SoftTypeOK, SoftOK
<1> QED BY <1>1, <1>3, Stays, TableFrame
LEMMA SoftExecuteKeeps ==
    ASSUME CalloutInv, NEW c \in Executors, ct_type = "REALTIME", SoftExecute(c)
    PROVE  CalloutInv'
<1>1. c \in CPUs /\ Executors = CPUs
  BY DEF Executors
<1>2. /\ SoftTypeOK /\ NoDup(softhead) /\ ex \in [Executors -> ExTypes]
      /\ \A d \in CPUs : sint[d] # callout_execute => ex[d].pc = "idle"
      /\ clk \in {"idle", "sched", "softcall"} /\ cpr_stop_callout \in BOOLEAN
  BY DEF CalloutInv, TypeOK, SoftOK, ExTypes
<1>3. /\ sint[c] = Loop /\ softhead # <<>> /\ sint' = [sint EXCEPT ![c] = Head(softhead)]
      /\ softhead' = Tail(softhead) /\ kick' = kick /\ sir' = sir
      /\ ex' = IF sint'[c] = callout_execute THEN [ex EXCEPT ![c] = ExAt("top")] ELSE ex
      /\ UNCHANGED <<clk, cpr_stop_callout, ct_vars, un, id, alloc, ran, ret>>
  BY DEF SoftExecute, softint_take
<1>4. ex[c].pc = "idle"
  <2>1. sint[c] # callout_execute
    BY <1>3, CalloutAssumption, SoftintAssumption
  <2> QED BY <1>1, <1>2, <2>1
<1>5. /\ Head(softhead) \in Funcs /\ softhead' \in Seq(Funcs) /\ NoDup(softhead')
      /\ Len(softhead') <= NSOFTCALLS
  <2>1. softhead \in Seq(Funcs) /\ Len(softhead) <= NSOFTCALLS
    BY <1>2 DEF SoftTypeOK
  <2>2. Len(softhead) \in Nat /\ Len(softhead) > 0
    BY <1>3, <2>1
  <2>3. /\ Head(softhead) \in Funcs /\ Tail(softhead) \in Seq(Funcs)
        /\ Len(Tail(softhead)) = Len(softhead) - 1 /\ NoDup(Tail(softhead))
    BY <1>2, <2>1, <2>2, TailQueue
  <2> QED BY <1>3, <2>1, <2>2, <2>3, SoftintAssumption
<1>6. /\ sint' \in [CPUs -> {Idle, Loop} \cup Funcs]
      /\ \A d \in CPUs \ {c} : sint'[d] = sint[d]
  BY <1>2, <1>3, <1>5 DEF SoftTypeOK
<1>7. SoftTypeOK'
  BY <1>2, <1>3, <1>5, <1>6 DEF SoftTypeOK
<1>8. /\ ex' \in [Executors -> ExTypes] /\ ExecOK(ct_hash, c_xid, ex')
      /\ \A d \in Executors \ {c} : ex'[d] = ex[d]
  <2>1. CASE sint'[c] = callout_execute
    BY <1>3, <1>4, <2>1, Moved
  <2>2. CASE sint'[c] # callout_execute
    BY <1>3, <2>2, Stays
  <2> QED BY <2>1, <2>2
<1>9. SoftOK'
  <2>1. ASSUME NEW d \in CPUs, sint'[d] # callout_execute PROVE ex'[d].pc = "idle"
    <3>1. CASE d = c
      BY <1>3, <1>4, <2>1, <3>1
    <3>2. CASE d # c
      BY <1>1, <1>2, <1>6, <1>8, <2>1, <3>2
    <3> QED BY <3>1, <3>2
  <2> QED BY <1>5, <2>1 DEF SoftOK
<1> QED BY <1>2, <1>3, <1>7, <1>8, <1>9, TableFrame

(* The other steps of softint() are taken outside callout_execute.         *)
LEMMA SoftOtherKeeps ==
    ASSUME CalloutInv, NEW c \in Executors, ct_type = "REALTIME", SoftOther(c)
    PROVE  CalloutInv'
<1>1. c \in CPUs
  BY DEF Executors
<1>2. /\ softhead \in Seq(Funcs) /\ Len(softhead) <= NSOFTCALLS /\ kick \in SUBSET CPUs
      /\ sir \in SUBSET CPUs /\ sint \in [CPUs -> {Idle, Loop} \cup Funcs]
      /\ \A d \in CPUs : sint[d] # callout_execute => ex[d].pc = "idle"
      /\ NoDup(softhead) /\ clk \in {"idle", "sched", "softcall"} /\ cpr_stop_callout \in BOOLEAN
  BY DEF CalloutInv, TypeOK, SoftOK, SoftTypeOK
<1>3. Idle # callout_execute /\ Loop # callout_execute
  BY CalloutAssumption, SoftintAssumption
<1>4. /\ softhead' = softhead /\ kick' \in SUBSET CPUs /\ sir' \in SUBSET CPUs
      /\ \/ sint' = sint
         \/ ex[c].pc = "idle" /\ \E l \in {Idle, Loop} : sint' = [sint EXCEPT ![c] = l]
  <2>1. CASE siron(c)
    BY <1>1, <1>2, <2>1 DEF siron
  <2>2. CASE softlevel1(c)
    BY <1>1, <1>2, <1>3, <2>2 DEF softlevel1
  <2>3. CASE softint_end(c)
    BY <1>1, <1>2, <1>3, <2>3 DEF softint_end
  <2>4. CASE ex[c].pc = "idle" /\ softint_return(c)
    BY <1>2, <2>4 DEF softint_return, softint_again
  <2> QED BY <2>1, <2>2, <2>3, <2>4 DEF SoftOther
<1>5. SoftTypeOK'
  BY <1>2, <1>4 DEF SoftTypeOK
<1>6. UNCHANGED <<clk, cpr_stop_callout, ct_vars, ex, un, id, alloc, ran, ret>>
  BY DEF SoftOther
<1>7. SoftOK'
  <2>1. ASSUME NEW d \in CPUs, sint'[d] # callout_execute PROVE ex[d].pc = "idle"
    BY <1>2, <1>4, <2>1
  <2> QED BY <1>2, <1>4, <1>6, <2>1 DEF SoftOK
<1> QED BY <1>2, <1>5, <1>6, <1>7, Stays, TableFrame

-----------------------------------------------------------------------------
LEMMA AgeKeeps ==
    ASSUME CalloutInv, Age, clk' \in {"idle", "sched", "softcall"},
           UNCHANGED <<cpr_stop_callout, ct_short_id, ct_long_id, ct_freelist, c_xid,
                       un, id, alloc, ran, ret, soft_vars>>
    PROVE  CalloutInv'
<1> DEFINE h == ct_hash
           older(n) == [n EXCEPT !.runtime = @ - 1]
           g == [i \in DOMAIN h |-> older(h[i])]
           x == [e \in Executors |-> IF ex[e].pc = "call" THEN older(ex[e]) ELSE ex[e]]
<1>1. /\ Typed(h, c_xid, ex, id, ran, un)
      /\ PartsOK(h, ct_freelist, c_xid, ex, ct_runtime, id, ran, ret, un)
      /\ h \in Seq(Entries) /\ ct_freelist \in Seq(Structs)
      /\ ct_curtime \in Int /\ ct_runtime \in Int /\ ct_curtime <= 0
  BY InvParts
<1>2. /\ ct_hash' = g /\ ex' = x
      /\ ct_curtime' = ct_curtime - 1 /\ ct_runtime' = ct_runtime - 1
  BY DEF Age
<1>3. \A n \in Elems(h) : /\ older(n) \in Entries /\ older(n).cp = n.cp /\ older(n).arg = n.arg
                          /\ older(n).runtime = n.runtime - 1 /\ n.runtime \in Int
  <2>1. \A n \in Entries : /\ older(n) \in Entries /\ older(n).cp = n.cp
                           /\ older(n).arg = n.arg /\ older(n).runtime = n.runtime - 1
    BY DEF Entries
  <2> HIDE DEF older
  <2> QED BY <1>1, <2>1, ChainFacts
<1>4. \A i \in DOMAIN h : h[i] \in Elems(h) /\ i \in Nat
  BY <1>1, ChainFacts
<1>5. /\ DOMAIN g = DOMAIN h
      /\ \A i \in DOMAIN h : /\ g[i].cp = h[i].cp /\ g[i].arg = h[i].arg
                             /\ g[i].runtime = h[i].runtime - 1
  BY <1>3, <1>4
<1>6. g \in Seq(Entries)
  <2>1. Len(h) \in Nat /\ DOMAIN h = 1..Len(h)
    BY <1>1, ChainFacts
  <2>2. \A i \in DOMAIN h : g[i] \in Entries
    BY <1>3, <1>4
  <2>3. g \in [1..Len(h) -> Entries]
    BY <2>1, <2>2
  <2> QED BY <2>1, <2>3, SeqDef
<1>7. /\ \A m \in Elems(g) : \E n \in Elems(h) : /\ m.cp = n.cp /\ m.arg = n.arg
                                                 /\ m.runtime = n.runtime - 1
      /\ \A n \in Elems(h) : \E m \in Elems(g) : /\ m.cp = n.cp /\ m.arg = n.arg
                                                 /\ m.runtime = n.runtime - 1
  <2> HIDE DEF g
  <2> QED BY <1>5 DEF Elems
<1>8. /\ x \in [Executors -> ExTypes]
      /\ \A e \in Executors : /\ x[e].pc = ex[e].pc /\ x[e].cp = ex[e].cp
                              /\ x[e].pc = "call" => x[e].runtime = ex[e].runtime - 1
  <2>1. \A e \in Executors : ex[e] \in ExTypes
    BY <1>1 DEF Typed
  <2>2. \A e \in Executors : /\ older(ex[e]) \in ExTypes /\ older(ex[e]).pc = ex[e].pc
                             /\ older(ex[e]).cp = ex[e].cp
                             /\ older(ex[e]).runtime = ex[e].runtime - 1
    BY <2>1 DEF ExTypes
  <2> QED BY <2>1, <2>2
<1> HIDE DEF g, x, older
<1>9. Typed(g, c_xid, x, id, ran, un)
  BY <1>1, <1>6, <1>8 DEF Typed
<1>10. StructsOK(g, ct_freelist)
  <2>1. \A m \in Elems(g) : m.cp \notin Elems(ct_freelist)
    BY <1>1, <1>7 DEF PartsOK, StructsOK
  <2>2. \A i, j \in DOMAIN g : g[i].cp = g[j].cp => i = j
    BY <1>1, <1>5 DEF PartsOK, StructsOK
  <2> QED BY <1>1, <2>1, <2>2 DEF PartsOK, StructsOK
<1>11. ExecOK(g, c_xid, x)
  <2>1. ASSUME NEW e \in Executors, x[e].pc = "call"
        PROVE  \E m \in Elems(g) : m.cp = x[e].cp /\ m.runtime = x[e].runtime
    <3>1. PICK n \in Elems(h) : n.cp = ex[e].cp /\ n.runtime = ex[e].runtime
      BY <1>1, <1>8, <2>1 DEF PartsOK, ExecOK
    <3>2. PICK m \in Elems(g) : m.cp = n.cp /\ m.runtime = n.runtime - 1
      BY <1>7
    <3> QED BY <1>8, <2>1, <3>1, <3>2
  <2>2. \A e \in Executors, s \in Structs : Calls(x, e, s) <=> Calls(ex, e, s)
    BY <1>8 DEF Calls
  <2> QED BY <1>1, <1>8, <2>1, <2>2 DEF PartsOK, ExecOK
<1>12. TimesOK(g, c_xid, ct_runtime - 1)
  <2>1. ct_runtime <= 1
    BY <1>1 DEF PartsOK, TimesOK
  <2>2. ASSUME NEW m \in Elems(g)
        PROVE  IF c_xid[m.cp] >= EXECUTING THEN m.runtime <= 0 ELSE m.runtime >= ct_runtime - 1
    <3>1. PICK n \in Elems(h) : m.cp = n.cp /\ m.runtime = n.runtime - 1
      BY <1>7
    <3>2. IF c_xid[n.cp] >= EXECUTING THEN n.runtime <= 0 ELSE n.runtime >= ct_runtime
      BY <1>1 DEF PartsOK, TimesOK
    <3>3. n.runtime \in Int
      BY <1>3
    <3> QED BY <1>1, <3>1, <3>2, <3>3
  <2>3. ASSUME NEW i \in DOMAIN g, NEW j \in DOMAIN g, i < j, g[i].runtime = g[j].runtime,
               c_xid[g[j].cp] >= EXECUTING
        PROVE  c_xid[g[i].cp] >= EXECUTING
    <3>1. h[i].runtime = h[j].runtime
      <4>1. /\ h[i].runtime \in Int /\ h[j].runtime \in Int
            /\ g[i].runtime = h[i].runtime - 1 /\ g[j].runtime = h[j].runtime - 1
        BY <1>3, <1>4, <1>5
      <4>2. h[i].runtime - 1 = h[j].runtime - 1
        BY <2>3, <4>1
      <4>3. \A a, b \in Int : a - 1 = b - 1 => a = b
        OBVIOUS
      <4> QED BY <4>1, <4>2, <4>3
    <3> QED BY <1>1, <1>5, <2>3, <3>1 DEF PartsOK, TimesOK
  <2> QED BY <1>1, <2>1, <2>2, <2>3 DEF TimesOK
<1>13. IdsOK(g, c_xid, id)
  <2>1. \A m \in Elems(g) : id[m.arg] # 0 /\ c_xid[m.cp] \in {id[m.arg], id[m.arg] + EXECUTING}
    BY <1>1, <1>7 DEF PartsOK, IdsOK
  <2>2. \A i, j \in DOMAIN g : g[i].arg = g[j].arg => i = j
    BY <1>1, <1>5 DEF PartsOK, IdsOK
  <2> QED BY <2>1, <2>2 DEF IdsOK
<1>14. RanOK(g, c_xid, id, ran, ret)
  <2>1. \A m \in Elems(g) : ran[m.arg] = IF c_xid[m.cp] >= EXECUTING THEN 1 ELSE 0
    BY <1>1, <1>7 DEF PartsOK, RanOK
  <2>2. \A c \in Clients : id[c] # 0 => ran[c] = 1 \/ \E m \in Elems(g) : m.arg = c
    BY <1>1, <1>7 DEF PartsOK, RanOK
  <2> QED BY <1>1, <2>1, <2>2 DEF PartsOK, RanOK
<1>15. WaitsOK(g, c_xid, id, un)
  <2>1. \A e \in Executors : un[e].pc = "no"
    BY <1>1 DEF PartsOK, WaitsOK
  <2>2. ASSUME NEW c \in Clients, un[c].pc # "no"
        PROVE  /\ id[c] # 0 /\ un[c].cp \in Structs /\ un[c].xid = id[c] + EXECUTING
               /\ \A m \in Elems(g) : m.arg = c => m.cp = un[c].cp /\ c_xid[m.cp] = un[c].xid
               /\ un[c].pc = "sleep" => \E m \in Elems(g) : m.arg = c
    BY <1>1, <1>7, <2>2 DEF PartsOK, WaitsOK
  <2> QED BY <2>1, <2>2 DEF WaitsOK
<1>16. /\ TypeOK' /\ ClientsOK' /\ ct_curtime' <= 0
  <2>1. ct_curtime' \in Int /\ ct_curtime' <= 0 /\ ct_runtime' \in Int
    BY <1>1, <1>2
  <2>2. ct_hash' \in Seq(Entries) /\ ex' \in [Executors -> ExTypes]
    BY <1>2, <1>6, <1>8
  <2>3. SoftTypeOK'
    BY DEF CalloutInv, TypeOK, SoftTypeOK, soft_vars
  <2>4. TypeOK'
    BY <2>1, <2>2, <2>3 DEF CalloutInv, TypeOK, Entries, ExTypes
  <2> QED BY <2>1, <2>4 DEF CalloutInv, ClientsOK
<1>17. SoftOK'
  <2>1. ASSUME ct_type = "REALTIME", NEW c \in CPUs, sint[c] # callout_execute
        PROVE  x[c].pc = "idle"
    <3>1. c \in Executors /\ ex[c].pc = "idle"
      BY <2>1 DEF CalloutInv, SoftOK, Executors
    <3> QED BY <1>8, <3>1
  <2>2. sint' = sint /\ softhead' = softhead /\ ex' = x
    BY <1>2 DEF soft_vars
  <2> QED BY <2>1, <2>2 DEF CalloutInv, SoftOK
<1>18. /\ StructsOK(ct_hash', ct_freelist') /\ ExecOK(ct_hash', c_xid', ex')
       /\ TimesOK(ct_hash', c_xid', ct_runtime') /\ IdsOK(ct_hash', c_xid', id')
       /\ RanOK(ct_hash', c_xid', id', ran', ret') /\ WaitsOK(ct_hash', c_xid', id', un')
  BY <1>2, <1>10, <1>11, <1>12, <1>13, <1>14, <1>15
<1> QED BY <1>16, <1>17, <1>18 DEF CalloutInv

LEMMA TickKeeps == ASSUME CalloutInv, Tick PROVE CalloutInv'
<1>1. /\ clk' \in {"idle", "sched", "softcall"}
      /\ UNCHANGED <<cpr_stop_callout, ct_short_id, ct_long_id, ct_freelist, c_xid,
                     un, id, alloc, ran, ret, soft_vars>>
      /\ Age \/ UNCHANGED <<ct_curtime, ct_runtime, ct_hash, ex>>
  BY DEF Tick
<1>2. CASE Age
  BY <1>1, <1>2, AgeKeeps
<1>3. CASE UNCHANGED <<ct_curtime, ct_runtime, ct_hash, ex>>
  <2>1. SoftTypeOK' /\ SoftOK' /\ cpr_stop_callout' \in BOOLEAN
    BY <1>1, <1>3 DEF CalloutInv, TypeOK, SoftTypeOK, SoftOK, soft_vars
  <2> QED BY <1>1, <1>3, <2>1, Stays, TableFrame DEF ct_vars
<1> QED BY <1>1, <1>2, <1>3

LEMMA ScheduleKeeps == ASSUME CalloutInv, callout_schedule_1 PROVE CalloutInv'
<1>1. /\ ct_curtime' = 0 /\ FindDue
      /\ UNCHANGED <<cpr_stop_callout, ct_short_id, ct_long_id, ct_freelist, ct_hash, c_xid,
                     un, id, alloc, ran, ret, soft_vars>>
  BY DEF callout_schedule_1, lbolt
<1>2. ct_hash \in Seq(Entries) /\ ct_runtime \in Int /\ TimesOK(ct_hash, c_xid, ct_runtime)
  BY InvParts DEF PartsOK
<1>3. /\ ct_runtime' \in Int /\ TimesOK(ct_hash, c_xid, ct_runtime')
      /\ clk' \in {"idle", "sched", "softcall"}
      /\ ex' = ex \/ (ct_type # "REALTIME" /\ cv_signal)
  <2>1. CASE DueTimes(ct_hash, ct_runtime, 0) = {}
    <3>1. /\ ct_runtime' = Past(ct_runtime, 0) /\ clk' = "idle" /\ ex' = ex
      BY <1>1, <2>1 DEF FindDue, lbolt
    <3>2. Past(ct_runtime, 0) \in Int /\ TimesOK(ct_hash, c_xid, Past(ct_runtime, 0))
      BY <1>2, <2>1, SearchNone
    <3> QED BY <3>1, <3>2
  <2>2. CASE DueTimes(ct_hash, ct_runtime, 0) # {}
    <3> DEFINE first == FirstDue(ct_hash, ct_runtime, 0)
    <3>1. /\ ct_runtime' = first /\ clk' \in {"idle", "softcall"}
          /\ ex' = ex \/ (ct_type # "REALTIME" /\ cv_signal)
      BY <1>1, <2>2 DEF FindDue, lbolt
    <3>2. first \in Int /\ TimesOK(ct_hash, c_xid, first)
      BY <1>2, <2>2, SearchFirst
    <3> HIDE DEF first
    <3> QED BY <3>1, <3>2
  <2> QED BY <2>1, <2>2
<1>4. /\ ex' \in [Executors -> ExTypes] /\ ExecOK(ct_hash, c_xid, ex')
      /\ ct_type = "REALTIME" => ex' = ex
  <2>1. CASE ex' = ex
    BY <2>1, Stays
  <2>2. CASE ct_type # "REALTIME" /\ cv_signal
    <3>1. CASE \E e \in Executors : ex[e].pc = "cv" /\ ex' = [ex EXCEPT ![e] = ExAt("top")]
      BY <2>2, <3>1, Moved
    <3> QED BY <2>1, <2>2, <3>1 DEF cv_signal
  <2> QED BY <1>3, <2>1, <2>2
<1>5. SoftTypeOK' /\ SoftOK' /\ cpr_stop_callout' \in BOOLEAN
  <2>1. SoftTypeOK' /\ cpr_stop_callout' \in BOOLEAN /\ sint' = sint /\ softhead' = softhead
    BY <1>1 DEF CalloutInv, TypeOK, SoftTypeOK, soft_vars
  <2>2. SoftOK'
    BY <1>4, <2>1 DEF CalloutInv, SoftOK
  <2> QED BY <2>1, <2>2
<1>6. ct_curtime' \in Int /\ ct_curtime' <= 0
  BY <1>1
<1> QED BY <1>1, <1>3, <1>4, <1>5, <1>6, OutsideFrame

LEMMA CprKeeps ==
    ASSUME CalloutInv, NEW stop \in CprCodes, callout_cpr_callb(stop) PROVE CalloutInv'
<1>1. /\ cpr_stop_callout' \in BOOLEAN
      /\ UNCHANGED <<clk, ct_vars, ex, un, id, alloc, ran, ret, soft_vars>>
  BY CalloutAssumption DEF callout_cpr_callb
<1>2. SoftTypeOK' /\ SoftOK' /\ clk' \in {"idle", "sched", "softcall"}
  BY <1>1 DEF CalloutInv, TypeOK, SoftTypeOK, SoftOK, soft_vars
<1> QED BY <1>1, <1>2, Stays, TableFrame

-----------------------------------------------------------------------------
LEMMA CalloutInit == Init => CalloutInv
<1> SUFFICES ASSUME Init PROVE CalloutInv
  OBVIOUS
<1>1. /\ softhead = <<>> /\ kick = {} /\ sir = {} /\ sint = [c \in CPUs |-> Idle]
      /\ clk = "idle" /\ cpr_stop_callout = FALSE /\ ct_curtime = 0 /\ ct_runtime = 0
      /\ ct_short_id = Table + COUNTER_HIGH /\ ct_long_id = Table + COUNTER_HIGH + LONGTERM
      /\ ct_freelist = <<>> /\ ct_hash = <<>> /\ c_xid = [s \in Structs |-> 0]
      /\ ex = [e \in Executors |-> ExAt("idle")]
      /\ un = [t \in Clients \cup Executors |-> NotIn]
      /\ id = [c \in Clients |-> 0] /\ alloc = {}
      /\ ran = [c \in Clients |-> 0] /\ ret = [c \in Clients |-> TimeLeft]
  BY DEF Init, SoftInit, lbolt
<1>2. EXECUTING \in Nat /\ EXECUTING > 0 /\ 0 \in Ids
  BY Constants
<1>3. ExAt("idle") \in ExTypes /\ ExAt("idle").pc = "idle" /\ NotIn \in UnTypes /\ NotIn.pc = "no"
  BY <1>2 DEF ExAt, ExTypes, NotIn, UnTypes
<1>4. Issued(ct_short_id, 1) /\ Issued(ct_long_id, 3)
  <2> DEFINE H == COUNTER_HIGH
             L == COUNTER_LOW
             m == H \div L
  <2>1. /\ H \in Nat /\ L \in Nat /\ L > 1 /\ H > 0 /\ Table \in 0..(L - 1)
        /\ EXECUTING = 4 * H /\ Ids = 0..(8 * H - 1)
    BY Constants
  <2>2. H = L * m /\ m \in Int /\ L <= H
    <3>1. H % L = 0
      BY CalloutAssumption
    <3>2. H = L * m /\ m \in Int
      BY <2>1, <3>1
    <3>3. m >= 1
      BY <2>1, <3>2
    <3> QED BY <2>1, <3>2, <3>3
  <2>3. Table \in 0..(H - 1) /\ Table \in Int
    BY <2>1, <2>2
  <2>4. ct_short_id = H * 1 + Table /\ ct_long_id = H * 3 + Table
    BY <1>1, <2>1, <2>3 DEF LONGTERM
  <2>5. ct_short_id \div H = 1 /\ ct_long_id \div H = 3
    BY <2>1, <2>3, <2>4, Division
  <2>6. ct_short_id = L * m + Table /\ ct_long_id = L * (3 * m) + Table
    <3> HIDE DEF H, L, m
    <3>1. L * (3 * m) = 3 * (L * m)
      BY <2>1, <2>2
    <3> QED BY <2>1, <2>2, <2>3, <2>4, <3>1
  <2>7. ct_short_id % L = Table /\ ct_long_id % L = Table
    <3>1. 3 * m \in Int
      BY <2>2
    <3> HIDE DEF H, L, m
    <3> QED BY <2>1, <2>2, <2>6, <3>1, Division
  <2>8. ct_short_id \in Ids /\ ct_long_id \in Ids
    BY <2>1, <2>3, <2>4
  <2> QED BY <2>5, <2>7, <2>8 DEF Issued
<1>5. Elems(ct_hash) = {} /\ DOMAIN ct_hash = {} /\ Elems(ct_freelist) = {} /\ NoDup(ct_freelist)
  BY <1>1 DEF Elems, NoDup
<1>6. TypeOK
  <2>1. SoftTypeOK
    BY <1>1, SoftintAssumption DEF SoftTypeOK
  <2>2. /\ ct_freelist \in Seq(Structs)
        /\ ct_hash \in Seq([cp : Structs, runtime : Int, arg : Clients])
    BY <1>1
  <2>3. /\ ct_curtime \in Int /\ ct_runtime \in Int /\ clk \in {"idle", "sched", "softcall"}
        /\ cpr_stop_callout \in BOOLEAN
    <3>1. cpr_stop_callout \in BOOLEAN
      BY <1>1, Zenon
    <3> QED BY <1>1, <3>1
  <2>4. /\ c_xid \in [Structs -> Ids] /\ id \in [Clients -> Ids] /\ alloc \in SUBSET Clients
        /\ ran \in [Clients -> 0..1] /\ ret \in [Clients -> {TimeLeft, -1}]
    BY <1>1, <1>2
  <2>5. ex \in [Executors -> ExTypes] /\ un \in [Clients \cup Executors -> UnTypes]
    <3> HIDE DEF ExAt, NotIn
    <3> QED BY <1>1, <1>3
  <2> QED BY <1>4, <2>1, <2>2, <2>3, <2>4, <2>5
    DEF TypeOK, Issued, ExTypes, UnTypes
<1>7. /\ \A e \in Executors : ex[e].pc = "idle"
      /\ \A t \in Clients \cup Executors : un[t].pc = "no"
      /\ \A s \in Structs : ~(c_xid[s] >= EXECUTING)
      /\ \A c \in Clients : id[c] = 0 /\ ran[c] = 0 /\ ret[c] = TimeLeft
  BY <1>1, <1>2, <1>3
<1>8. ClientsOK
  BY <1>1, <1>2, <1>7 DEF ClientsOK
<1>9. SoftOK
  BY <1>1, <1>7 DEF SoftOK, NoDup, Executors
<1>10. StructsOK(ct_hash, ct_freelist) /\ IdsOK(ct_hash, c_xid, id)
  BY <1>5 DEF StructsOK, IdsOK
<1>11. ExecOK(ct_hash, c_xid, ex)
  BY <1>7 DEF ExecOK, Calls
<1>12. TimesOK(ct_hash, c_xid, ct_runtime) /\ ct_curtime <= 0
  BY <1>1, <1>5 DEF TimesOK
<1>13. RanOK(ct_hash, c_xid, id, ran, ret)
  BY <1>5, <1>7 DEF RanOK, TimeLeft
<1>14. WaitsOK(ct_hash, c_xid, id, un)
  BY <1>7 DEF WaitsOK
<1> QED BY <1>6, <1>8, <1>9, <1>10, <1>11, <1>12, <1>13, <1>14 DEF CalloutInv

LEMMA CalloutStutter == ASSUME CalloutInv, UNCHANGED vars PROVE CalloutInv'
<1>1. /\ SoftTypeOK' /\ SoftOK' /\ clk' \in {"idle", "sched", "softcall"}
      /\ cpr_stop_callout' \in BOOLEAN
  BY DEF CalloutInv, TypeOK, SoftTypeOK, SoftOK, vars, soft_vars
<1> QED BY <1>1, Stays, TableFrame DEF vars

LEMMA CalloutStep == CalloutInv /\ [Next]_vars => CalloutInv'
<1> SUFFICES ASSUME CalloutInv, [Next]_vars PROVE CalloutInv'
  OBVIOUS
<1>1. ASSUME NEW c \in Clients, NEW d \in Deltas, timeout(c, d) \/ timeout_fresh(c, d)
      PROVE  CalloutInv'
  BY <1>1, TimeoutKeeps, TimeoutFreshKeeps
<1>2. ASSUME NEW c \in Clients, callout_alloc(c) \/ ClientUntimeout(c) PROVE CalloutInv'
  BY <1>2, AllocKeeps, UntimeoutKeeps
<1>3. ASSUME NEW t \in Clients \cup Executors, UntimeoutRecheck(t) PROVE CalloutInv'
  BY <1>3, RecheckKeeps
<1>4. ASSUME NEW e \in Executors, Execute(e) \/ SelfUntimeout(e) PROVE CalloutInv'
  <2>1. CASE SelfUntimeout(e)
    BY <2>1, SelfUntimeoutKeeps
  <2>2. CASE ExecuteTop(e)
    BY <2>2, ExecuteTopKeeps
  <2>3. CASE ExecuteDone(e)
    BY <2>3, ExecuteDoneKeeps
  <2>4. CASE callout_thread(e)
    BY <2>4, ThreadKeeps
  <2>5. CASE ct_type = "REALTIME" /\ (SoftExecute(e) \/ SoftOther(e))
    BY <2>5, SoftExecuteKeeps, SoftOtherKeeps
  <2> QED BY <1>4, <2>1, <2>2, <2>3, <2>4, <2>5 DEF Execute
<1>5. ASSUME NEW c \in CPUs, NEW f \in Funcs, OtherSoftcall(c, f) PROVE CalloutInv'
  <2>1. clk' \in {"idle", "sched", "softcall"}
    BY <1>5 DEF OtherSoftcall, CalloutInv, TypeOK
  <2> QED BY <1>5, <2>1, SoftcallKeeps DEF OtherSoftcall
<1>6. CASE Clock
  <2>1. CASE ScheduleSoftcall
    <3>1. PICK c \in CPUs : softcall(c, callout_execute)
      BY <2>1 DEF ScheduleSoftcall
    <3> QED BY <2>1, <3>1, CalloutAssumption, SoftcallKeeps DEF ScheduleSoftcall
  <2> QED BY <1>6, <2>1, TickKeeps, ScheduleKeeps DEF Clock
<1>7. ASSUME NEW stop \in CprCodes, callout_cpr_callb(stop) PROVE CalloutInv'
  BY <1>7, CprKeeps
<1>8. CASE UNCHANGED vars
  BY <1>8, CalloutStutter
<1> QED BY <1>1, <1>2, <1>3, <1>4, <1>5, <1>6, <1>7, <1>8 DEF Next

(* The invariant of the callout table holds in every reachable state: its  *)
(* structures, marks, times, ids and waits agree between the critical      *)
(* sections of timeout(), untimeout(), callout_execute() and the clock.    *)
THEOREM CalloutInvariant == Spec => []CalloutInv
BY CalloutInit, CalloutStep, PTL DEF Spec

-----------------------------------------------------------------------------
(* The types hold, and with them what callo.h says of the ids: short-term  *)
(* ids never reach the long-term ones when timeout()'s counters wrap.      *)
(* softcall() never runs out of structures as long as its callers use no   *)
(* more than NSOFTCALLS different functions and arguments, which is an     *)
(* assumption about them (SoftintAssumption).                              *)
THEOREM TypeSafe == Spec => []TypeOK
<1>1. CalloutInv => TypeOK
  BY DEF CalloutInv
<1> QED BY <1>1, CalloutInvariant, PTL

(* When untimeout() has returned, the callout is neither pending nor being *)
(* executed: the client may free what its handler uses.                    *)
THEOREM CancelFinal == Spec => []UntimeoutFinal
<1>1. ASSUME CalloutInv PROVE UntimeoutFinal
  <2> SUFFICES ASSUME NEW c \in Clients, id[c] = 0, NEW n \in Range(ct_hash) PROVE n.arg # c
    BY DEF UntimeoutFinal
  <2>1. n \in Elems(ct_hash)
    BY DEF Range, Elems
  <2> QED BY <1>1, <2>1, EntryId
<1> QED BY <1>1, CalloutInvariant, PTL

(* The result of untimeout() says whether callout_execute called the       *)
(* handler, which it does at most once.                                    *)
THEOREM CancelTruthful == Spec => []UntimeoutTruthful
<1>1. ASSUME CalloutInv PROVE UntimeoutTruthful
  <2>1. RanOK(ct_hash, c_xid, id, ran, ret) /\ ran \in [Clients -> 0..1]
    BY <1>1 DEF CalloutInv, TypeOK
  <2> QED BY <2>1 DEF UntimeoutTruthful, RanOK
<1> QED BY <1>1, CalloutInvariant, PTL

(* However callout_schedule_1 and any number of executors advance          *)
(* ct_runtime side by side, no pending callout is left behind it.          *)
THEOREM NoCalloutSkipped == Spec => []NoneSkipped
<1>1. ASSUME CalloutInv PROVE NoneSkipped
  <2> SUFFICES ASSUME NEW n \in Range(ct_hash), ~Executing(n.cp) PROVE n.runtime >= ct_runtime
    BY DEF NoneSkipped
  <2>1. n \in Elems(ct_hash)
    BY DEF Range, Elems
  <2>2. TimesOK(ct_hash, c_xid, ct_runtime)
    BY <1>1 DEF CalloutInv
  <2> QED BY <2>1, <2>2 DEF TimesOK, Executing
<1> QED BY <1>1, CalloutInvariant, PTL

(* The chain has as many structures as entries.                            *)
LEMMA HashedOnce ==
    ASSUME NEW h \in Seq(Entries), \A i, j \in DOMAIN h : h[i].cp = h[j].cp => i = j
    PROVE  Cardinality({h[i].cp : i \in DOMAIN h}) = Len(h)
<1> DEFINE q == [i \in 1..Len(h) |-> h[i].cp]
<1>1. Len(h) \in Nat /\ DOMAIN h = 1..Len(h) /\ \A i \in DOMAIN h : h[i].cp \in Structs
  BY ChainFacts
<1>2. q \in [1..Len(h) -> Structs]
  BY <1>1
<1>3. q \in Seq(Structs) /\ Len(q) = Len(h) /\ DOMAIN q = 1..Len(h)
  <2> HIDE DEF q
  <2>1. q \in Seq(Structs)
    BY <1>1, <1>2, SeqDef
  <2> QED BY <1>1, <1>2, <2>1, LenProperties
<1>4. NoDup(q)
  BY <1>1 DEF NoDup
<1>5. Elems(q) = {h[i].cp : i \in DOMAIN h}
  BY <1>1 DEF Elems
<1> HIDE DEF q
<1> QED BY <1>3, <1>4, <1>5, QueueCardinality

(* A structure is on the freelist or hashed, never both or twice, and      *)
(* EXECUTING is set just while one executor is inside the handler.         *)
THEOREM StructuresSafe == Spec => []StructsConserved
<1>1. ASSUME CalloutInv PROVE StructsConserved
  <2>1. /\ StructsOK(ct_hash, ct_freelist) /\ ExecOK(ct_hash, c_xid, ex)
        /\ ct_hash \in Seq(Entries) /\ ct_freelist \in Seq(Structs)
    BY <1>1, InvParts DEF PartsOK
  <2>2. IsInjective(ct_freelist)
    BY <2>1 DEF StructsOK, NoDup, IsInjective
  <2>3. Range(ct_freelist) \cap Hashed = {}
    BY <2>1 DEF StructsOK, Range, Hashed, Elems
  <2>4. Cardinality(Hashed) = Len(ct_hash)
    BY <2>1, HashedOnce DEF StructsOK, Hashed
  <2>5. ASSUME NEW s \in Structs
        PROVE  /\ Executing(s) <=> \E e \in Executors : ex[e].pc = "call" /\ ex[e].cp = s
               /\ Executing(s) => s \in Hashed
    <3>1. Executing(s) <=> \E e \in Executors : ex[e].pc = "call" /\ ex[e].cp = s
      BY <2>1 DEF ExecOK, Executing, Calls
    <3>2. Executing(s) => s \in Hashed
      BY <1>1, MarkedHashed DEF Hashed, Elems
    <3> QED BY <3>1, <3>2
  <2>6. \A e, f \in Executors :
           ex[e].pc = "call" /\ ex[f].pc = "call" /\ e # f => ex[e].cp # ex[f].cp
    BY <2>1 DEF ExecOK
  <2> QED BY <2>2, <2>3, <2>4, <2>5, <2>6 DEF StructsConserved
<1> QED BY <1>1, CalloutInvariant, PTL

(* A client sleeps in untimeout() only while an executor, never itself, is *)
(* inside its handler: the cv_broadcast() of callout_execute that wakes it *)
(* is still to come.                                                       *)
SleepersAwaited ==
    \A c \in Clients : un[c].pc = "sleep" =>
        \E e \in Executors : ex[e].pc = "call" /\ ex[e].cp = un[c].cp

(* No sleeper in untimeout() is left behind by callout_execute.            *)
THEOREM NoLostBroadcast == Spec => []SleepersAwaited
<1>1. ASSUME CalloutInv PROVE SleepersAwaited
  <2> SUFFICES ASSUME NEW c \in Clients, un[c].pc = "sleep"
               PROVE  \E e \in Executors : ex[e].pc = "call" /\ ex[e].cp = un[c].cp
    BY DEF SleepersAwaited
  <2>1. WaitsOK(ct_hash, c_xid, id, un) /\ ExecOK(ct_hash, c_xid, ex)
    BY <1>1 DEF CalloutInv
  <2>2. /\ un[c].cp \in Structs /\ id[c] # 0
        /\ \E n \in Elems(ct_hash) : n.arg = c /\ n.cp = un[c].cp /\ c_xid[n.cp] = id[c] + EXECUTING
    BY <2>1 DEF WaitsOK
  <2>3. Executing(un[c].cp)
    BY <1>1, <2>2, Found
  <2> QED BY <2>1, <2>2, <2>3 DEF ExecOK, Executing, Calls
<1> QED BY <1>1, CalloutInvariant, PTL

-----------------------------------------------------------------------------
(* softcall() adds to the list, and requests an interrupt for the first.   *)
LEMMA SoftcallKicks ==
    ASSUME NoLostSoftcall, NEW c \in CPUs, NEW f, softcall(c, f), sir' = sir, sint' = sint
    PROVE  NoLostSoftcall'
<1>1. CASE softhead = <<>> /\ ~Queued(f)
  BY <1>1 DEF softcall, NoLostSoftcall
<1>2. CASE softhead # <<>> \/ Queued(f)
  <2>1. softhead # <<>> => kick # {} \/ sir # {} \/ \E d \in CPUs : sint[d] # Idle
    BY DEF NoLostSoftcall
  <2>2. kick' = kick /\ (softhead # <<>> \/ softhead' = softhead)
    BY <1>2 DEF softcall
  <2> QED BY <2>1, <2>2 DEF NoLostSoftcall
<1> QED BY <1>1, <1>2

LEMMA SoftTakeKeeps ==
    ASSUME SoftTypeOK, NEW c \in CPUs, softint_take(c) PROVE NoLostSoftcall'
<1>1. softhead \in Seq(Funcs) /\ softhead # <<>> /\ sint \in [CPUs -> {Idle, Loop} \cup Funcs]
  BY DEF SoftTypeOK, softint_take
<1>2. Head(softhead) \in Funcs
  BY <1>1
<1>3. sint'[c] # Idle
  BY <1>1, <1>2, SoftintAssumption DEF softint_take
<1> QED BY <1>3 DEF NoLostSoftcall

LEMMA SoftOtherWatched ==
    ASSUME SoftTypeOK, NoLostSoftcall, NEW c \in CPUs, SoftOther(c) PROVE NoLostSoftcall'
<1>0. sint \in [CPUs -> {Idle, Loop} \cup Funcs]
  BY DEF SoftTypeOK
<1>1. CASE siron(c)
  BY <1>1 DEF siron, NoLostSoftcall
<1>2. Idle # Loop
  BY DEF Idle, Loop
<1>3. CASE softlevel1(c)
  <2>1. sint'[c] # Idle
    BY <1>0, <1>2, <1>3 DEF softlevel1
  <2> QED BY <2>1 DEF NoLostSoftcall
<1>4. CASE softint_end(c)
  BY <1>4 DEF softint_end, NoLostSoftcall
<1>5. CASE softint_return(c)
  <2>1. sint'[c] # Idle
    BY <1>0, <1>2, <1>5 DEF softint_return, softint_again
  <2> QED BY <2>1 DEF NoLostSoftcall
<1> QED BY <1>1, <1>3, <1>4, <1>5 DEF SoftOther

(* A function queued by softcall() is never forgotten: somebody is about   *)
(* to call siron(), an interrupt is pending or softint() runs, although    *)
(* only the first call on the list requests the interrupt.                 *)
THEOREM SoftcallWatched == Spec => []NoLostSoftcall
<1>1. Init => NoLostSoftcall
  BY DEF Init, SoftInit, NoLostSoftcall
<1>2. ASSUME SoftTypeOK, NoLostSoftcall, [Next]_vars PROVE NoLostSoftcall'
  <2>1. CASE UNCHANGED soft_vars
    BY <1>2, <2>1 DEF soft_vars, NoLostSoftcall
  <2>2. ASSUME NEW c \in Clients, NEW d \in Deltas, timeout(c, d) \/ timeout_fresh(c, d)
        PROVE  UNCHANGED soft_vars
    BY <2>2 DEF timeout, timeout_fresh, Arm
  <2>3. ASSUME NEW c \in Clients, callout_alloc(c) \/ ClientUntimeout(c)
        PROVE  UNCHANGED soft_vars
    BY <2>3 DEF callout_alloc, ClientUntimeout, untimeout
  <2>4. ASSUME NEW t \in Clients \cup Executors, UntimeoutRecheck(t) PROVE UNCHANGED soft_vars
    BY <2>4 DEF UntimeoutRecheck
  <2>5. ASSUME NEW e \in Executors, Execute(e) \/ SelfUntimeout(e) PROVE NoLostSoftcall'
    <3>1. CASE SelfUntimeout(e)
      BY <2>1, <3>1 DEF SelfUntimeout, untimeout
    <3>2. CASE ExecuteTop(e) \/ ExecuteDone(e) \/ callout_thread(e)
      BY <2>1, <3>2 DEF ExecuteTop, ExecuteDone, callout_thread
    <3>3. CASE ct_type = "REALTIME" /\ SoftExecute(e)
      BY <1>2, <3>3, SoftTakeKeeps DEF SoftExecute, Executors
    <3>4. CASE ct_type = "REALTIME" /\ SoftOther(e)
      BY <1>2, <3>4, SoftOtherWatched DEF Executors
    <3> QED BY <2>5, <3>1, <3>2, <3>3, <3>4 DEF Execute
  <2>6. ASSUME NEW c \in CPUs, NEW f \in Funcs, OtherSoftcall(c, f) PROVE NoLostSoftcall'
    BY <1>2, <2>6, SoftcallKicks DEF OtherSoftcall
  <2>7. CASE Clock
    <3>1. CASE Tick \/ callout_schedule_1
      BY <2>1, <3>1 DEF Tick, callout_schedule_1
    <3>2. CASE ScheduleSoftcall
      BY <1>2, <3>2, SoftcallKicks DEF ScheduleSoftcall
    <3> QED BY <2>7, <3>1, <3>2 DEF Clock
  <2>8. ASSUME NEW stop \in CprCodes, callout_cpr_callb(stop) PROVE UNCHANGED soft_vars
    BY <2>8 DEF callout_cpr_callb
  <2>9. CASE UNCHANGED vars
    BY <2>1, <2>9 DEF vars
  <2> QED BY <1>2, <2>1, <2>2, <2>3, <2>4, <2>5, <2>6, <2>7, <2>8, <2>9 DEF Next
<1>3. TypeOK => SoftTypeOK
  BY DEF TypeOK
<1> QED BY <1>1, <1>2, <1>3, TypeSafe, PTL DEF Spec

-----------------------------------------------------------------------------
(* The callback table.                                                     *)
Slots == Callbs \cup {NULL}
Listed == From(ct_first_cb)
Unused == From(cb_freelist)
Registered(t) == d_pc[t] \in {"work", "safe", "delete"}
InFunc == cpr \in {"func", "wait", "done"}

CallbTypeOK ==
    /\ ct_busy \in BOOLEAN
    /\ ct_first_cb \in Slots /\ cb_freelist \in Slots
    /\ c_next \in [Callbs -> Slots]
    /\ c_flag \in [Callbs -> SUBSET {"TAKEN", "EXECUTING"}]
    /\ c_arg \in [Callbs -> Daemons \cup {NULL}]
    /\ allocated \in SUBSET Callbs
    /\ cc_events \in [Daemons -> SUBSET {"START", "SAFE"}]
    /\ cc_id \in [Daemons -> Slots]
    /\ d_pc \in [Daemons -> {"none", "new", "work", "safe", "delete"}]
    /\ cpr \in {"run", "begin", "func", "wait", "done", "end", "check", "frozen"}
    /\ cp \in Slots /\ failed \in Slots
    /\ code \in {"CHKPT", "RESUME"}
    /\ unchecked \in SUBSET Daemons

(* The list of the class and the free list are apart, and neither comes    *)
(* back to where it was.                                                   *)
ListsOK ==
    /\ Listed \cap Unused = {}
    /\ Listed \cup Unused \subseteq allocated
    /\ \A s \in Listed \cup Unused : s \notin From(c_next[s])

(* The listed structures are the ones of the registered daemons.           *)
DaemonsOK ==
    /\ \A t \in Daemons : Registered(t) =>
          /\ cc_id[t] \in Listed /\ c_arg[cc_id[t]] = t
          /\ "SAFE" \in cc_events[t] <=> d_pc[t] # "work"
    /\ \A s \in Listed : /\ c_arg[s] \in Daemons /\ Registered(c_arg[s])
                         /\ cc_id[c_arg[s]] = s
    /\ \A s \in Callbs : c_flag[s] =
          IF s \notin Listed THEN {}
          ELSE IF InFunc /\ cp = s THEN {"TAKEN", "EXECUTING"} ELSE {"TAKEN"}

(* Where the walk is.                                                      *)
WalkOK ==
    /\ InFunc => cp \in Listed
    /\ cpr = "run" <=> ~ct_busy
    /\ cpr = "run" => code = "RESUME"
    /\ cpr \in {"wait", "check", "frozen"} => code = "CHKPT"
    /\ failed # NULL => cpr \in {"done", "end"} /\ code = "CHKPT"
    /\ cpr = "end" /\ failed = NULL => cp = NULL

(* The callbacks that the walk has still to call, and what it has done to  *)
(* the others: started the stopping of their daemons, or ended it.         *)
ToCall ==
    IF cpr = "begin" \/ failed # NULL THEN Listed
    ELSE IF cpr = "func" THEN From(cp)
    ELSE IF cpr \in {"wait", "done"} THEN From(c_next[cp])
    ELSE {}
CallDone(t) == "START" \in cc_events[t] <=> code = "CHKPT"
SeenOK == \A s \in Listed \ ToCall : CallDone(c_arg[s])

(* A daemon that has been looked at is stopped or on its way out.          *)
CheckOK ==
    \A t \in Daemons :
        cpr = "frozen" \/ (cpr = "check" /\ t \notin unchecked) =>
            d_pc[t] \in {"none", "safe", "delete"}

CallbInv == CallbTypeOK /\ ListsOK /\ DaemonsOK /\ WalkOK /\ SeenOK /\ CheckOK

-----------------------------------------------------------------------------
(* The lists: what links nx reach from a structure.                        *)
ClosedUnder(nx, C) == \A x \in C : nx[x] \in C \cup {NULL}
Reach(nx, s) ==
    {x \in Callbs : \A C \in SUBSET Callbs :
                      s \in C \cup {NULL} /\ ClosedUnder(nx, C) => x \in C}

LEMMA FromReach == \A s : From(s) = Reach(c_next, s) /\ From(s)' = Reach(c_next', s')
BY DEF From, Reach, Closed, ClosedUnder

LEMMA NullApart == NULL \notin Callbs /\ NULL \notin Daemons
BY CallbAssumption

LEMMA ReachLeast ==
    ASSUME NEW nx, NEW s, NEW C \in SUBSET Callbs, s \in C \cup {NULL}, ClosedUnder(nx, C)
    PROVE  Reach(nx, s) \subseteq C
BY DEF Reach

LEMMA ReachNull == ASSUME NEW nx PROVE Reach(nx, NULL) = {}
<1>1. ClosedUnder(nx, {})
  BY DEF ClosedUnder
<1> QED BY <1>1, ReachLeast

LEMMA ReachClosed ==
    ASSUME NEW nx \in [Callbs -> Slots], NEW s \in Slots
    PROVE  /\ Reach(nx, s) \in SUBSET Callbs /\ s \in Reach(nx, s) \cup {NULL}
           /\ ClosedUnder(nx, Reach(nx, s))
<1>1. Reach(nx, s) \in SUBSET Callbs
  BY DEF Reach
<1>2. s \in Reach(nx, s) \cup {NULL}
  BY DEF Reach, Slots
<1>3. ASSUME NEW x \in Reach(nx, s) PROVE nx[x] \in Reach(nx, s) \cup {NULL}
  <2>1. nx[x] \in Slots
    BY <1>1
  <2> SUFFICES ASSUME nx[x] \in Callbs, NEW C \in SUBSET Callbs, s \in C \cup {NULL},
                      ClosedUnder(nx, C)
               PROVE  nx[x] \in C
    BY <2>1 DEF Reach, Slots
  <2>2. x \in C
    BY ReachLeast
  <2> QED BY <2>2, NullApart DEF ClosedUnder
<1> QED BY <1>1, <1>2, <1>3 DEF ClosedUnder

LEMMA ReachSuffix ==
    ASSUME NEW nx \in [Callbs -> Slots], NEW s \in Slots, NEW x \in Reach(nx, s)
    PROVE  x \in Callbs /\ nx[x] \in Slots /\ Reach(nx, x) \subseteq Reach(nx, s)
           /\ Reach(nx, nx[x]) \subseteq Reach(nx, s)
<1>1. /\ Reach(nx, s) \in SUBSET Callbs /\ ClosedUnder(nx, Reach(nx, s))
  BY ReachClosed
<1>2. x \in Callbs /\ nx[x] \in Slots /\ nx[x] \in Reach(nx, s) \cup {NULL}
  BY <1>1 DEF ClosedUnder
<1> QED BY <1>1, <1>2, ReachLeast

LEMMA ReachUnfold ==
    ASSUME NEW nx \in [Callbs -> Slots], NEW s \in Callbs
    PROVE  Reach(nx, s) = {s} \cup Reach(nx, nx[s])
<1> DEFINE D == {s} \cup Reach(nx, nx[s])
<1>1. s \in Slots /\ nx[s] \in Slots
  BY DEF Slots
<1>2. /\ Reach(nx, nx[s]) \in SUBSET Callbs /\ nx[s] \in Reach(nx, nx[s]) \cup {NULL}
      /\ ClosedUnder(nx, Reach(nx, nx[s]))
  BY <1>1, ReachClosed
<1>3. D \in SUBSET Callbs /\ ClosedUnder(nx, D)
  BY <1>2 DEF ClosedUnder
<1>4. Reach(nx, s) \subseteq D
  <2>1. s \in D \cup {NULL}
    OBVIOUS
  <2> HIDE DEF D
  <2> QED BY <1>3, <2>1, ReachLeast
<1>5. s \in Reach(nx, s)
  BY <1>1, ReachClosed, NullApart
<1>6. Reach(nx, nx[s]) \subseteq Reach(nx, s)
  BY <1>1, <1>5, ReachSuffix
<1> QED BY <1>4, <1>5, <1>6

(* Links outside a closed set do not matter in it.                         *)
LEMMA ReachSame ==
    ASSUME NEW nx \in [Callbs -> Slots], NEW ny \in [Callbs -> Slots],
           NEW D \in SUBSET Callbs, ClosedUnder(nx, D), \A x \in D : ny[x] = nx[x],
           NEW s \in D \cup {NULL}
    PROVE  Reach(ny, s) = Reach(nx, s)
<1>1. ClosedUnder(ny, D) /\ s \in Slots
  BY DEF ClosedUnder, Slots
<1>2. Reach(nx, s) \subseteq D /\ Reach(ny, s) \subseteq D
  BY <1>1, ReachLeast
<1>3. /\ ClosedUnder(nx, Reach(nx, s)) /\ s \in Reach(nx, s) \cup {NULL}
      /\ ClosedUnder(ny, Reach(ny, s)) /\ s \in Reach(ny, s) \cup {NULL}
      /\ Reach(nx, s) \in SUBSET Callbs /\ Reach(ny, s) \in SUBSET Callbs
  BY <1>1, ReachClosed
<1>4. ClosedUnder(ny, Reach(nx, s)) /\ ClosedUnder(nx, Reach(ny, s))
  BY <1>2, <1>3 DEF ClosedUnder
<1> QED BY <1>3, <1>4, ReachLeast

Acyclic(nx, D) == \A x \in D : x \notin Reach(nx, nx[x])

(* A structure me is taken out of the list D.                              *)
LEMMA ReachCut ==
    ASSUME NEW nx \in [Callbs -> Slots], NEW ny \in [Callbs -> Slots],
           NEW D \in SUBSET Callbs, ClosedUnder(nx, D), Acyclic(nx, D), NEW me \in D,
           \A x \in D \ {me} : ny[x] = IF nx[x] = me THEN nx[me] ELSE nx[x],
           NEW s \in D \cup {NULL}, s # me
    PROVE  Reach(ny, s) = Reach(nx, s) \ {me}
<1>1. me \in Callbs /\ nx[me] \in Slots /\ nx[me] \in D \cup {NULL} /\ s \in Slots
  BY DEF ClosedUnder, Slots
<1>2. nx[me] # me
  <2>1. nx[me] \in Callbs => nx[me] \in Reach(nx, nx[me])
    BY <1>1, ReachClosed, NullApart
  <2> QED BY <1>1, <2>1 DEF Acyclic
<1>3. /\ Reach(nx, s) \in SUBSET Callbs /\ ClosedUnder(nx, Reach(nx, s))
      /\ s \in Reach(nx, s) \cup {NULL} /\ Reach(nx, s) \subseteq D
  BY <1>1, ReachClosed, ReachLeast
<1>4. Reach(ny, s) \subseteq Reach(nx, s) \ {me}
  <2> DEFINE C == Reach(nx, s) \ {me}
  <2>1. C \in SUBSET Callbs /\ s \in C \cup {NULL}
    BY <1>3
  <2>2. ASSUME NEW x \in C PROVE ny[x] \in C \cup {NULL}
    <3>1. nx[x] \in Reach(nx, s) \cup {NULL} /\ x \in D \ {me}
      BY <1>3 DEF ClosedUnder
    <3>2. CASE nx[x] = me
      <4>1. me \in Reach(nx, s)
        BY <1>1, <3>1, <3>2, NullApart
      <4>2. nx[me] \in Reach(nx, s) \cup {NULL}
        BY <1>3, <4>1 DEF ClosedUnder
      <4> QED BY <1>2, <3>1, <3>2, <4>2
    <3>3. CASE nx[x] # me
      BY <3>1, <3>3
    <3> QED BY <3>2, <3>3
  <2>3. ClosedUnder(ny, C)
    BY <2>2 DEF ClosedUnder
  <2> HIDE DEF C
  <2>4. Reach(ny, s) \subseteq C
    BY <2>1, <2>3, ReachLeast
  <2> QED BY <2>4 DEF C
<1>5. ASSUME NEW C \in SUBSET Callbs, s \in C \cup {NULL}, ClosedUnder(ny, C)
      PROVE  Reach(nx, s) \ {me} \subseteq C
  <2> DEFINE B == (C \cap D) \ {me}
             E == B \cup {x \in {me} : \E y \in B : nx[y] = me}
  <2>1. B \subseteq C /\ B \subseteq D \ {me} /\ E \in SUBSET Callbs
    BY <1>1
  <2>2. s \in E \cup {NULL}
    BY <1>5
  <2>3. ASSUME NEW x \in E PROVE nx[x] \in E \cup {NULL}
    <3>1. CASE x \in B
      <4>1. nx[x] \in D \cup {NULL} /\ ny[x] \in C \cup {NULL}
        BY <1>5, <3>1 DEF ClosedUnder
      <4>2. CASE nx[x] = me
        BY <3>1, <4>2
      <4>3. CASE nx[x] # me
        <5>1. ny[x] = nx[x]
          BY <3>1, <4>3
        <5> QED BY <4>1, <4>3, <5>1
      <4> QED BY <4>2, <4>3
    <3>2. CASE x = me
      <4>1. PICK y \in B : nx[y] = me
        BY <2>3, <3>2
      <4>2. ny[y] = nx[me] /\ ny[y] \in C \cup {NULL}
        BY <1>5, <4>1 DEF ClosedUnder
      <4> QED BY <1>1, <1>2, <3>2, <4>2
    <3> QED BY <3>1, <3>2
  <2>4. ClosedUnder(nx, E)
    <3> HIDE DEF E
    <3> QED BY <2>3 DEF ClosedUnder
  <2>5. Reach(nx, s) \subseteq E
    <3> HIDE DEF E
    <3> QED BY <2>1, <2>2, <2>4, ReachLeast
  <2> QED BY <2>1, <2>5
<1>6. Reach(nx, s) \ {me} \subseteq Reach(ny, s)
  BY <1>3, <1>5 DEF Reach
<1> QED BY <1>4, <1>6

(* What is left is acyclic.                                                *)
LEMMA CutAcyclic ==
    ASSUME NEW nx \in [Callbs -> Slots], NEW ny \in [Callbs -> Slots],
           NEW D \in SUBSET Callbs, ClosedUnder(nx, D), Acyclic(nx, D), NEW me \in D,
           \A x \in D \ {me} : ny[x] = IF nx[x] = me THEN nx[me] ELSE nx[x]
    PROVE  ClosedUnder(ny, D \ {me}) /\ Acyclic(ny, D \ {me})
<1>1. me \in Callbs /\ nx[me] \in Slots /\ nx[me] \in D \cup {NULL}
  BY DEF ClosedUnder
<1>2. nx[me] # me
  <2>1. nx[me] \in Callbs => nx[me] \in Reach(nx, nx[me])
    BY <1>1, ReachClosed, NullApart
  <2> QED BY <1>1, <2>1 DEF Acyclic
<1>3. ASSUME NEW x \in D \ {me}
      PROVE  ny[x] \in D \cup {NULL} /\ ny[x] # me /\ x \notin Reach(ny, ny[x])
  <2>1. nx[x] \in D \cup {NULL} /\ nx[x] \in Slots /\ x \notin Reach(nx, nx[x])
    BY DEF ClosedUnder, Acyclic
  <2>2. /\ ny[x] \in D \cup {NULL} /\ ny[x] # me
        /\ Reach(nx, ny[x]) \subseteq Reach(nx, nx[x])
    <3>1. CASE nx[x] = me
      <4>1. ny[x] = nx[me]
        BY <3>1
      <4>2. Reach(nx, nx[x]) = {me} \cup Reach(nx, nx[me])
        BY <1>1, <3>1, ReachUnfold
      <4> QED BY <1>1, <1>2, <4>1, <4>2
    <3>2. CASE nx[x] # me
      BY <2>1, <3>2
    <3> QED BY <3>1, <3>2
  <2>3. Reach(ny, ny[x]) = Reach(nx, ny[x]) \ {me}
    BY <2>2, ReachCut
  <2> QED BY <2>1, <2>2, <2>3
<1> QED BY <1>3, NullApart DEF ClosedUnder, Acyclic

-----------------------------------------------------------------------------
LEMMA ListFacts ==
    ASSUME CallbInv
    PROVE  /\ c_next \in [Callbs -> Slots] /\ ct_first_cb \in Slots /\ cb_freelist \in Slots
           /\ Listed = Reach(c_next, ct_first_cb) /\ Unused = Reach(c_next, cb_freelist)
           /\ Listed \in SUBSET Callbs /\ ct_first_cb \in Listed \cup {NULL}
           /\ ClosedUnder(c_next, Listed) /\ Acyclic(c_next, Listed)
           /\ Unused \in SUBSET Callbs /\ cb_freelist \in Unused \cup {NULL}
           /\ ClosedUnder(c_next, Unused) /\ Acyclic(c_next, Unused)
           /\ Listed \cap Unused = {} /\ Listed \subseteq allocated /\ Unused \subseteq allocated
<1>1. c_next \in [Callbs -> Slots] /\ ct_first_cb \in Slots /\ cb_freelist \in Slots
  BY DEF CallbInv, CallbTypeOK
<1>2. Listed = Reach(c_next, ct_first_cb) /\ Unused = Reach(c_next, cb_freelist)
  BY FromReach DEF Listed, Unused
<1>3. Acyclic(c_next, Listed) /\ Acyclic(c_next, Unused)
  BY FromReach DEF CallbInv, ListsOK, Acyclic
<1> QED BY <1>1, <1>2, <1>3, ReachClosed DEF CallbInv, ListsOK

(* The two lists after a step, from their links.                           *)
LEMMA ListsAfter ==
    ASSUME NEW L, NEW U, L = Reach(c_next', ct_first_cb'), U = Reach(c_next', cb_freelist'),
           L \cap U = {}, L \cup U \subseteq allocated', Acyclic(c_next', L), Acyclic(c_next', U)
    PROVE  ListsOK' /\ Listed' = L /\ Unused' = U
<1>1. Listed' = L /\ Unused' = U
  BY DEF Listed, Unused, From, Closed, Reach, ClosedUnder
<1>2. \A s \in L \cup U : s \notin From(c_next[s])'
  BY DEF From, Closed, Reach, ClosedUnder, Acyclic
<1> QED BY <1>1, <1>2 DEF ListsOK

LEMMA SameLists ==
    ASSUME CallbInv, UNCHANGED <<ct_first_cb, cb_freelist, c_next, allocated>>
    PROVE  ListsOK' /\ Listed' = Listed /\ Unused' = Unused
BY ListFacts, ListsAfter

(* callb_add puts a structure that was on neither list, or was the first   *)
(* free one, at the head.                                                  *)
LEMMA AddLists ==
    ASSUME CallbInv, NEW s \in Callbs,
           IF cb_freelist = NULL THEN s \notin allocated ELSE s = cb_freelist,
           allocated' = allocated \cup {s}, ct_first_cb' = s,
           cb_freelist' = IF cb_freelist = NULL THEN NULL ELSE c_next[s],
           c_next' = [c_next EXCEPT ![s] = ct_first_cb]
    PROVE  ListsOK' /\ Listed' = Listed \cup {s} /\ s \notin Listed
<1>1. /\ c_next \in [Callbs -> Slots] /\ ct_first_cb \in Slots /\ cb_freelist \in Slots
      /\ Listed = Reach(c_next, ct_first_cb) /\ Unused = Reach(c_next, cb_freelist)
      /\ Listed \in SUBSET Callbs /\ ct_first_cb \in Listed \cup {NULL}
      /\ ClosedUnder(c_next, Listed) /\ Acyclic(c_next, Listed)
      /\ Unused \in SUBSET Callbs /\ cb_freelist \in Unused \cup {NULL}
      /\ ClosedUnder(c_next, Unused) /\ Acyclic(c_next, Unused)
      /\ Listed \cap Unused = {} /\ Listed \subseteq allocated /\ Unused \subseteq allocated
  BY ListFacts
<1>2. /\ c_next' \in [Callbs -> Slots] /\ c_next'[s] = ct_first_cb
      /\ \A x \in Callbs \ {s} : c_next'[x] = c_next[x]
  BY <1>1
<1>3. s \notin Listed
  BY <1>1
<1> DEFINE G == Reach(c_next, cb_freelist')
<1>4. /\ cb_freelist' \in Slots /\ G \in SUBSET Unused /\ s \notin G
      /\ ClosedUnder(c_next, G) /\ cb_freelist' \in G \cup {NULL}
  <2>1. CASE cb_freelist = NULL
    <3>1. G = {} /\ cb_freelist' = NULL
      BY <2>1, ReachNull
    <3> HIDE DEF G
    <3> QED BY <3>1 DEF ClosedUnder, Slots
  <2>2. CASE cb_freelist # NULL
    <3>1. s \in Unused /\ cb_freelist' = c_next[s] /\ c_next[s] \in Slots
      BY <1>1, <2>2
    <3>2. G \subseteq Unused
      BY <1>1, <3>1, ReachSuffix
    <3>3. s \notin G
      BY <1>1, <3>1 DEF Acyclic
    <3> QED BY <1>1, <3>1, <3>2, <3>3, ReachClosed
  <2> QED BY <2>1, <2>2
<1> HIDE DEF G
<1> DEFINE ny == c_next'
<1>5. ASSUME NEW x \in Listed \cup {NULL} PROVE Reach(c_next', x) = Reach(c_next, x)
  <2>1. ny \in [Callbs -> Slots] /\ \A y \in Listed : ny[y] = c_next[y]
    BY <1>1, <1>2, <1>3
  <2> HIDE DEF ny
  <2>2. Reach(ny, x) = Reach(c_next, x)
    BY <1>1, <2>1, ReachSame
  <2> QED BY <2>2 DEF ny
<1>6. ASSUME NEW x \in G \cup {NULL} PROVE Reach(c_next', x) = Reach(c_next, x)
  <2>1. /\ G \in SUBSET Callbs /\ ny \in [Callbs -> Slots]
        /\ \A y \in G : ny[y] = c_next[y]
    BY <1>1, <1>2, <1>4
  <2> HIDE DEF ny
  <2>2. Reach(ny, x) = Reach(c_next, x)
    BY <1>1, <1>4, <2>1, ReachSame
  <2> QED BY <2>2 DEF ny
<1>7. Reach(c_next', ct_first_cb') = Listed \cup {s}
  BY <1>1, <1>2, <1>5, ReachUnfold
<1>8. Reach(c_next', cb_freelist') = G
  BY <1>4, <1>6 DEF G
<1>9. Acyclic(c_next', Listed \cup {s})
  <2>1. s \notin Reach(c_next', c_next'[s])
    BY <1>1, <1>2, <1>3, <1>5
  <2>2. ASSUME NEW x \in Listed, x # s PROVE x \notin Reach(c_next', c_next'[x])
    <3>1. c_next'[x] = c_next[x] /\ c_next[x] \in Listed \cup {NULL}
      BY <1>1, <1>2, <2>2 DEF ClosedUnder
    <3>2. x \notin Reach(c_next, c_next[x])
      BY <1>1 DEF Acyclic
    <3> QED BY <1>5, <3>1, <3>2
  <2> QED BY <2>1, <2>2 DEF Acyclic
<1>10. Acyclic(c_next', G)
  <2>1. ASSUME NEW x \in G PROVE x \notin Reach(c_next', c_next'[x])
    <3>1. c_next'[x] = c_next[x] /\ c_next[x] \in G \cup {NULL}
      BY <1>1, <1>2, <1>4 DEF ClosedUnder
    <3>2. x \notin Reach(c_next, c_next[x])
      BY <1>1, <1>4 DEF Acyclic
    <3> QED BY <1>6, <3>1, <3>2
  <2> QED BY <2>1 DEF Acyclic
<1>11. (Listed \cup {s}) \cap G = {} /\ (Listed \cup {s}) \cup G \subseteq allocated'
  BY <1>1, <1>4
<1>12. ListsOK' /\ Listed' = Listed \cup {s}
  BY <1>7, <1>8, <1>9, <1>10, <1>11, ListsAfter
<1> QED BY <1>3, <1>12

(* callb_delete takes a structure out of the list, wherever it is, and     *)
(* puts it at the head of the free list.                                   *)
LEMMA DeleteLists ==
    ASSUME CallbInv, NEW me \in Listed, allocated' = allocated,
           ct_first_cb' = IF ct_first_cb = me THEN c_next[me] ELSE ct_first_cb,
           c_next' = [Relinked(me) EXCEPT ![me] = cb_freelist], cb_freelist' = me
    PROVE  /\ ListsOK' /\ Listed' = Listed \ {me} /\ c_next' \in [Callbs -> Slots]
           /\ \A x \in (Listed \cup {NULL}) \ {me} :
                 Reach(c_next', x) = Reach(c_next, x) \ {me}
           /\ \A x \in Listed \ {me} :
                 c_next'[x] = IF c_next[x] = me THEN c_next[me] ELSE c_next[x]
<1>1. /\ c_next \in [Callbs -> Slots] /\ ct_first_cb \in Slots /\ cb_freelist \in Slots
      /\ Listed = Reach(c_next, ct_first_cb) /\ Unused = Reach(c_next, cb_freelist)
      /\ Listed \in SUBSET Callbs /\ ct_first_cb \in Listed \cup {NULL}
      /\ ClosedUnder(c_next, Listed) /\ Acyclic(c_next, Listed)
      /\ Unused \in SUBSET Callbs /\ cb_freelist \in Unused \cup {NULL}
      /\ ClosedUnder(c_next, Unused) /\ Acyclic(c_next, Unused)
      /\ Listed \cap Unused = {} /\ Listed \subseteq allocated /\ Unused \subseteq allocated
  BY ListFacts
<1>2. Relinked(me) = [x \in Callbs |-> IF c_next[x] = me /\ x \in Listed
                                       THEN c_next[me] ELSE c_next[x]]
  BY DEF Relinked, Listed
<1>3. /\ me \in Callbs /\ c_next[me] \in Slots /\ c_next' \in [Callbs -> Slots]
      /\ c_next'[me] = cb_freelist
      /\ \A x \in Listed \ {me} : c_next'[x] = IF c_next[x] = me THEN c_next[me] ELSE c_next[x]
      /\ \A x \in Unused : c_next'[x] = c_next[x]
  BY <1>1, <1>2
<1> DEFINE ny == c_next'
<1>4. ASSUME NEW x \in Listed \cup {NULL}, x # me
      PROVE  Reach(c_next', x) = Reach(c_next, x) \ {me}
  <2>1. /\ ny \in [Callbs -> Slots] /\ me \in Listed
        /\ \A y \in Listed \ {me} : ny[y] = IF c_next[y] = me THEN c_next[me] ELSE c_next[y]
    BY <1>3
  <2> HIDE DEF ny
  <2>2. Reach(ny, x) = Reach(c_next, x) \ {me}
    BY <1>1, <1>4, <2>1, ReachCut
  <2> QED BY <2>2 DEF ny
<1>5. ClosedUnder(c_next', Listed \ {me}) /\ Acyclic(c_next', Listed \ {me})
  BY <1>1, <1>3, CutAcyclic
<1>6. Reach(c_next', ct_first_cb') = Listed \ {me}
  <2>1. CASE ct_first_cb = me
    <3>1. Listed = {me} \cup Reach(c_next, c_next[me]) /\ c_next[me] \in Listed \cup {NULL}
      BY <1>1, <1>3, <2>1, ReachUnfold DEF ClosedUnder
    <3>2. me \notin Reach(c_next, c_next[me])
      BY <1>1 DEF Acyclic
    <3>3. c_next[me] # me
      <4>1. c_next[me] \in Callbs => c_next[me] \in Reach(c_next, c_next[me])
        BY <1>1, <1>3, ReachClosed, NullApart
      <4> QED BY <1>3, <3>2, <4>1
    <3> QED BY <1>4, <2>1, <3>1, <3>3
  <2>2. CASE ct_first_cb # me
    BY <1>1, <1>4, <2>2
  <2> QED BY <2>1, <2>2
<1>7. ASSUME NEW x \in Unused \cup {NULL} PROVE Reach(c_next', x) = Reach(c_next, x)
  <2>1. ny \in [Callbs -> Slots] /\ \A y \in Unused : ny[y] = c_next[y]
    BY <1>3
  <2> HIDE DEF ny
  <2>2. Reach(ny, x) = Reach(c_next, x)
    BY <1>1, <2>1, ReachSame
  <2> QED BY <2>2 DEF ny
<1>8. Reach(c_next', cb_freelist') = Unused \cup {me}
  BY <1>1, <1>3, <1>7, ReachUnfold
<1>9. Acyclic(c_next', Unused \cup {me})
  <2>1. me \notin Reach(c_next', c_next'[me])
    BY <1>1, <1>3, <1>7
  <2>2. ASSUME NEW x \in Unused PROVE x \notin Reach(c_next', c_next'[x])
    <3>1. c_next'[x] = c_next[x] /\ c_next[x] \in Unused \cup {NULL}
      BY <1>1, <1>3 DEF ClosedUnder
    <3>2. x \notin Reach(c_next, c_next[x])
      BY <1>1 DEF Acyclic
    <3> QED BY <1>7, <3>1, <3>2
  <2> QED BY <2>1, <2>2 DEF Acyclic
<1>10. /\ (Listed \ {me}) \cap (Unused \cup {me}) = {}
       /\ (Listed \ {me}) \cup (Unused \cup {me}) \subseteq allocated'
  BY <1>1
<1>11. ListsOK' /\ Listed' = Listed \ {me}
  BY <1>5, <1>6, <1>8, <1>9, <1>10, ListsAfter
<1> QED BY <1>3, <1>4, <1>11

-----------------------------------------------------------------------------
(* What is left to call, before and after a step, from the links.          *)
LEMMA ToCallIs ==
    /\ ToCall = IF cpr = "begin" \/ failed # NULL THEN Listed
                ELSE IF cpr = "func" THEN Reach(c_next, cp)
                ELSE IF cpr \in {"wait", "done"} THEN Reach(c_next, c_next[cp]) ELSE {}
    /\ ToCall' = IF cpr' = "begin" \/ failed' # NULL THEN Listed'
                 ELSE IF cpr' = "func" THEN Reach(c_next', cp')
                 ELSE IF cpr' \in {"wait", "done"} THEN Reach(c_next', c_next'[cp']) ELSE {}
<1>1. /\ From(cp)' = Reach(c_next', cp') /\ From(c_next[cp])' = Reach(c_next', c_next'[cp'])
      /\ From(cp) = Reach(c_next, cp) /\ From(c_next[cp]) = Reach(c_next, c_next[cp])
  BY DEF From, Closed, Reach, ClosedUnder
<1> QED BY <1>1 DEF ToCall

(* The daemons' own steps leave the table and the walk alone.              *)
LEMMA DaemonStep ==
    ASSUME CallbInv, UNCHANGED <<table, walker>>
    PROVE  /\ ListsOK' /\ Listed' = Listed /\ ToCall' = ToCall /\ WalkOK'
           /\ InFunc' = InFunc /\ Listed \in SUBSET Callbs
<1>1. ListsOK' /\ Listed' = Listed
  BY SameLists DEF table
<1>2. ToCall' = ToCall
  BY <1>1, ToCallIs DEF table, walker
<1>3. WalkOK' /\ InFunc' = InFunc
  BY <1>1 DEF CallbInv, WalkOK, InFunc, table, walker
<1> QED BY <1>1, <1>2, <1>3, ListFacts

LEMMA CreateStep ==
    ASSUME CallbInv, NEW t \in Daemons, thread_create(t) PROVE CallbInv'
<1> USE DEF GoTo
<1>1. UNCHANGED <<table, walker, cc_events, cc_id>> /\ d_pc[t] = "none"
      /\ d_pc' = [d_pc EXCEPT ![t] = "new"]
  BY DEF thread_create
<1>2. /\ ListsOK' /\ Listed' = Listed /\ ToCall' = ToCall /\ WalkOK'
      /\ InFunc' = InFunc /\ Listed \in SUBSET Callbs
  BY <1>1, DaemonStep
<1>3. CallbTypeOK'
  BY <1>1 DEF CallbInv, CallbTypeOK, table, walker
<1>4. /\ \A d \in Daemons : d # t => d_pc'[d] = d_pc[d]
      /\ d_pc'[t] = "new"
  BY <1>1 DEF CallbInv, CallbTypeOK
<1>5. DaemonsOK'
  BY <1>1, <1>2, <1>4 DEF CallbInv, DaemonsOK, Registered, table, walker
<1>6. SeenOK'
  BY <1>1, <1>2 DEF CallbInv, SeenOK, CallDone, table, walker
<1>7. CheckOK'
  BY <1>1, <1>4 DEF CallbInv, CheckOK, thread_create, walker
<1> QED BY <1>2, <1>3, <1>5, <1>6, <1>7 DEF CallbInv

(* A daemon at work enters a safe region, or is about to exit.             *)
LEMMA SafeStep ==
    ASSUME CallbInv, NEW t \in Daemons, SAFE_BEGIN(t) \/ EXIT(t) PROVE CallbInv'
<1>1. PICK l \in {"safe", "delete"} :
        /\ UNCHANGED <<table, walker, cc_id>> /\ d_pc[t] = "work"
        /\ d_pc' = [d_pc EXCEPT ![t] = l]
        /\ cc_events' = [cc_events EXCEPT ![t] = @ \cup {"SAFE"}]
  BY DEF SAFE_BEGIN, EXIT, GoTo
<1>2. /\ ListsOK' /\ Listed' = Listed /\ ToCall' = ToCall /\ WalkOK'
      /\ InFunc' = InFunc /\ Listed \in SUBSET Callbs
  BY <1>1, DaemonStep
<1>3. CallbTypeOK'
  BY <1>1 DEF CallbInv, CallbTypeOK, table, walker
<1>4. /\ \A d \in Daemons : d # t => d_pc'[d] = d_pc[d] /\ cc_events'[d] = cc_events[d]
      /\ d_pc'[t] = l /\ cc_events'[t] = cc_events[t] \cup {"SAFE"}
  BY <1>1 DEF CallbInv, CallbTypeOK
<1>5. DaemonsOK'
  BY <1>1, <1>2, <1>4 DEF CallbInv, DaemonsOK, Registered, table, walker
<1>6. SeenOK'
  <2> SUFFICES ASSUME NEW x \in Listed \ ToCall PROVE CallDone(c_arg[x])'
    BY <1>1, <1>2 DEF SeenOK, table
  <2>1. CallDone(c_arg[x]) /\ c_arg[x] \in Daemons
    BY DEF CallbInv, SeenOK, DaemonsOK
  <2> QED BY <1>1, <1>4, <2>1 DEF CallDone, table, walker
<1>7. CheckOK'
  BY <1>1, <1>4 DEF CallbInv, CheckOK, walker
<1> QED BY <1>2, <1>3, <1>5, <1>6, <1>7 DEF CallbInv

(* A daemon leaves a safe region only when it has not been told to stop.   *)
LEMMA EndStep ==
    ASSUME CallbInv, NEW t \in Daemons, SAFE_END(t) PROVE CallbInv'
<1>1. /\ UNCHANGED <<table, walker, cc_id>> /\ d_pc[t] = "safe" /\ "START" \notin cc_events[t]
      /\ d_pc' = [d_pc EXCEPT ![t] = "work"]
      /\ cc_events' = [cc_events EXCEPT ![t] = @ \ {"SAFE"}]
  BY DEF SAFE_END, NotStarted, GoTo
<1>2. /\ ListsOK' /\ Listed' = Listed /\ ToCall' = ToCall /\ WalkOK'
      /\ InFunc' = InFunc /\ Listed \in SUBSET Callbs
  BY <1>1, DaemonStep
<1>3. CallbTypeOK'
  BY <1>1 DEF CallbInv, CallbTypeOK, table, walker
<1>4. /\ \A d \in Daemons : d # t => d_pc'[d] = d_pc[d] /\ cc_events'[d] = cc_events[d]
      /\ d_pc'[t] = "work" /\ cc_events'[t] = cc_events[t] \ {"SAFE"}
  BY <1>1 DEF CallbInv, CallbTypeOK
<1>5. DaemonsOK'
  BY <1>1, <1>2, <1>4 DEF CallbInv, DaemonsOK, Registered, table, walker
<1>6. SeenOK'
  <2> SUFFICES ASSUME NEW x \in Listed \ ToCall PROVE CallDone(c_arg[x])'
    BY <1>1, <1>2 DEF SeenOK, table
  <2>1. CallDone(c_arg[x]) /\ c_arg[x] \in Daemons
    BY DEF CallbInv, SeenOK, DaemonsOK
  <2> QED BY <1>1, <1>4, <2>1 DEF CallDone, table, walker
<1>7. cpr \notin {"check", "frozen"}
  <2> SUFFICES ASSUME cpr \in {"check", "frozen"} PROVE FALSE
    OBVIOUS
  <2>1. failed = NULL /\ code = "CHKPT"
    BY DEF CallbInv, WalkOK
  <2>2. ToCall = {}
    BY <2>1, ToCallIs
  <2>3. cc_id[t] \in Listed /\ c_arg[cc_id[t]] = t
    BY <1>1 DEF CallbInv, DaemonsOK, Registered
  <2>4. CallDone(t)
    BY <2>2, <2>3 DEF CallbInv, SeenOK
  <2> QED BY <1>1, <2>1, <2>4 DEF CallDone
<1>8. CheckOK'
  BY <1>1, <1>7 DEF CheckOK, walker
<1> QED BY <1>2, <1>3, <1>5, <1>6, <1>8 DEF CallbInv

LEMMA AddStep ==
    ASSUME CallbInv, NEW t \in Daemons, callb_add(t) PROVE CallbInv'
<1>1. /\ d_pc[t] = "new" /\ ~ct_busy /\ UNCHANGED <<ct_busy, walker>>
      /\ d_pc' = [d_pc EXCEPT ![t] = "work"]
      /\ cc_events' = [cc_events EXCEPT ![t] = {}]
  BY DEF callb_add, Open, GoTo
<1>2. PICK s \in Callbs :
        /\ IF cb_freelist = NULL THEN s \notin allocated ELSE s = cb_freelist
        /\ allocated' = allocated \cup {s}
        /\ cb_freelist' = IF cb_freelist = NULL THEN NULL ELSE c_next[s]
        /\ c_flag' = [c_flag EXCEPT ![s] = @ \cup {"TAKEN"}]
        /\ c_arg' = [c_arg EXCEPT ![s] = t]
        /\ c_next' = [c_next EXCEPT ![s] = ct_first_cb]
        /\ ct_first_cb' = s
        /\ cc_id' = [cc_id EXCEPT ![t] = s]
  BY DEF callb_add
<1>3. ListsOK' /\ Listed' = Listed \cup {s} /\ s \notin Listed
  BY <1>2, AddLists
<1>4. cpr = "run" /\ code = "RESUME" /\ failed = NULL
  BY <1>1 DEF CallbInv, WalkOK
<1>5. CallbTypeOK'
  BY <1>1, <1>2 DEF CallbInv, CallbTypeOK, Slots, walker
<1>6. /\ \A d \in Daemons : d # t => /\ d_pc'[d] = d_pc[d] /\ cc_events'[d] = cc_events[d]
                                     /\ cc_id'[d] = cc_id[d]
      /\ d_pc'[t] = "work" /\ cc_events'[t] = {} /\ cc_id'[t] = s
  BY <1>1, <1>2 DEF CallbInv, CallbTypeOK
<1>7. /\ \A x \in Callbs : x # s => c_arg'[x] = c_arg[x] /\ c_flag'[x] = c_flag[x]
      /\ c_arg'[s] = t /\ c_flag'[s] = c_flag[s] \cup {"TAKEN"}
  BY <1>2 DEF CallbInv, CallbTypeOK
<1>8. Listed \in SUBSET Callbs
  BY ListFacts
<1>9. \A x \in Listed : /\ c_arg[x] \in Daemons /\ c_arg[x] # t /\ Registered(c_arg[x])
                        /\ cc_id[c_arg[x]] = x
  BY <1>1 DEF CallbInv, DaemonsOK, Registered
<1>10. DaemonsOK'
  <2>1. ASSUME NEW d \in Daemons, Registered(d)'
        PROVE  /\ cc_id'[d] \in Listed' /\ c_arg'[cc_id'[d]] = d
               /\ "SAFE" \in cc_events'[d] <=> d_pc'[d] # "work"
    <3>1. CASE d = t
      BY <1>3, <1>6, <1>7, <3>1
    <3>2. CASE d # t
      <4>1. Registered(d)
        BY <1>6, <2>1, <3>2 DEF Registered
      <4>2. /\ cc_id[d] \in Listed /\ c_arg[cc_id[d]] = d
            /\ "SAFE" \in cc_events[d] <=> d_pc[d] # "work"
        BY <4>1 DEF CallbInv, DaemonsOK
      <4> QED BY <1>3, <1>6, <1>7, <1>8, <3>2, <4>2
    <3> QED BY <3>1, <3>2
  <2>2. ASSUME NEW x \in Listed'
        PROVE c_arg'[x] \in Daemons /\ Registered(c_arg[x])' /\ cc_id'[c_arg'[x]] = x
    <3>1. CASE x = s
      BY <1>6, <1>7, <3>1 DEF Registered
    <3>2. CASE x # s
      <4>1. x \in Listed /\ x \in Callbs
        BY <1>3, <1>8, <2>2, <3>2
      <4> QED BY <1>6, <1>7, <1>9, <3>2, <4>1 DEF Registered
    <3> QED BY <3>1, <3>2
  <2>3. ASSUME NEW x \in Callbs PROVE c_flag'[x] = IF x \in Listed' THEN {"TAKEN"} ELSE {}
    <3>1. c_flag[x] = IF x \in Listed THEN {"TAKEN"} ELSE {}
      BY <1>4 DEF CallbInv, DaemonsOK, InFunc
    <3> QED BY <1>3, <1>7, <3>1
  <2>4. ~InFunc'
    BY <1>1, <1>4 DEF InFunc, walker
  <2> QED BY <2>1, <2>2, <2>3, <2>4 DEF DaemonsOK
<1>11. WalkOK'
  BY <1>1, <1>4 DEF CallbInv, WalkOK, InFunc, walker
<1>12. SeenOK'
  <2>1. ToCall = {}
    BY <1>4, ToCallIs
  <2> SUFFICES ASSUME NEW x \in Listed' PROVE CallDone(c_arg[x])'
    BY DEF SeenOK
  <2>2. CASE x = s
    BY <1>1, <1>4, <1>6, <1>7, <2>2 DEF CallDone, walker
  <2>3. CASE x # s
    <3>1. x \in Listed /\ x \in Callbs
      BY <1>3, <1>8, <2>3
    <3>2. CallDone(c_arg[x])
      BY <2>1, <3>1 DEF CallbInv, SeenOK
    <3> QED BY <1>1, <1>4, <1>6, <1>7, <1>9, <2>3, <3>1, <3>2 DEF CallDone, walker
  <2> QED BY <2>2, <2>3
<1>13. CheckOK'
  BY <1>1, <1>4 DEF CheckOK, walker
<1> QED BY <1>3, <1>5, <1>10, <1>11, <1>12, <1>13 DEF CallbInv

(* A callback that is not being executed goes away: the walk does not      *)
(* stand on it, and finds the rest of the list as before.                  *)
LEMMA DeleteStep ==
    ASSUME CallbInv, NEW t \in Daemons, callb_delete(t) PROVE CallbInv'
<1> DEFINE me == cc_id[t]
<1>1. /\ d_pc[t] = "delete" /\ "EXECUTING" \notin c_flag[me]
      /\ ct_first_cb' = IF ct_first_cb = me THEN c_next[me] ELSE ct_first_cb
      /\ c_flag' = [c_flag EXCEPT ![me] = {}]
      /\ c_next' = [Relinked(me) EXCEPT ![me] = cb_freelist] /\ cb_freelist' = me
      /\ d_pc' = [d_pc EXCEPT ![t] = "none"]
      /\ cc_events' = [cc_events EXCEPT ![t] = {}]
      /\ cc_id' = [cc_id EXCEPT ![t] = NULL]
      /\ UNCHANGED <<ct_busy, c_arg, allocated, walker>>
  BY DEF callb_delete, MayDelete, GoTo
<1>2. me \in Listed /\ c_arg[me] = t
  BY <1>1 DEF CallbInv, DaemonsOK, Registered
<1>3. /\ ListsOK' /\ Listed' = Listed \ {me} /\ c_next' \in [Callbs -> Slots]
      /\ \A x \in (Listed \cup {NULL}) \ {me} :
            Reach(c_next', x) = Reach(c_next, x) \ {me}
      /\ \A x \in Listed \ {me} :
            c_next'[x] = IF c_next[x] = me THEN c_next[me] ELSE c_next[x]
  <2> HIDE DEF me
  <2> QED BY <1>1, <1>2, DeleteLists
<1>4. /\ Listed \in SUBSET Callbs /\ ClosedUnder(c_next, Listed) /\ Acyclic(c_next, Listed)
      /\ me \in Callbs /\ c_next \in [Callbs -> Slots] /\ ct_first_cb \in Slots
      /\ cb_freelist \in Slots
  BY <1>2, ListFacts
<1>5. CallbTypeOK'
  BY <1>1, <1>3, <1>4 DEF CallbInv, CallbTypeOK, Slots, walker
<1>6. /\ \A d \in Daemons : d # t => /\ d_pc'[d] = d_pc[d] /\ cc_events'[d] = cc_events[d]
                                     /\ cc_id'[d] = cc_id[d]
      /\ d_pc'[t] = "none" /\ c_arg' = c_arg
      /\ \A x \in Callbs : c_flag'[x] = IF x = me THEN {} ELSE c_flag[x]
  BY <1>1, <1>4 DEF CallbInv, CallbTypeOK
<1>7. UNCHANGED <<ct_busy, cpr, cp, code, failed, unchecked>> /\ InFunc' = InFunc
  BY <1>1 DEF walker, InFunc
<1>8. InFunc => cp # me /\ cp \in Listed
  BY <1>1, <1>2, <1>4 DEF CallbInv, DaemonsOK, WalkOK
<1>9. \A x \in Listed \ {me} : /\ c_arg[x] \in Daemons /\ c_arg[x] # t /\ Registered(c_arg[x])
                               /\ cc_id[c_arg[x]] = x
  BY DEF CallbInv, DaemonsOK
<1> HIDE DEF me
<1>10. DaemonsOK'
  <2>1. ASSUME NEW d \in Daemons, Registered(d)'
        PROVE  /\ cc_id'[d] \in Listed' /\ c_arg'[cc_id'[d]] = d
               /\ "SAFE" \in cc_events'[d] <=> d_pc'[d] # "work"
    <3>1. d # t /\ Registered(d)
      BY <1>6, <2>1 DEF Registered
    <3>2. /\ cc_id[d] \in Listed /\ c_arg[cc_id[d]] = d
          /\ "SAFE" \in cc_events[d] <=> d_pc[d] # "work"
      BY <3>1 DEF CallbInv, DaemonsOK
    <3> QED BY <1>2, <1>3, <1>6, <3>1, <3>2
  <2>2. ASSUME NEW x \in Listed'
        PROVE c_arg'[x] \in Daemons /\ Registered(c_arg[x])' /\ cc_id'[c_arg'[x]] = x
    BY <1>3, <1>6, <1>9, <2>2 DEF Registered
  <2>3. ASSUME NEW x \in Callbs
        PROVE  c_flag'[x] = IF x \notin Listed' THEN {}
                            ELSE IF InFunc' /\ cp' = x THEN {"TAKEN", "EXECUTING"} ELSE {"TAKEN"}
    <3>1. c_flag[x] = IF x \notin Listed THEN {}
                      ELSE IF InFunc /\ cp = x THEN {"TAKEN", "EXECUTING"} ELSE {"TAKEN"}
      BY DEF CallbInv, DaemonsOK
    <3> QED BY <1>3, <1>6, <1>7, <3>1
  <2> QED BY <2>1, <2>2, <2>3 DEF DaemonsOK
<1>11. WalkOK'
  BY <1>3, <1>7, <1>8 DEF CallbInv, WalkOK
<1>12. ToCall' = ToCall \ {me}
  <2>1. CASE cpr = "begin" \/ failed # NULL
    BY <1>3, <1>7, <2>1, ToCallIs
  <2>2. CASE ~(cpr = "begin" \/ failed # NULL) /\ cpr = "func"
    <3>1. cp # me /\ cp \in Listed
      BY <1>8, <2>2 DEF InFunc
    <3> QED BY <1>3, <1>7, <2>2, <3>1, ToCallIs
  <2>3. CASE ~(cpr = "begin" \/ failed # NULL) /\ cpr \in {"wait", "done"}
    <3>1. cp # me /\ cp \in Listed
      BY <1>8, <2>3 DEF InFunc
    <3>2. ToCall = Reach(c_next, c_next[cp]) /\ ToCall' = Reach(c_next', c_next'[cp])
      BY <1>7, <2>3, ToCallIs
    <3>3. c_next[cp] \in Listed \cup {NULL} /\ c_next[me] \in Listed \cup {NULL}
      BY <1>2, <1>4, <3>1 DEF ClosedUnder
    <3>4. CASE c_next[cp] = me
      <4>1. Reach(c_next, me) = {me} \cup Reach(c_next, c_next[me])
        BY <1>4, ReachUnfold
      <4>2. me \notin Reach(c_next, c_next[me])
        BY <1>2, <1>4 DEF Acyclic
      <4>3. c_next[me] # me
        <5>1. c_next[me] \in Callbs => c_next[me] \in Reach(c_next, c_next[me])
          BY <1>4, ReachClosed, NullApart
        <5> QED BY <1>4, <4>2, <5>1
      <4>4. Reach(c_next', c_next[me]) = Reach(c_next, c_next[me]) \ {me}
        BY <1>3, <3>3, <4>3
      <4>5. c_next'[cp] = c_next[me]
        BY <1>3, <3>1, <3>4
      <4> QED BY <3>2, <3>4, <4>1, <4>4, <4>5
    <3>5. CASE c_next[cp] # me
      <4>1. c_next'[cp] = c_next[cp]
        BY <1>3, <3>1, <3>5
      <4>2. Reach(c_next', c_next[cp]) = Reach(c_next, c_next[cp]) \ {me}
        BY <1>3, <3>3, <3>5
      <4> QED BY <3>2, <4>1, <4>2
    <3> QED BY <3>4, <3>5
  <2>4. CASE ~(cpr = "begin" \/ failed # NULL) /\ cpr \notin {"func", "wait", "done"}
    BY <1>7, <2>4, ToCallIs
  <2> QED BY <2>1, <2>2, <2>3, <2>4
<1>13. SeenOK'
  <2> SUFFICES ASSUME NEW x \in Listed' \ ToCall' PROVE CallDone(c_arg[x])'
    BY DEF SeenOK
  <2>1. x \in Listed \ ToCall /\ x # me
    BY <1>3, <1>12
  <2>2. CallDone(c_arg[x])
    BY <2>1 DEF CallbInv, SeenOK
  <2> QED BY <1>6, <1>7, <1>9, <2>1, <2>2 DEF CallDone
<1>14. CheckOK'
  BY <1>6, <1>7 DEF CallbInv, CheckOK
<1> QED BY <1>3, <1>5, <1>10, <1>11, <1>13, <1>14 DEF CallbInv

-----------------------------------------------------------------------------
(* The checkpointing thread's steps leave the lists and the daemons' place *)
(* alone.                                                                  *)
LEMMA WalkStep ==
    ASSUME CallbInv, UNCHANGED <<ct_first_cb, cb_freelist, c_next, c_arg, allocated, cc_id, d_pc>>
    PROVE  /\ ListsOK' /\ Listed' = Listed /\ Listed \in SUBSET Callbs
           /\ \A t \in Daemons : Registered(t)' = Registered(t)
BY SameLists, ListFacts DEF Registered

(* The flags, when no callback is executed after the step.                 *)
LEMMA FlagsAfter ==
    ASSUME CallbInv, UNCHANGED <<ct_first_cb, cb_freelist, c_next, c_arg, allocated, daemons>>,
           \A x \in Callbs : c_flag'[x] = IF x \notin Listed THEN {}
               ELSE IF InFunc' /\ cp' = x THEN {"TAKEN", "EXECUTING"} ELSE {"TAKEN"}
    PROVE  DaemonsOK'
<1>1. /\ Listed' = Listed /\ c_arg' = c_arg /\ cc_id' = cc_id /\ d_pc' = d_pc
      /\ cc_events' = cc_events
  BY WalkStep DEF daemons
<1> QED BY <1>1 DEF CallbInv, DaemonsOK, Registered

LEMMA LockStep == ASSUME CallbInv, callb_lock_table PROVE CallbInv'
<1>1. /\ cpr = "run" /\ ct_busy' = TRUE /\ cpr' = "begin" /\ code' = "CHKPT"
      /\ UNCHANGED <<ct_first_cb, cb_freelist, c_next, c_flag, c_arg, allocated,
                     cp, failed, unchecked, cc_id, d_pc, cc_events, daemons>>
  BY DEF callb_lock_table, daemons
<1>2. ListsOK' /\ Listed' = Listed
  BY <1>1, WalkStep
<1>3. CallbTypeOK'
  BY <1>1 DEF CallbInv, CallbTypeOK
<1>4. DaemonsOK'
  BY <1>1, FlagsAfter DEF CallbInv, DaemonsOK, InFunc
<1>5. WalkOK' /\ CheckOK'
  BY <1>1 DEF CallbInv, WalkOK, InFunc, CheckOK
<1>6. SeenOK'
  BY <1>1, ToCallIs DEF SeenOK
<1> QED BY <1>2, <1>3, <1>4, <1>5, <1>6 DEF CallbInv

LEMMA BeginStep == ASSUME CallbInv, callb_execute_class PROVE CallbInv'
<1>1. /\ cpr = "begin" /\ failed' = NULL /\ GoOn(c_flag, ct_first_cb)
      /\ UNCHANGED <<ct_busy, ct_first_cb, cb_freelist, c_next, c_arg, allocated,
                     code, unchecked, cc_id, d_pc, cc_events, daemons>>
  BY DEF callb_execute_class, daemons
<1>2. /\ c_next \in [Callbs -> Slots] /\ ct_first_cb \in Slots
      /\ Listed = Reach(c_next, ct_first_cb) /\ ct_first_cb \in Listed \cup {NULL}
      /\ ListsOK' /\ Listed' = Listed /\ Listed \in SUBSET Callbs
  BY <1>1, ListFacts, WalkStep
<1>3. \A x \in Callbs : c_flag[x] = IF x \in Listed THEN {"TAKEN"} ELSE {}
  BY <1>1 DEF CallbInv, DaemonsOK, InFunc
<1>4. ct_busy /\ c_flag \in [Callbs -> SUBSET {"TAKEN", "EXECUTING"}]
  BY <1>1 DEF CallbInv, WalkOK, CallbTypeOK
<1>5. CASE ct_first_cb = NULL
  <2>1. cp' = NULL /\ cpr' = "end" /\ c_flag' = c_flag
    BY <1>1, <1>5 DEF GoOn
  <2>2. Listed = {}
    BY <1>2, <1>5, ReachNull
  <2>3. CallbTypeOK'
    BY <1>1, <2>1 DEF CallbInv, CallbTypeOK, Slots
  <2>4. DaemonsOK'
    BY <1>1, <1>3, <2>1, FlagsAfter DEF InFunc
  <2>5. WalkOK' /\ CheckOK' /\ SeenOK'
    BY <1>1, <1>2, <1>4, <2>1, <2>2 DEF WalkOK, InFunc, CheckOK, SeenOK
  <2> QED BY <1>2, <2>3, <2>4, <2>5 DEF CallbInv
<1>6. CASE ct_first_cb # NULL
  <2>1. /\ cp' = ct_first_cb /\ cpr' = "func"
        /\ c_flag' = [c_flag EXCEPT ![ct_first_cb] = @ \cup {"EXECUTING"}]
    BY <1>1, <1>6 DEF GoOn
  <2>2. ct_first_cb \in Listed /\ ct_first_cb \in Callbs
    BY <1>2, <1>6
  <2>3. CallbTypeOK'
    BY <1>1, <1>4, <2>1 DEF CallbInv, CallbTypeOK, Slots
  <2>4. \A x \in Callbs : c_flag'[x] = IF x \notin Listed THEN {}
               ELSE IF InFunc' /\ cp' = x THEN {"TAKEN", "EXECUTING"} ELSE {"TAKEN"}
    BY <1>3, <1>4, <2>1, <2>2 DEF InFunc
  <2>5. DaemonsOK'
    BY <1>1, <2>4, FlagsAfter
  <2>6. WalkOK' /\ CheckOK'
    BY <1>1, <1>2, <1>4, <2>1, <2>2 DEF WalkOK, CheckOK
  <2>7. ToCall' = Listed'
    BY <1>1, <1>2, <2>1, ToCallIs
  <2>8. SeenOK'
    BY <2>7 DEF SeenOK
  <2> QED BY <1>2, <2>3, <2>5, <2>6, <2>8 DEF CallbInv
<1> QED BY <1>5, <1>6

(* The function: the daemon at cp is told to stop, or to go on.            *)
LEMMA FuncStep == ASSUME CallbInv, Func PROVE CallbInv'
<1> DEFINE t == c_arg[cp]
<1>1. /\ cpr = "func" /\ cpr' = (IF code = "CHKPT" THEN "wait" ELSE "done")
      /\ cc_events' = [cc_events EXCEPT ![t] =
                        IF code = "CHKPT" THEN @ \cup {"START"} ELSE @ \ {"START"}]
      /\ UNCHANGED <<ct_busy, ct_first_cb, cb_freelist, c_next, c_flag, c_arg, allocated,
                     cp, code, failed, unchecked, cc_id, d_pc>>
  BY DEF Func, table
<1>2. cp \in Listed /\ failed = NULL /\ ct_busy
  BY <1>1 DEF CallbInv, WalkOK, InFunc
<1>3. t \in Daemons /\ cc_id[t] = cp
  BY <1>2 DEF CallbInv, DaemonsOK
<1>4. /\ ListsOK' /\ Listed' = Listed /\ Listed \in SUBSET Callbs
      /\ c_next \in [Callbs -> Slots]
      /\ \A d \in Daemons : Registered(d)' = Registered(d)
  BY <1>1, WalkStep, ListFacts
<1> HIDE DEF t
<1>5. CallbTypeOK'
  BY <1>1, <1>3 DEF CallbInv, CallbTypeOK
<1>6. /\ \A d \in Daemons : d # t => cc_events'[d] = cc_events[d]
      /\ "START" \in cc_events'[t] <=> code = "CHKPT"
      /\ "SAFE" \in cc_events'[t] <=> "SAFE" \in cc_events[t]
  BY <1>1, <1>3 DEF CallbInv, CallbTypeOK
<1>7. InFunc /\ InFunc'
  BY <1>1 DEF InFunc
<1>8. DaemonsOK'
  <2>1. ASSUME NEW d \in Daemons, Registered(d)'
        PROVE  /\ cc_id'[d] \in Listed' /\ c_arg'[cc_id'[d]] = d
               /\ "SAFE" \in cc_events'[d] <=> d_pc'[d] # "work"
    <3>1. /\ cc_id[d] \in Listed /\ c_arg[cc_id[d]] = d
          /\ "SAFE" \in cc_events[d] <=> d_pc[d] # "work"
      BY <1>4, <2>1 DEF CallbInv, DaemonsOK
    <3> QED BY <1>1, <1>4, <1>6, <3>1
  <2>2. ASSUME NEW x \in Listed'
        PROVE c_arg'[x] \in Daemons /\ Registered(c_arg[x])' /\ cc_id'[c_arg'[x]] = x
    BY <1>1, <1>4, <2>2 DEF CallbInv, DaemonsOK, Registered
  <2>3. \A x \in Callbs : c_flag'[x] = IF x \notin Listed' THEN {}
               ELSE IF InFunc' /\ cp' = x THEN {"TAKEN", "EXECUTING"} ELSE {"TAKEN"}
    BY <1>1, <1>4, <1>7 DEF CallbInv, DaemonsOK
  <2> QED BY <2>1, <2>2, <2>3 DEF DaemonsOK
<1>9. WalkOK' /\ CheckOK'
  BY <1>1, <1>2, <1>4 DEF WalkOK, InFunc, CheckOK
<1>10. SeenOK'
  <2>1. ToCall = Reach(c_next, cp) /\ ToCall' = Reach(c_next, c_next[cp])
    BY <1>1, <1>2, ToCallIs
  <2>2. ToCall = {cp} \cup ToCall'
    BY <1>2, <1>4, <2>1, ReachUnfold
  <2> SUFFICES ASSUME NEW x \in Listed' \ ToCall' PROVE CallDone(c_arg[x])'
    BY DEF SeenOK
  <2>3. CASE x = cp
    BY <1>1, <1>6, <2>3 DEF CallDone, t
  <2>4. CASE x # cp
    <3>1. CallDone(c_arg[x])
      BY <1>4, <2>2, <2>4 DEF CallbInv, SeenOK
    <3>2. c_arg[x] \in Daemons /\ cc_id[c_arg[x]] = x
      BY <1>4 DEF CallbInv, DaemonsOK
    <3> QED BY <1>1, <1>3, <1>6, <2>4, <3>1, <3>2 DEF CallDone
  <2> QED BY <2>3, <2>4
<1> QED BY <1>4, <1>5, <1>8, <1>9, <1>10 DEF CallbInv

(* The wait ends with the daemon stopped, or with the time out.            *)
LEMMA WaitStep == ASSUME CallbInv, Stopped \/ GiveUp PROVE CallbInv'
<1>1. /\ cpr = "wait" /\ cpr' = "done" /\ failed' \in {failed, cp}
      /\ UNCHANGED <<ct_busy, ct_first_cb, cb_freelist, c_next, c_flag, c_arg, allocated,
                     cp, code, unchecked, cc_id, d_pc, cc_events, daemons>>
  BY DEF Stopped, GiveUp, TimedOut, table, daemons
<1>2. cp \in Listed /\ failed = NULL /\ code = "CHKPT" /\ ct_busy
  BY <1>1 DEF CallbInv, WalkOK, InFunc
<1>3. ListsOK' /\ Listed' = Listed /\ Listed \in SUBSET Callbs
  BY <1>1, WalkStep
<1>4. CallbTypeOK'
  BY <1>1 DEF CallbInv, CallbTypeOK
<1>5. DaemonsOK'
  BY <1>1, FlagsAfter DEF CallbInv, DaemonsOK, InFunc
<1>6. WalkOK' /\ CheckOK'
  BY <1>1, <1>2, <1>3 DEF WalkOK, InFunc, CheckOK
<1>7. SeenOK'
  <2>1. CASE failed' = NULL
    <3>1. ToCall' = ToCall
      BY <1>1, <1>2, <2>1, ToCallIs
    <3> QED BY <1>1, <1>3, <3>1 DEF CallbInv, SeenOK, CallDone
  <2>2. CASE failed' # NULL
    BY <2>2, ToCallIs DEF SeenOK
  <2> QED BY <2>1, <2>2
<1> QED BY <1>3, <1>4, <1>5, <1>6, <1>7 DEF CallbInv

LEMMA NextStep == ASSUME CallbInv, ExecuteNext PROVE CallbInv'
<1> DEFINE flag == [c_flag EXCEPT ![cp] = @ \ {"EXECUTING"}]
           s == c_next[cp]
<1>1. /\ cpr = "done" /\ failed' = failed /\ GoOn(flag, s)
      /\ UNCHANGED <<ct_busy, ct_first_cb, cb_freelist, c_next, c_arg, allocated,
                     code, unchecked, cc_id, d_pc, cc_events, daemons>>
  BY DEF ExecuteNext, daemons
<1>2. cp \in Listed /\ ct_busy /\ (failed # NULL => code = "CHKPT")
  BY <1>1 DEF CallbInv, WalkOK, InFunc
<1>3. /\ c_next \in [Callbs -> Slots] /\ ClosedUnder(c_next, Listed)
      /\ ListsOK' /\ Listed' = Listed /\ Listed \in SUBSET Callbs
  BY <1>1, ListFacts, WalkStep
<1>4. s \in Listed \cup {NULL} /\ s \in Slots
  BY <1>2, <1>3 DEF ClosedUnder
<1>5. /\ flag \in [Callbs -> SUBSET {"TAKEN", "EXECUTING"}]
      /\ \A x \in Callbs : flag[x] = IF x \in Listed THEN {"TAKEN"} ELSE {}
  <2>1. c_flag \in [Callbs -> SUBSET {"TAKEN", "EXECUTING"}]
    BY DEF CallbInv, CallbTypeOK
  <2>2. ASSUME NEW x \in Callbs
        PROVE  c_flag[x] = IF x \notin Listed THEN {}
                           ELSE IF cp = x THEN {"TAKEN", "EXECUTING"} ELSE {"TAKEN"}
    BY <1>1 DEF CallbInv, DaemonsOK, InFunc
  <2> QED BY <1>2, <1>3, <2>1, <2>2
<1>6. ToCall = IF failed # NULL THEN Listed ELSE Reach(c_next, s)
  BY <1>1, ToCallIs
<1> HIDE DEF flag, s
<1>7. CASE s = NULL \/ failed # NULL
  <2>1. cp' = s /\ cpr' = "end" /\ c_flag' = flag
    BY <1>1, <1>7 DEF GoOn
  <2>2. CallbTypeOK'
    BY <1>1, <1>4, <1>5, <2>1 DEF CallbInv, CallbTypeOK
  <2>3. DaemonsOK'
    BY <1>1, <1>5, <2>1, FlagsAfter DEF InFunc
  <2>4. WalkOK' /\ CheckOK'
    BY <1>1, <1>2, <1>7, <2>1 DEF WalkOK, InFunc, CheckOK
  <2>5. ToCall' = ToCall
    BY <1>1, <1>3, <1>6, <1>7, <2>1, ToCallIs, ReachNull
  <2>6. SeenOK'
    BY <1>1, <1>3, <2>5 DEF CallbInv, SeenOK, CallDone
  <2> QED BY <1>3, <2>2, <2>3, <2>4, <2>6 DEF CallbInv
<1>8. CASE s # NULL /\ failed = NULL
  <2>1. cp' = s /\ cpr' = "func" /\ c_flag' = [flag EXCEPT ![s] = @ \cup {"EXECUTING"}]
    BY <1>1, <1>8 DEF GoOn
  <2>2. s \in Listed /\ s \in Callbs
    BY <1>3, <1>4, <1>8
  <2>3. CallbTypeOK'
    BY <1>1, <1>4, <1>5, <2>1 DEF CallbInv, CallbTypeOK
  <2>4. \A x \in Callbs : c_flag'[x] = IF x \notin Listed THEN {}
               ELSE IF InFunc' /\ cp' = x THEN {"TAKEN", "EXECUTING"} ELSE {"TAKEN"}
    BY <1>5, <2>1, <2>2 DEF InFunc
  <2>5. DaemonsOK'
    BY <1>1, <2>4, FlagsAfter
  <2>6. WalkOK' /\ CheckOK'
    BY <1>1, <1>2, <1>3, <1>8, <2>1, <2>2 DEF WalkOK, CheckOK
  <2>7. ToCall' = ToCall
    BY <1>1, <1>6, <1>8, <2>1, ToCallIs
  <2>8. SeenOK'
    BY <1>1, <1>3, <2>7 DEF CallbInv, SeenOK, CallDone
  <2> QED BY <1>3, <2>3, <2>5, <2>6, <2>8 DEF CallbInv
<1> QED BY <1>7, <1>8

LEMMA WalkEnds == ASSUME CallbInv, ExecuteEnd PROVE CallbInv'
<1>1. /\ cpr = "end" /\ cp' = NULL /\ failed' = NULL
      /\ UNCHANGED <<ct_first_cb, cb_freelist, c_next, c_flag, c_arg, allocated,
                     cc_id, d_pc, cc_events, daemons>>
  BY DEF ExecuteEnd, daemons
<1>2. /\ ListsOK' /\ Listed' = Listed /\ ct_busy
      /\ \A x \in Callbs : c_flag[x] = IF x \in Listed THEN {"TAKEN"} ELSE {}
  BY <1>1, WalkStep DEF CallbInv, WalkOK, DaemonsOK, InFunc
<1>3. cpr' \notin {"func", "wait", "done"}
  BY DEF ExecuteEnd
<1>4. DaemonsOK'
  BY <1>1, <1>2, <1>3, FlagsAfter DEF InFunc
<1>5. CASE code = "CHKPT" /\ failed = NULL
  <2>1. /\ cpr' = "check" /\ UNCHANGED <<ct_busy, code>>
        /\ unchecked' = {t \in Daemons : d_pc[t] # "none"}
    BY <1>5 DEF ExecuteEnd
  <2>2. CallbTypeOK' /\ WalkOK' /\ CheckOK'
    BY <1>1, <1>2, <1>5, <2>1
    DEF CallbInv, CallbTypeOK, Slots, WalkOK, InFunc, CheckOK
  <2>3. ToCall' = {} /\ ToCall = {}
    BY <1>1, <1>5, <2>1, ToCallIs
  <2>4. SeenOK'
    BY <1>1, <1>2, <2>1, <2>3 DEF CallbInv, SeenOK, CallDone
  <2> QED BY <1>2, <1>4, <2>2, <2>4 DEF CallbInv
<1>6. CASE code = "CHKPT" /\ failed # NULL
  <2>1. cpr' = "begin" /\ code' = "RESUME" /\ UNCHANGED <<ct_busy, unchecked>>
    BY <1>6 DEF ExecuteEnd
  <2>2. CallbTypeOK' /\ WalkOK' /\ CheckOK'
    BY <1>1, <1>2, <2>1 DEF CallbInv, CallbTypeOK, Slots, WalkOK, InFunc, CheckOK
  <2>3. SeenOK'
    BY <2>1, ToCallIs DEF SeenOK
  <2> QED BY <1>2, <1>4, <2>2, <2>3 DEF CallbInv
<1>7. CASE code = "RESUME"
  <2>1. ct_busy' = FALSE /\ cpr' = "run" /\ UNCHANGED <<code, unchecked>>
    BY <1>7 DEF ExecuteEnd
  <2>2. failed = NULL
    BY <1>7 DEF CallbInv, WalkOK
  <2>3. CallbTypeOK' /\ WalkOK' /\ CheckOK'
    BY <1>1, <1>2, <1>7, <2>1
    DEF CallbInv, CallbTypeOK, Slots, WalkOK, InFunc, CheckOK
  <2>4. ToCall' = {} /\ ToCall = {}
    BY <1>1, <2>1, <2>2, ToCallIs
  <2>5. SeenOK'
    BY <1>1, <1>2, <2>1, <2>4 DEF CallbInv, SeenOK, CallDone
  <2> QED BY <1>2, <1>4, <2>3, <2>5 DEF CallbInv
<1> QED BY <1>5, <1>6, <1>7 DEF CallbInv, CallbTypeOK

LEMMA CheckStep ==
    ASSUME CallbInv, CheckEnd \/ cpr_resume \/ \E t \in Daemons : callb_is_stopped(t)
    PROVE  CallbInv'
<1>1. /\ cpr \in {"check", "frozen"} /\ cpr' \in {"check", "frozen", "begin"}
      /\ UNCHANGED <<ct_busy, ct_first_cb, cb_freelist, c_next, c_flag, c_arg, allocated,
                     cc_id, d_pc, cc_events, daemons, cp, failed>>
      /\ unchecked' \in SUBSET Daemons
      /\ \/ cpr' \in {"check", "frozen"} /\ code' = code
         \/ cpr' = "begin" /\ code' = "RESUME"
  BY
  DEF CheckEnd, cpr_resume, callb_is_stopped, table, daemons, CallbInv,
      CallbTypeOK
<1>2. failed = NULL /\ code = "CHKPT" /\ ct_busy
  BY <1>1 DEF CallbInv, WalkOK
<1>3. ListsOK' /\ Listed' = Listed
  BY <1>1, WalkStep
<1>4. CallbTypeOK' /\ WalkOK'
  BY <1>1, <1>2, <1>3 DEF CallbInv, CallbTypeOK, WalkOK, InFunc
<1>5. DaemonsOK'
  BY <1>1, FlagsAfter DEF CallbInv, DaemonsOK, InFunc
<1>6. SeenOK'
  <2>1. CASE cpr' = "begin"
    BY <2>1, ToCallIs DEF SeenOK
  <2>2. CASE cpr' \in {"check", "frozen"}
    <3>1. ToCall' = {} /\ ToCall = {}
      BY <1>1, <1>2, <2>2, ToCallIs
    <3> QED BY <1>1, <1>3, <2>2, <3>1 DEF CallbInv, SeenOK, CallDone
  <2> QED BY <1>1, <2>1, <2>2
<1>7. CheckOK'
  <2>1. CASE CheckEnd
    BY <2>1 DEF CheckEnd, CheckOK, CallbInv, daemons
  <2>2. CASE cpr_resume
    BY <2>2 DEF cpr_resume, CheckOK
  <2>3. ASSUME NEW t \in Daemons, callb_is_stopped(t) PROVE CheckOK'
    <3>1. CASE cpr' = "begin"
      BY <3>1 DEF CheckOK
    <3>2. CASE cpr' # "begin"
      <4>1. FoundSafe(t) /\ unchecked' = unchecked \ {t} /\ cpr' = cpr /\ cpr = "check"
        BY <2>3, <3>2 DEF callb_is_stopped
      <4>2. PICK s \in Listed : c_arg[s] = t
        BY <4>1 DEF FoundSafe, Listed
      <4>3. Registered(t) /\ "SAFE" \in cc_events[t]
        BY <4>1, <4>2 DEF CallbInv, DaemonsOK, FoundSafe
      <4>4. d_pc[t] \in {"safe", "delete"}
        BY <4>3 DEF CallbInv, DaemonsOK, Registered
      <4> QED BY <1>1, <4>1, <4>4 DEF CallbInv, CheckOK
    <3> QED BY <3>1, <3>2
  <2> QED BY <2>1, <2>2, <2>3
<1> QED BY <1>3, <1>4, <1>5, <1>6, <1>7 DEF CallbInv

-----------------------------------------------------------------------------
LEMMA CallbInitInv == CallbInit => CallbInv
<1> SUFFICES ASSUME CallbInit PROVE CallbInv
  OBVIOUS
<1>1. CallbTypeOK
  BY DEF CallbInit, CallbTypeOK, Slots
<1>2. Listed = {} /\ Unused = {}
  BY FromReach, ReachNull DEF CallbInit, Listed, Unused
<1>3. ListsOK /\ DaemonsOK /\ SeenOK
  BY <1>2 DEF CallbInit, ListsOK, DaemonsOK, SeenOK, Registered
<1>4. WalkOK /\ CheckOK
  BY DEF CallbInit, WalkOK, CheckOK, InFunc
<1> QED BY <1>1, <1>3, <1>4 DEF CallbInv

LEMMA CallbStep == CallbInv /\ [CallbNext]_callb_vars => CallbInv'
<1> SUFFICES ASSUME CallbInv, [CallbNext]_callb_vars PROVE CallbInv'
  OBVIOUS
<1>1. CASE UNCHANGED callb_vars
  <2>1. UNCHANGED <<table, walker, daemons>>
    BY <1>1 DEF callb_vars
  <2>2. /\ ListsOK' /\ Listed' = Listed /\ ToCall' = ToCall /\ WalkOK' /\ InFunc' = InFunc
    BY <2>1, DaemonStep
  <2>3. CallbTypeOK' /\ DaemonsOK' /\ SeenOK' /\ CheckOK'
    BY <2>1, <2>2
    DEF CallbInv, CallbTypeOK, DaemonsOK, SeenOK, CheckOK, Registered, CallDone,
                      table, walker, daemons
  <2> QED BY <2>2, <2>3 DEF CallbInv
<1>2. CASE CallbNext
  BY <1>2, LockStep, BeginStep, FuncStep, WaitStep, NextStep, WalkEnds, CheckStep,
     CreateStep,
     AddStep, SafeStep, EndStep, DeleteStep DEF CallbNext, Checkpoint
<1> QED BY <1>1, <1>2

(* The invariant of the callback table holds for every set of daemons and  *)
(* of structures: the list and the free list are apart and end, the listed *)
(* structures are the ones of the live daemons, and the walk has told      *)
(* every daemon that it has passed.                                        *)
THEOREM CallbInvariant == CallbSpec => []CallbInv
BY CallbInitInv, CallbStep, PTL DEF CallbSpec

(* The walk of callb_execute_class drops ct_lock around each function;     *)
(* still it only calls functions of daemons that are alive, however        *)
(* daemons register and exit in between.                                   *)
THEOREM CallbacksAlive == CallbSpec => []CallbackValid
<1>1. ASSUME CallbInv PROVE CallbackValid
  BY <1>1, ListFacts
  DEF CallbInv, WalkOK, DaemonsOK, CallbackValid, InFunc, Registered
<1> QED BY <1>1, CallbInvariant, PTL

(* When the walk and the look at the threads have ended well, no daemon    *)
(* works: none was created, registered or let out of its safe region       *)
(* behind the checkpointing thread's back.                                 *)
THEOREM CheckpointFrozen == CallbSpec => []FrozenStopped
<1>1. CallbInv => FrozenStopped
  BY DEF CallbInv, CheckOK, FrozenStopped
<1> QED BY <1>1, CallbInvariant, PTL

(* After a resume no daemon is left told to stop, also when the checkpoint *)
(* was given up halfway through the list.                                  *)
THEOREM ResumeComplete == CallbSpec => []AllResumed
<1>1. ASSUME CallbInv PROVE AllResumed
  <2> SUFFICES ASSUME cpr = "run", NEW t \in Daemons, d_pc[t] \in {"work", "safe"}
               PROVE  "START" \notin cc_events[t]
    BY DEF AllResumed
  <2>1. code = "RESUME" /\ failed = NULL
    BY <1>1 DEF CallbInv, WalkOK
  <2>2. ToCall = {}
    BY <2>1, ToCallIs
  <2>3. cc_id[t] \in Listed /\ c_arg[cc_id[t]] = t
    BY <1>1 DEF CallbInv, DaemonsOK, Registered
  <2>4. CallDone(t)
    BY <1>1, <2>2, <2>3 DEF CallbInv, SeenOK
  <2> QED BY <2>1, <2>4 DEF CallDone
<1> QED BY <1>1, CallbInvariant, PTL
=============================================================================
