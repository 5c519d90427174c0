----------------------- MODULE EventRegistryTheorems ------------------------
(***************************************************************************)
(* Proofs about EventRegistry, for any number of writers, plans, attempts, *)
(* verifications and alterations.                                          *)
(***************************************************************************)
EXTENDS EventRegistry, TLAPS, FiniteSetTheorems, WellFoundedInduction

FactTypes == {"PAYMENT_INITIATED", "REFUND_REQUESTED", "REFUND_COMPLETED", "CASE_CLOSED"}

(* The columns of a row; a fingerprint holds all those before it.          *)
IsRow(e) ==
  e \in [rank: Nat, type: FactTypes, content: {e.content}, parties: {"none", "as agreed"},
         prev: {e.prev}, count: Nat, head: {e.head}, fingerprint: {e.fingerprint},
         anchored: BOOLEAN]

(* A row as record builds it, whatever became of its anchor.               *)
WellBuilt(e) ==
  /\ IsRow(e)
  /\ e.fingerprint = Document(e)
  /\ e.type = "CASE_CLOSED" => e.count = e.rank /\ e.head = e.prev

(* The ranks of rows are 1..n, each of one row.                            *)
Ranked(rows, n) ==
  /\ \A e \in rows : e.rank \in 1..n
  /\ \A i \in 1..n : \E e \in rows : e.rank = i
  /\ \A e, o \in rows : e.rank = o.rank => e = o

(* One chain of n facts, closed once at most.                              *)
Chain(rows, n) ==
  /\ n \in Nat \ {0}
  /\ Ranked(rows, n)
  /\ \A e \in rows : WellBuilt(e)
  /\ \A e \in rows : e.rank = 1 => e.prev = NoPrint
  /\ \A e, o \in rows : e.rank = o.rank + 1 => e.prev = o.fingerprint
  /\ \A e, o \in Closures(rows) : e = o

(* What a writer holds: the facts it sees form a chain, its own after the  *)
(* committed ones; its own are those of its plan so far, and the closure   *)
(* is there once the plan is past it.  What it drafted follows a fact it   *)
(* still sees.                                                             *)
Past(w, me, type) == \E i \in 1..(me.item - 1) : Plan[w][i] = type

WriterOK(w, me, rows) ==
  /\ me \in [pc: {"idle", "due", "top", "insert", "over"}, item: Nat, attempt: Nat,
             draft: {me.draft}, own: {me.own}]
  /\ me.item \in 1..(Len(Plan[w]) + 1)
  /\ me.pc \in {"top", "insert"} => me.item <= Len(Plan[w])
  /\ \E n \in Nat : Chain(rows \union me.own, n)
  /\ \A e \in me.own : e.anchored = FALSE /\ Past(w, me, e.type)
  /\ \A e \in me.own, o \in rows : o.rank < e.rank
  /\ Past(w, me, "CASE_CLOSED") => Closures(rows \union me.own) # {}
  /\ me.pc = "insert" =>
       /\ WellBuilt(me.draft) /\ me.draft.type = Plan[w][me.item] /\ me.draft.anchored = FALSE
       /\ \E o \in rows \union me.own :
            me.draft.rank = o.rank + 1 /\ me.draft.prev = o.fingerprint

(* The committed tables: an anchored row carries the published root, and a *)
(* refund that is complete is closed.                                      *)
TablesOK(rows, ln, b, roots) ==
  /\ \E n \in Nat : Chain(rows, n)
  /\ \A e \in rows : e.anchored = TRUE => b # NoPrint /\ e.fingerprint = b
  /\ b # NoPrint => b \in roots
  /\ ln \in [parties: {"as agreed"}, refundStatus: {"REQUIRED", "COMPLETED"}]
  /\ ln.refundStatus = "COMPLETED" => Closures(rows) # {}
  /\ (\E e \in rows : e.type = "REFUND_COMPLETED") => Closures(rows) # {}

(* A fact was recorded behind the closure.                                 *)
GrewBehindClosure(rows) == \E e \in rows, o \in Closures(rows) : o.rank < e.rank

(* What a verification read is an earlier state of the chain.              *)
AuditorOK(q, rows, b) ==
  /\ q \in [pc: {"idle", "read", "concluded"}, facts: {q.facts}, parties: {q.parties},
            verdict: {q.verdict}]
  /\ q.pc # "idle" =>
       /\ q.facts # {}
       /\ \A f \in q.facts : f.rank \in Nat /\ \E e \in rows : e.rank = f.rank
       /\ \A f \in q.facts : f.anchored = TRUE => b # NoPrint
  /\ q.verdict # "none" => q.pc = "concluded"
  /\ q.verdict = "TAMPERED" /\ q.facts = rows => GrewBehindClosure(rows)

(* One transaction at a time has rows of its own.                          *)
OneOwner == \A v, w \in Writers : v # w => writer[v].own = {} \/ writer[w].own = {}

Unaltered ==
  /\ TablesOK(events, line, batch, published)
  /\ writer = [w \in Writers |-> writer[w]]
  /\ \A w \in Writers : WriterOK(w, writer[w], events)
  /\ OneOwner
  /\ auditor = [a \in Auditors |-> auditor[a]]
  /\ \A a \in Auditors : AuditorOK(auditor[a], events, batch)

RegistryInv == alterations \in Nat /\ (alterations = 0 => Unaltered)
-----------------------------------------------------------------------------
(* A set of naturals has a least member.                                   *)
LEMMA LeastMember ==
  ASSUME NEW T, T \subseteq Nat, T # {}
  PROVE  \E m \in T : \A n \in T : m <= n
<1> DEFINE R == OpToRel(<, Nat)
<1>1. IsWellFoundedOn(R, Nat)
  BY NatLessThanWellFounded
<1>2. \A x, y \in Nat : y < x => <<y, x>> \in R
  BY DEF OpToRel
<1> HIDE DEF R
<1>3. PICK m \in T : \A y \in T : ~ (<<y, m>> \in R)
  BY <1>1, WFMin
<1>4. \A n \in T : n \in Nat /\ m \in Nat /\ ~ (n < m)
  BY <1>2, <1>3
<1>5. \A n \in T : m <= n
  BY <1>4
<1>. QED  BY <1>5

(* Rows ranked from 1 to n are n rows.                                     *)
LEMMA RankedCount ==
  ASSUME NEW rows, NEW n \in Nat, Ranked(rows, n)
  PROVE  IsFiniteSet(rows) /\ Cardinality(rows) = n
<1> DEFINE f == [e \in rows |-> e.rank]
<1>1. f \in Injection(rows, 1..n)
  BY DEF Ranked, Injection, IsInjective
<1>2. f \in Surjection(rows, 1..n)
  BY DEF Ranked, Surjection
<1>3. IsFiniteSet(1..n) /\ Cardinality(1..n) = n
  BY FS_Interval
<1>. QED  BY <1>1, <1>2, <1>3, FS_Injection

(* The rows below a row are ranked too.                                    *)
LEMMA RankedBelow ==
  ASSUME NEW rows, NEW n \in Nat, Ranked(rows, n), NEW e \in rows
  PROVE  Ranked(Before(rows, e), e.rank - 1) /\ e.rank - 1 \in Nat
<1>1. e.rank \in 1..n
  BY DEF Ranked
<1>2. \A i \in 1..(e.rank - 1) : i \in 1..n
  BY <1>1
<1>. QED  BY <1>1, <1>2 DEF Ranked, Before

(* The last of ranked rows is the one of rank n.                           *)
LEMMA RankedTop ==
  ASSUME NEW rows, NEW n \in Nat \ {0}, Ranked(rows, n), NEW t \in rows, t.rank = n
  PROVE  rows # {} /\ Top(rows) = {t} /\ LastRank(rows) = n /\ LastPrint(rows) = t.fingerprint
<1>1. \A o \in rows : o.rank <= n
  BY DEF Ranked
<1>2. \A e \in Top(rows) : e = t
  <2>1. \A e \in Top(rows) : e \in rows /\ t.rank <= e.rank
    BY DEF Top
  <2>2. \A e \in Top(rows) : e.rank \in 1..n
    BY <2>1 DEF Ranked
  <2>3. \A e \in Top(rows) : e.rank = n
    BY <2>1, <2>2
  <2>. QED  BY <2>1, <2>3 DEF Ranked
<1>3. t \in Top(rows)
  BY <1>1 DEF Top
<1>4. Top(rows) = {t}
  BY <1>2, <1>3
<1>. QED  BY <1>4 DEF LastRank, LastPrint

(* The link of a row of a chain leads to the last row below it.            *)
LEMMA ChainLink ==
  ASSUME NEW rows, NEW n, Chain(rows, n), NEW e \in rows
  PROVE  e.prev = LastPrint(Before(rows, e))
<1>0. n \in Nat /\ Ranked(rows, n)
  BY DEF Chain
<1>1. Ranked(Before(rows, e), e.rank - 1) /\ e.rank - 1 \in Nat /\ e.rank \in 1..n
  <2>1. e.rank \in 1..n
    BY <1>0 DEF Ranked
  <2>. QED  BY <1>0, <2>1, RankedBelow
<1>2. CASE e.rank = 1
  <2>1. Before(rows, e) = {}
    BY <1>1, <1>2 DEF Ranked
  <2>. QED  BY <1>2, <2>1 DEF LastPrint, Chain
<1>3. CASE e.rank # 1
  <2>1. e.rank - 1 \in 1..(e.rank - 1) /\ e.rank - 1 \in Nat \ {0}
    BY <1>1, <1>3
  <2>2. PICK o \in Before(rows, e) : o.rank = e.rank - 1
    BY <1>1, <2>1 DEF Ranked
  <2>3. LastPrint(Before(rows, e)) = o.fingerprint
    BY <1>1, <2>1, <2>2, RankedTop
  <2>4. o \in rows /\ e.rank = o.rank + 1
    BY <1>1, <2>2 DEF Before
  <2>. QED  BY <2>3, <2>4 DEF Chain
<1>. QED  BY <1>2, <1>3

(* What sealing leaves and what it writes.                                 *)
LEMMA SealedRow ==
  ASSUME NEW raw, IsRow(raw)
  PROVE  /\ IsRow(Seal(raw)) /\ Seal(raw).fingerprint = Document(Seal(raw))
         /\ Seal(raw).rank = raw.rank /\ Seal(raw).type = raw.type /\ Seal(raw).prev = raw.prev
         /\ Seal(raw).count = raw.count /\ Seal(raw).head = raw.head
         /\ Seal(raw).anchored = raw.anchored
<1> DEFINE d == [raw EXCEPT !.fingerprint = Document(raw)]
<1>1. /\ IsRow(d) /\ d.fingerprint = Document(raw) /\ d.rank = raw.rank /\ d.type = raw.type
      /\ d.content = raw.content /\ d.parties = raw.parties
      /\ d.prev = raw.prev /\ d.count = raw.count /\ d.head = raw.head /\ d.anchored = raw.anchored
  BY DEF IsRow
<1> HIDE DEF d
<1>2. Document(d) = Document(raw)
  BY <1>1 DEF Document
<1>3. d = Seal(raw)
  BY DEF d, Seal
<1>. QED  BY <1>1, <1>2, <1>3

(* The row that record drafts on a chain continues it.                     *)
LEMMA DraftContinues ==
  ASSUME NEW rows, NEW n, Chain(rows, n), NEW type \in FactTypes \ {"PAYMENT_INITIATED"}
  PROVE  /\ WellBuilt(Draft(type, rows)) /\ Draft(type, rows).type = type
         /\ Draft(type, rows).anchored = FALSE
         /\ \E o \in rows : /\ Draft(type, rows).rank = o.rank + 1
                            /\ Draft(type, rows).prev = o.fingerprint
<1>1. n \in Nat /\ n \in 1..n
  BY DEF Chain
<1>2. PICK t \in rows : t.rank = n
  BY <1>1 DEF Chain, Ranked
<1>3. LastRank(rows) = n /\ LastPrint(rows) = t.fingerprint
  BY <1>2, RankedTop DEF Chain
<1> DEFINE count == IF type = "CASE_CLOSED" THEN n + 1 ELSE 0
           head == IF type = "CASE_CLOSED" THEN t.fingerprint ELSE NoPrint
           d == Draft(type, rows)
           raw == [rank |-> n + 1, type |-> type, content |-> "as recorded", parties |-> "none",
                   prev |-> t.fingerprint, count |-> count, head |-> head,
                   fingerprint |-> NoPrint, anchored |-> FALSE]
<1>4. d = Seal(raw)
  BY <1>3 DEF Draft
<1>5. n + 1 \in Nat /\ count \in Nat
  BY <1>1
<1>6. type = "CASE_CLOSED" => count = n + 1 /\ head = t.fingerprint
  OBVIOUS
<1> HIDE DEF d, count, head
<1>a. /\ IsRow(raw) /\ raw.rank = n + 1 /\ raw.type = type /\ raw.prev = t.fingerprint
      /\ raw.count = count /\ raw.head = head /\ raw.anchored = FALSE
  BY <1>5 DEF IsRow
<1> HIDE DEF raw
<1>7. /\ IsRow(d) /\ d.fingerprint = Document(d) /\ d.anchored = FALSE
      /\ d.rank = n + 1 /\ d.type = type /\ d.prev = t.fingerprint /\ d.count = count /\ d.head = head
  BY <1>4, <1>a, SealedRow
<1>8. WellBuilt(d)
  BY <1>6, <1>7 DEF WellBuilt
<1>9. d.rank = t.rank + 1
  BY <1>2, <1>7
<1>. QED  BY <1>7, <1>8, <1>9 DEF d

(* A row that follows a row of the chain and breaks no unique constraint   *)
(* is the next one.                                                        *)
LEMMA ChainGrows ==
  ASSUME NEW rows, NEW n, Chain(rows, n), NEW d, WellBuilt(d), NEW o \in rows,
         d.rank = o.rank + 1, d.prev = o.fingerprint,
         ~RankTaken(d, rows), ~ClosureTaken(d, rows)
  PROVE  d.rank = n + 1 /\ Chain(rows \union {d}, n + 1)
<1>0. n \in Nat \ {0} /\ Ranked(rows, n)
  BY DEF Chain
<1>1. o.rank \in 1..n /\ \A e \in rows : e.rank \in 1..n
  BY <1>0 DEF Ranked
<1>2. d.rank \notin 1..n
  BY <1>0 DEF Ranked, RankTaken
<1>3. d.rank = n + 1 /\ o.rank = n
  BY <1>0, <1>1, <1>2
<1>4. \A e \in rows : e.rank # d.rank
  BY DEF RankTaken
<1>5. Ranked(rows \union {d}, n + 1)
  <2>1. \A e \in rows \union {d} : e.rank \in 1..(n + 1)
    BY <1>0, <1>1, <1>3
  <2>2. ASSUME NEW i \in 1..(n + 1)  PROVE \E e \in rows \union {d} : e.rank = i
    <3>1. CASE i = n + 1
      BY <1>3, <3>1
    <3>2. CASE i # n + 1
      <4>1. i \in 1..n
        BY <1>0, <3>2
      <4>2. PICK e \in rows : e.rank = i
        BY <1>0, <4>1 DEF Ranked
      <4>. QED  BY <4>2
    <3>. QED  BY <3>1, <3>2
  <2>3. \A e, c \in rows \union {d} : e.rank = c.rank => e = c
    BY <1>0, <1>4 DEF Ranked
  <2>. QED  BY <2>1, <2>2, <2>3 DEF Ranked
<1>6. \A e \in rows \union {d} : WellBuilt(e) /\ (e.rank = 1 => e.prev = NoPrint)
  BY <1>0, <1>3 DEF Chain
<1>7. ASSUME NEW e \in rows \union {d}, NEW c \in rows \union {d}, e.rank = c.rank + 1
      PROVE  e.prev = c.fingerprint
  <2>1. CASE e \in rows /\ c \in rows
    BY <1>7, <2>1 DEF Chain
  <2>2. CASE e = d /\ c \in rows
    <3>1. c.rank = o.rank
      BY <1>0, <1>1, <1>3, <1>7, <2>2
    <3>. QED  BY <1>0, <2>2, <3>1 DEF Ranked
  <2>3. CASE c = d
    <3>1. e.rank \in 1..(n + 1)
      BY <1>5 DEF Ranked
    <3>. QED  BY <1>0, <1>3, <1>7, <2>3, <3>1
  <2>. QED  BY <2>1, <2>2, <2>3
<1>8. \A e, c \in Closures(rows \union {d}) : e = c
  BY DEF Chain, Closures, ClosureTaken
<1>9. n + 1 \in Nat \ {0}
  BY <1>0
<1>. QED  BY <1>3, <1>5, <1>6, <1>7, <1>8, <1>9 DEF Chain

(* Anchoring changes no column that the fingerprint covers.                *)
LEMMA AnchoredRow ==
  ASSUME NEW e, WellBuilt(e)
  PROVE  LET c == [e EXCEPT !.anchored = TRUE] IN
           /\ WellBuilt(c) /\ c.rank = e.rank /\ c.type = e.type /\ c.prev = e.prev
           /\ c.fingerprint = e.fingerprint /\ c.anchored = TRUE
<1> DEFINE c == [e EXCEPT !.anchored = TRUE]
<1>1. IsRow(e)
  BY DEF WellBuilt
<1>2. /\ c.rank = e.rank /\ c.type = e.type /\ c.content = e.content /\ c.parties = e.parties
      /\ c.prev = e.prev /\ c.count = e.count /\ c.head = e.head
      /\ c.fingerprint = e.fingerprint /\ c.anchored = TRUE /\ IsRow(c)
  BY <1>1 DEF IsRow
<1> HIDE DEF c
<1>3. Document(c) = Document(e)
  BY <1>2 DEF Document
<1>4. WellBuilt(c)
  BY <1>2, <1>3 DEF WellBuilt
<1>. QED  BY <1>2, <1>4 DEF c

(* A row replaced by itself anchored: the chain stays one.                 *)
LEMMA ChainAnchored ==
  ASSUME NEW rows, NEW n, Chain(rows, n), NEW e \in rows, NEW c, WellBuilt(c),
         c.rank = e.rank, c.type = e.type, c.prev = e.prev, c.fingerprint = e.fingerprint
  PROVE  Chain((rows \ {e}) \union {c}, n)
<1> DEFINE new == (rows \ {e}) \union {c}
<1>0. n \in Nat \ {0} /\ Ranked(rows, n)
  BY DEF Chain
<1>1. \A d \in new : \E o \in rows : /\ o.rank = d.rank /\ o.prev = d.prev /\ o.type = d.type
                                     /\ o.fingerprint = d.fingerprint
                                     /\ d = o \/ (o = e /\ d = c)
  OBVIOUS
<1>2. \A o \in rows : \E d \in new : o.rank = d.rank
  OBVIOUS
<1> HIDE DEF new
<1>3. Ranked(new, n)
  <2>1. \A d \in new : d.rank \in 1..n
    BY <1>0, <1>1 DEF Ranked
  <2>2. \A i \in 1..n : \E d \in new : d.rank = i
    BY <1>0, <1>2 DEF Ranked
  <2>3. \A d, b \in new : d.rank = b.rank => d = b
    BY <1>0, <1>1 DEF Ranked, new
  <2>. QED  BY <2>1, <2>2, <2>3 DEF Ranked
<1>4. \A d \in new : WellBuilt(d) /\ (d.rank = 1 => d.prev = NoPrint)
  BY DEF Chain, new
<1>5. \A d, b \in new : d.rank = b.rank + 1 => d.prev = b.fingerprint
  <2>1. \A a, b \in rows : a.rank = b.rank + 1 => a.prev = b.fingerprint
    BY DEF Chain
  <2>. QED  BY <1>1, <2>1
<1>6. \A d, b \in Closures(new) : d = b
  <2>1. \A a, b \in rows : a.type = "CASE_CLOSED" /\ b.type = "CASE_CLOSED" => a = b
    BY DEF Chain, Closures
  <2>. QED  BY <2>1 DEF Closures, new
<1>. QED  BY <1>0, <1>3, <1>4, <1>5, <1>6 DEF Chain, new
-----------------------------------------------------------------------------
(* The case starts as a chain of one fact.                                 *)
LEMMA OpeningChain ==
  Chain({Opening}, 1) /\ Opening.anchored = FALSE /\ Opening.type = "PAYMENT_INITIATED"
<1> DEFINE raw == [rank |-> 1, type |-> "PAYMENT_INITIATED", content |-> "as recorded",
                   parties |-> "as agreed", prev |-> NoPrint, count |-> 0, head |-> NoPrint,
                   fingerprint |-> NoPrint, anchored |-> FALSE]
<1>1. Opening = Seal(raw)
  BY DEF Opening, Draft, LastRank, LastPrint
<1>2. /\ IsRow(raw) /\ raw.rank = 1 /\ raw.type = "PAYMENT_INITIATED" /\ raw.prev = NoPrint
      /\ raw.anchored = FALSE
  BY DEF IsRow, FactTypes
<1> HIDE DEF raw
<1>3. /\ IsRow(Opening) /\ Opening.fingerprint = Document(Opening) /\ Opening.anchored = FALSE
      /\ Opening.rank = 1 /\ Opening.type = "PAYMENT_INITIATED" /\ Opening.prev = NoPrint
  BY <1>1, <1>2, SealedRow
<1>4. Opening.rank = 1
  BY <1>3
<1>5. WellBuilt(Opening)
  BY <1>3 DEF WellBuilt
<1>6. Ranked({Opening}, 1)
  BY <1>4 DEF Ranked
<1>7. Closures({Opening}) = {}
  BY <1>3 DEF Closures
<1>8. Chain({Opening}, 1)
  <2>1. Opening.prev = NoPrint /\ Opening.rank # Opening.rank + 1
    BY <1>3, <1>4
  <2>. QED  BY <1>5, <1>6, <1>7, <2>1 DEF Chain
<1>. QED  BY <1>3, <1>8

(* The invariant of the registry holds at the start.                       *)
LEMMA RegistryStart == RegistryInit => RegistryInv
<1> SUFFICES ASSUME RegistryInit  PROVE RegistryInv
  OBVIOUS
<1>0. /\ events = {Opening} /\ batch = NoPrint /\ published = {}
      /\ line = [parties |-> "as agreed", refundStatus |-> "REQUIRED"]
      /\ writer = [w \in Writers |-> Idle] /\ auditor = [a \in Auditors |-> Unread]
  BY DEF RegistryInit
<1>1. TablesOK(events, line, batch, published)
  BY <1>0, OpeningChain DEF TablesOK
<1>2. ASSUME NEW w \in Writers  PROVE WriterOK(w, Idle, events)
  <2>1. Len(Plan[w]) \in Nat
    BY RegistryBounds
  <2>2. /\ Idle.item = 1 /\ Idle.pc = "idle" /\ Idle.own = {}
        /\ Idle \in [pc: {"idle", "due", "top", "insert", "over"}, item: Nat, attempt: Nat,
                     draft: {Idle.draft}, own: {Idle.own}]
    BY DEF Idle
  <2>3. ~Past(w, Idle, "CASE_CLOSED")
    BY <2>2 DEF Past
  <2>4. Chain(events \union Idle.own, 1)
    BY <1>0, <2>2, OpeningChain
  <2>5. Idle.item \in 1..(Len(Plan[w]) + 1)
    BY <2>1, <2>2
  <2>. QED  BY <2>2, <2>3, <2>4, <2>5 DEF WriterOK
<1>3. OneOwner
  BY <1>0 DEF OneOwner, Idle
<1>4. ASSUME NEW a \in Auditors  PROVE AuditorOK(Unread, events, batch)
  BY DEF AuditorOK, Unread
<1>5. \A w \in Writers : writer[w] = Idle
  BY <1>0
<1>6. \A a \in Auditors : auditor[a] = Unread
  BY <1>0
<1>7. writer = [w \in Writers |-> writer[w]] /\ auditor = [a \in Auditors |-> auditor[a]]
  BY <1>0
<1>8. alterations \in Nat
  BY DEF RegistryInit
<1>9. Unaltered
  BY <1>1, <1>2, <1>3, <1>4, <1>5, <1>6, <1>7 DEF Unaltered
<1>. QED  BY <1>8, <1>9 DEF RegistryInv
-----------------------------------------------------------------------------
(* A writer goes on, the tables stay.                                      *)
LEMMA WriterGoesOn ==
  ASSUME Unaltered, Kept, NEW w \in Writers, NEW me, Writes(w, me), WriterOK(w, me, events),
         \/ me.own = {}
         \/ me.own = writer[w].own
         \/ \A v \in Writers \ {w} : writer[v].own = {}
  PROVE  Unaltered'
<1>1. /\ events' = events /\ line' = line /\ batch' = batch /\ published' = published
      /\ auditor' = auditor /\ writer' = [writer EXCEPT ![w] = me]
  BY DEF Kept, Writes
<1>2. writer = [v \in Writers |-> writer[v]]
  BY DEF Unaltered
<1>3. /\ writer' = [v \in Writers |-> writer'[v]] /\ writer'[w] = me
      /\ \A v \in Writers : v # w => writer'[v] = writer[v]
  BY <1>1, <1>2
<1>4. \A v \in Writers : WriterOK(v, writer'[v], events')
  BY <1>1, <1>3 DEF Unaltered
<1>5. OneOwner'
  BY <1>3 DEF Unaltered, OneOwner
<1>6. TablesOK(events', line', batch', published')
  BY <1>1 DEF Unaltered
<1>7. /\ auditor' = [a \in Auditors |-> auditor'[a]]
      /\ \A a \in Auditors : AuditorOK(auditor'[a], events', batch')
  BY <1>1 DEF Unaltered
<1>. QED  BY <1>3, <1>4, <1>5, <1>6, <1>7 DEF Unaltered

(* A writer that is over holds nothing.                                    *)
LEMMA OverOK ==
  ASSUME NEW rows, \E n \in Nat : Chain(rows, n), NEW w \in Writers
  PROVE  WriterOK(w, [Idle EXCEPT !.pc = "over"], rows) /\ [Idle EXCEPT !.pc = "over"].own = {}
<1> DEFINE me == [Idle EXCEPT !.pc = "over"]
<1>1. /\ me.item = 1 /\ me.pc = "over" /\ me.own = {}
      /\ me \in [pc: {"idle", "due", "top", "insert", "over"}, item: Nat, attempt: Nat,
                 draft: {me.draft}, own: {me.own}]
  BY DEF Idle
<1> HIDE DEF me
<1>2. Len(Plan[w]) \in Nat
  BY RegistryBounds
<1>3. me.item \in 1..(Len(Plan[w]) + 1)
  BY <1>1, <1>2
<1>4. ~Past(w, me, "CASE_CLOSED")
  BY <1>1 DEF Past
<1>5. \E n \in Nat : Chain(rows \union me.own, n)
  BY <1>1
<1>6. WriterOK(w, me, rows)
  BY <1>1, <1>3, <1>4, <1>5 DEF WriterOK
<1>. QED  BY <1>1, <1>6 DEF me

(* A step that changes the place of a writer and its attempt only.         *)
LEMMA SamePlace ==
  ASSUME NEW w \in Writers, NEW old, WriterOK(w, old, events), NEW me,
         NEW p \in {"idle", "due", "top"}, NEW k \in Nat,
         me = [old EXCEPT !.pc = p, !.attempt = k], p = "top" => old.item <= Len(Plan[w])
  PROVE  WriterOK(w, me, events) /\ me.own = old.own
<1>1. old \in [pc: {"idle", "due", "top", "insert", "over"}, item: Nat, attempt: Nat,
               draft: {old.draft}, own: {old.own}]
  BY DEF WriterOK
<1>2. /\ me.pc = p /\ me.item = old.item /\ me.own = old.own
      /\ me \in [pc: {"idle", "due", "top", "insert", "over"}, item: Nat, attempt: Nat,
                 draft: {me.draft}, own: {me.own}]
  BY <1>1
<1>3. \A type : Past(w, me, type) <=> Past(w, old, type)
  BY <1>2 DEF Past
<1>4. /\ me.item \in 1..(Len(Plan[w]) + 1)
      /\ me.pc \in {"top", "insert"} => me.item <= Len(Plan[w])
      /\ me.pc # "insert"
  BY <1>2 DEF WriterOK
<1>5. /\ \E n \in Nat : Chain(events \union me.own, n)
      /\ \A e \in me.own : e.anchored = FALSE /\ Past(w, me, e.type)
      /\ \A e \in me.own, o \in events : o.rank < e.rank
      /\ Past(w, me, "CASE_CLOSED") => Closures(events \union me.own) # {}
  BY <1>2, <1>3 DEF WriterOK
<1>. QED  BY <1>2, <1>4, <1>5 DEF WriterOK

(* The rows that a writer may own once the fact that was due is past.      *)
MayOwn(w, old, own) ==
  /\ \E n \in Nat : Chain(events \union own, n)
  /\ old.own \subseteq own
  /\ \A e \in own : e \in old.own \/ (e.anchored = FALSE /\ e.type = Plan[w][old.item])
  /\ \A e \in own, o \in events : o.rank < e.rank
  /\ Plan[w][old.item] = "CASE_CLOSED" => Closures(events \union own) # {}

(* The plan is past one more fact.                                         *)
LEMMA NextFact ==
  ASSUME NEW w \in Writers, NEW old, WriterOK(w, old, events), old.item <= Len(Plan[w]),
         NEW own, NEW me, me = [old EXCEPT !.pc = "due", !.item = @ + 1, !.own = own],
         MayOwn(w, old, own)
  PROVE  WriterOK(w, me, events) /\ me.own = own
<1>0. Len(Plan[w]) \in Nat /\ old.item \in 1..(Len(Plan[w]) + 1)
  BY RegistryBounds DEF WriterOK
<1>1. old \in [pc: {"idle", "due", "top", "insert", "over"}, item: Nat, attempt: Nat,
               draft: {old.draft}, own: {old.own}]
  BY DEF WriterOK
<1>2. /\ me.pc = "due" /\ me.item = old.item + 1 /\ me.own = own
      /\ me \in [pc: {"idle", "due", "top", "insert", "over"}, item: Nat, attempt: Nat,
                 draft: {me.draft}, own: {me.own}]
  <2>1. old.item + 1 \in Nat
    BY <1>0
  <2>2. me = [old EXCEPT !.pc = "due", !.item = old.item + 1, !.own = own]
    OBVIOUS
  <2>. QED  BY <1>1, <2>1, <2>2
<1>3. me.item \in 1..(Len(Plan[w]) + 1)
  BY <1>0, <1>2
<1>4. \A type : Past(w, me, type) <=> Past(w, old, type) \/ type = Plan[w][old.item]
  <2>1. \A i : i \in 1..(me.item - 1) <=> i \in 1..(old.item - 1) \/ i = old.item
    BY <1>0, <1>2
  <2>. QED  BY <2>1 DEF Past
<1>5. \A e \in me.own : e.anchored = FALSE /\ Past(w, me, e.type)
  BY <1>2, <1>4 DEF WriterOK, MayOwn
<1>6. Past(w, me, "CASE_CLOSED") => Closures(events \union me.own) # {}
  <2>1. Past(w, old, "CASE_CLOSED") => Closures(events \union old.own) # {}
    BY DEF WriterOK
  <2>2. Closures(events \union old.own) \subseteq Closures(events \union own)
    BY DEF Closures, MayOwn
  <2>. QED  BY <1>2, <1>4, <2>1, <2>2 DEF MayOwn
<1>. QED  BY <1>2, <1>3, <1>5, <1>6 DEF WriterOK, MayOwn
(* Steps of a writer other than its commit.                                *)
LEMMA WriterStepKeeps ==
  ASSUME Unaltered, NEW w \in Writers,
         \/ Begin(w) \/ StartFact(w) \/ ReadTop(w) \/ Insert(w) \/ Collide(w)
         \/ RecordThrows(w) \/ Rollback(w)
  PROVE  Unaltered'
<1> DEFINE old == writer[w]
<1>0. WriterOK(w, old, events) /\ TablesOK(events, line, batch, published) /\ Len(Plan[w]) \in Nat
  BY RegistryBounds DEF Unaltered
<1>1. /\ old.item \in 1..(Len(Plan[w]) + 1) /\ old.attempt \in Nat
      /\ old.pc \in {"top", "insert"} => old.item <= Len(Plan[w])
      /\ old \in [pc: {"idle", "due", "top", "insert", "over"}, item: Nat, attempt: Nat,
                  draft: {old.draft}, own: {old.own}]
      /\ \E n \in Nat : Chain(events \union old.own, n)
  BY <1>0 DEF WriterOK
<1>2. old.item <= Len(Plan[w]) => Plan[w][old.item] \in FactTypes \ {"PAYMENT_INITIATED"}
  <2>1. Plan[w] \in Seq({"REFUND_REQUESTED", "REFUND_COMPLETED", "CASE_CLOSED"})
    BY RegistryBounds
  <2>2. old.item <= Len(Plan[w]) => old.item \in 1..Len(Plan[w])
    BY <1>0, <1>1
  <2>3. old.item <= Len(Plan[w]) =>
          Plan[w][old.item] \in {"REFUND_REQUESTED", "REFUND_COMPLETED", "CASE_CLOSED"}
    BY <2>1, <2>2
  <2>. QED  BY <2>3 DEF FactTypes
<1>3. ASSUME old.item <= Len(Plan[w]), Kept, Proceeds(w, old.own),
             Plan[w][old.item] = "CASE_CLOSED", Closures(Visible(w)) # {}
      PROVE  Unaltered'
  <2> DEFINE me == [old EXCEPT !.pc = "due", !.item = @ + 1, !.own = old.own]
  <2>1. Writes(w, me)
    BY <1>3 DEF Proceeds
  <2>2. \A e \in old.own, o \in events : o.rank < e.rank
    BY <1>0 DEF WriterOK
  <2>3. Closures(events \union old.own) # {}
    BY <1>3 DEF Visible
  <2>4. WriterOK(w, me, events) /\ me.own = old.own
    <3>1. MayOwn(w, old, old.own)
      BY <1>1, <2>2, <2>3 DEF MayOwn
    <3>2. me = [old EXCEPT !.pc = "due", !.item = @ + 1, !.own = old.own]
      OBVIOUS
    <3>3. WriterOK(w, old, events) /\ old.item <= Len(Plan[w])
      BY <1>0, <1>3
    <3> HIDE DEF old, me
    <3>. QED  BY <3>1, <3>2, <3>3, NextFact
  <2> HIDE DEF me
  <2>. QED  BY <1>3, <2>1, <2>4, WriterGoesOn
<1>4. ASSUME Kept, Writes(w, [Idle EXCEPT !.pc = "over"])
      PROVE  Unaltered'
  <2> DEFINE me == [Idle EXCEPT !.pc = "over"]
  <2>1. WriterOK(w, me, events) /\ me.own = {}
    BY <1>0, OverOK DEF TablesOK
  <2>2. Writes(w, me)
    BY <1>4
  <2> HIDE DEF me
  <2>. QED  BY <1>4, <2>1, <2>2, WriterGoesOn
<1>5. ASSUME Kept, NEW p \in {"idle", "due", "top"}, NEW k \in Nat,
             Writes(w, [old EXCEPT !.pc = p, !.attempt = k]), p = "top" => old.item <= Len(Plan[w])
      PROVE  Unaltered'
  <2> DEFINE me == [old EXCEPT !.pc = p, !.attempt = k]
  <2>1. WriterOK(w, me, events) /\ me.own = old.own
    <3> HIDE DEF old
    <3>. QED  BY <1>0, <1>5, SamePlace
  <2>2. Writes(w, me)
    BY <1>5
  <2> HIDE DEF me
  <2>. QED  BY <1>5, <2>1, <2>2, WriterGoesOn
<1>6. CASE Begin(w)
  <2>1. Kept /\ Writes(w, [old EXCEPT !.pc = "due"])
    BY <1>6 DEF Begin
  <2>2. [old EXCEPT !.pc = "due"] = [old EXCEPT !.pc = "due", !.attempt = old.attempt]
    BY <1>1
  <2>. QED  BY <1>1, <1>5, <2>1, <2>2
<1>7. CASE StartFact(w)
  <2>1. Kept /\ old.item <= Len(Plan[w])
    BY <1>7 DEF StartFact
  <2>2. CASE Due(w) = "CASE_CLOSED" /\ Closures(Visible(w)) # {}
    BY <1>3, <1>7, <2>1, <2>2 DEF StartFact, Due
  <2>3. CASE ~(Due(w) = "CASE_CLOSED" /\ Closures(Visible(w)) # {})
    <3>1. Writes(w, [old EXCEPT !.pc = "top", !.attempt = 1])
      BY <1>7, <2>3 DEF StartFact
    <3>. QED  BY <1>5, <2>1, <3>1
  <2>. QED  BY <2>2, <2>3
<1>8. CASE ReadTop(w)
  <2> DEFINE d == Draft(Plan[w][old.item], events \union old.own)
             me == [old EXCEPT !.pc = "insert", !.draft = d]
  <2>1. Kept /\ Writes(w, me) /\ old.pc = "top"
    BY <1>8 DEF ReadTop, Due, Visible
  <2>2. old.item <= Len(Plan[w]) /\ Plan[w][old.item] \in FactTypes \ {"PAYMENT_INITIATED"}
    BY <1>1, <1>2, <2>1
  <2>3. PICK n \in Nat : Chain(events \union old.own, n)
    BY <1>1
  <2>4. /\ WellBuilt(d) /\ d.type = Plan[w][old.item] /\ d.anchored = FALSE
        /\ \E o \in events \union old.own : d.rank = o.rank + 1 /\ d.prev = o.fingerprint
    BY <2>2, <2>3, DraftContinues
  <2> HIDE DEF d
  <2>5. /\ me.pc = "insert" /\ me.item = old.item /\ me.own = old.own /\ me.draft = d
        /\ me \in [pc: {"idle", "due", "top", "insert", "over"}, item: Nat, attempt: Nat,
                   draft: {me.draft}, own: {me.own}]
    BY <1>1
  <2> HIDE DEF me
  <2>6. \A type : Past(w, me, type) <=> Past(w, old, type)
    BY <2>5 DEF Past
  <2>7. /\ \A e \in me.own : e.anchored = FALSE /\ Past(w, me, e.type)
        /\ \A e \in me.own, o \in events : o.rank < e.rank
        /\ Past(w, me, "CASE_CLOSED") => Closures(events \union me.own) # {}
    BY <1>0, <2>5, <2>6 DEF WriterOK
  <2>8. WriterOK(w, me, events)
    BY <1>1, <2>2, <2>3, <2>4, <2>5, <2>7 DEF WriterOK
  <2>. QED  BY <2>1, <2>5, <2>8, WriterGoesOn
<1>9. CASE Insert(w)
  <2> DEFINE d == old.draft
             own == old.own \union {d}
             me == [old EXCEPT !.pc = "due", !.item = @ + 1, !.own = own]
  <2>1. /\ Kept /\ Writes(w, me) /\ old.pc = "insert" /\ ~Blocked(w)
        /\ ~RankTaken(d, events \union old.own) /\ ~ClosureTaken(d, events \union old.own)
    BY <1>9 DEF Insert, Proceeds, Visible
  <2>2. PICK n \in Nat : Chain(events \union old.own, n)
    BY <1>1
  <2>3. /\ WellBuilt(d) /\ d.type = Plan[w][old.item] /\ d.anchored = FALSE
        /\ old.item <= Len(Plan[w])
    BY <1>0, <1>1, <2>1 DEF WriterOK
  <2>4. PICK o \in events \union old.own : d.rank = o.rank + 1 /\ d.prev = o.fingerprint
    BY <1>0, <2>1 DEF WriterOK
  <2>5. d.rank = n + 1 /\ Chain((events \union old.own) \union {d}, n + 1)
    BY <2>1, <2>2, <2>3, <2>4, ChainGrows
  <2>6. (events \union old.own) \union {d} = events \union own /\ n + 1 \in Nat
    OBVIOUS
  <2>7. \A e \in events : e.rank \in 1..n
    BY <2>2 DEF Chain, Ranked
  <2>8. \A e \in events : e.rank < d.rank
    BY <2>5, <2>7
  <2>9. \A e \in own, c \in events : c.rank < e.rank
    BY <1>0, <2>8 DEF WriterOK
  <2>10. Plan[w][old.item] = "CASE_CLOSED" => Closures(events \union own) # {}
    BY <2>3 DEF Closures
  <2>11. \A e \in own : e \in old.own \/ (e.anchored = FALSE /\ e.type = Plan[w][old.item])
    BY <2>3
  <2>12. \E k \in Nat : Chain(events \union own, k)
    BY <2>5, <2>6
  <2>13. old.own \subseteq own
    OBVIOUS
  <2> HIDE DEF own
  <2>14. WriterOK(w, me, events) /\ me.own = own
    <3>1. me = [old EXCEPT !.pc = "due", !.item = @ + 1, !.own = own]
      OBVIOUS
    <3>2. WriterOK(w, old, events) /\ old.item <= Len(Plan[w])
      BY <1>0, <2>3
    <3> HIDE DEF old, me, d
    <3>3. MayOwn(w, old, own)
      BY <2>9, <2>10, <2>11, <2>12, <2>13 DEF MayOwn
    <3>. QED  BY <3>1, <3>2, <3>3, NextFact
  <2>15. ASSUME NEW v \in Writers \ {w}, writer[v].own # {}
         PROVE  FALSE
    <3>1. old.own = {}
      BY <2>15 DEF Unaltered, OneOwner
    <3>2. /\ \A e \in writer[v].own, c \in events : c.rank < e.rank
          /\ \E m \in Nat : Chain(events \union writer[v].own, m)
      BY <2>15 DEF Unaltered, WriterOK
    <3>3. PICK m \in Nat : Chain(events \union writer[v].own, m)
      BY <3>2
    <3>4. PICK e \in writer[v].own : TRUE
      BY <2>15
    <3>5. e.rank \in 1..m /\ o \in events /\ o.rank = n /\ o.rank < e.rank
      <4>1. o \in events /\ o.rank \in 1..n
        BY <2>7, <3>1
      <4>. QED  BY <2>4, <2>5, <3>2, <3>3, <3>4, <4>1 DEF Chain, Ranked
    <3>6. n + 1 \in 1..m
      BY <3>5
    <3>7. PICK c \in events \union writer[v].own : c.rank = n + 1
      BY <3>3, <3>6 DEF Chain, Ranked
    <3>8. c \in writer[v].own
      BY <2>7, <3>7
    <3>. QED  BY <2>1, <2>5, <2>15, <3>7, <3>8 DEF Blocked, RankTaken
  <2> HIDE DEF me
  <2>. QED  BY <2>1, <2>14, <2>15, WriterGoesOn
<1>10. CASE Collide(w)
  <2>1. /\ Kept /\ old.pc = "insert"
        /\ Writes(w, [old EXCEPT !.pc = "top", !.attempt = old.attempt + 1])
    BY <1>10 DEF Collide
  <2>2. old.attempt + 1 \in Nat
    BY <1>1
  <2>. QED  BY <1>1, <1>5, <2>1, <2>2
<1>11. CASE RecordThrows(w)
  <2>1. Kept /\ old.item <= Len(Plan[w])
    BY <1>1, <1>11 DEF RecordThrows
  <2>2. CASE Due(w) = "CASE_CLOSED" /\ Closures(Visible(w)) # {}
    BY <1>3, <1>11, <2>1, <2>2 DEF RecordThrows, Due
  <2>3. CASE ~(Due(w) = "CASE_CLOSED" /\ Closures(Visible(w)) # {})
    BY <1>4, <1>11, <2>1, <2>3 DEF RecordThrows
  <2>. QED  BY <2>2, <2>3
<1>12. CASE Rollback(w)
  BY <1>4, <1>12 DEF Rollback
<1>. QED  BY <1>6, <1>7, <1>8, <1>9, <1>10, <1>11, <1>12
(* A commit: the chain that the writer saw becomes the committed one.      *)
LEMMA CommitKeeps ==
  ASSUME Unaltered, NEW w \in Writers, Commit(w)
  PROVE  Unaltered'
<1> DEFINE old == writer[w]
           rows == events \union old.own
<1>0. /\ WriterOK(w, old, events) /\ TablesOK(events, line, batch, published)
      /\ Len(Plan[w]) \in Nat
      /\ Plan[w] \in Seq({"REFUND_REQUESTED", "REFUND_COMPLETED", "CASE_CLOSED"})
  BY RegistryBounds DEF Unaltered
<1>1. /\ events' = rows /\ batch' = batch /\ published' = published /\ auditor' = auditor
      /\ writer' = [writer EXCEPT ![w] = [Idle EXCEPT !.pc = "over"]]
      /\ line' = IF \E i \in DOMAIN Plan[w] : Plan[w][i] = "REFUND_COMPLETED"
                 THEN [line EXCEPT !.refundStatus = "COMPLETED"]
                 ELSE line
      /\ old.item > Len(Plan[w])
  BY DEF Commit, Visible, Writes
<1>2. \E n \in Nat : Chain(rows, n)
  BY <1>0 DEF WriterOK
<1>3. Closures(events) \subseteq Closures(rows)
  BY DEF Closures
<1>4. old.item = Len(Plan[w]) + 1 /\ DOMAIN Plan[w] = 1..Len(Plan[w])
  BY <1>0, <1>1 DEF WriterOK
<1>5. \A type : Past(w, old, type) <=> \E i \in DOMAIN Plan[w] : Plan[w][i] = type
  BY <1>0, <1>4 DEF Past
<1>6. Past(w, old, "REFUND_COMPLETED") => Closures(rows) # {}
  <2>1. Past(w, old, "REFUND_COMPLETED") => Past(w, old, "CASE_CLOSED")
    BY <1>5, CompletionCloses
  <2>. QED  BY <1>0, <2>1 DEF WriterOK
<1>7. TablesOK(rows, line', batch, published)
  <2>1. \A e \in rows : e.anchored = TRUE => batch # NoPrint /\ e.fingerprint = batch
    BY <1>0 DEF TablesOK, WriterOK
  <2>2. (\E e \in rows : e.type = "REFUND_COMPLETED") => Closures(rows) # {}
    BY <1>0, <1>3, <1>6 DEF TablesOK, WriterOK
  <2>3. line \in [parties: {"as agreed"}, refundStatus: {"REQUIRED", "COMPLETED"}]
    BY <1>0 DEF TablesOK
  <2>4. CASE Past(w, old, "REFUND_COMPLETED")
    <3>1. line' = [line EXCEPT !.refundStatus = "COMPLETED"]
      BY <1>1, <1>5, <2>4
    <3>2. line' \in [parties: {"as agreed"}, refundStatus: {"REQUIRED", "COMPLETED"}]
      BY <2>3, <3>1
    <3>. QED  BY <1>0, <1>2, <1>6, <2>1, <2>2, <2>4, <3>2 DEF TablesOK
  <2>5. CASE ~Past(w, old, "REFUND_COMPLETED")
    <3>1. line' = line
      BY <1>1, <1>5, <2>5
    <3>2. line.refundStatus = "COMPLETED" => Closures(rows) # {}
      BY <1>0, <1>3 DEF TablesOK
    <3>. QED  BY <1>0, <1>2, <2>1, <2>2, <2>3, <3>1, <3>2 DEF TablesOK
  <2>. QED  BY <2>4, <2>5
<1>8. ASSUME NEW v \in Writers, v # w  PROVE WriterOK(v, writer[v], rows)
  <2>1. CASE old.own = {}
    <3>1. rows = events
      BY <2>1
    <3>. QED  BY <3>1 DEF Unaltered
  <2>2. CASE old.own # {}
    <3> DEFINE me == writer[v]
    <3>1. me.own = {} /\ WriterOK(v, me, events)
      BY <1>8, <2>2 DEF Unaltered, OneOwner
    <3>2. \E n \in Nat : Chain(rows \union me.own, n)
      BY <1>2, <3>1
    <3>3. Past(v, me, "CASE_CLOSED") => Closures(rows \union me.own) # {}
      BY <1>3, <3>1 DEF WriterOK
    <3>4. me.pc = "insert" => \E o \in rows \union me.own :
            me.draft.rank = o.rank + 1 /\ me.draft.prev = o.fingerprint
      BY <3>1 DEF WriterOK
    <3>. QED  BY <3>1, <3>2, <3>3, <3>4 DEF WriterOK
  <2>. QED  BY <2>1, <2>2
<1>9. ASSUME NEW a \in Auditors  PROVE AuditorOK(auditor[a], rows, batch)
  <2>1. AuditorOK(auditor[a], events, batch)
    BY DEF Unaltered
  <2>2. CASE old.own = {}
    <3>1. rows = events
      BY <2>2
    <3>. QED  BY <2>1, <3>1
  <2>3. CASE old.own # {}
    <3>1. PICK e \in old.own : TRUE
      BY <2>3
    <3>2. e \in rows /\ \A o \in events : o.rank < e.rank
      BY <1>0 DEF WriterOK
    <3>3. \A o \in events : o.rank \in Nat
      BY <1>0 DEF TablesOK, Chain, WellBuilt, IsRow
    <3>4. \A o \in events : o.rank # e.rank
      BY <3>2, <3>3
    <3>5. auditor[a].pc # "idle" => auditor[a].facts # rows
      BY <2>1, <3>2, <3>4 DEF AuditorOK
    <3>6. auditor[a].verdict # "TAMPERED" \/ auditor[a].facts # rows
      BY <2>1, <3>5 DEF AuditorOK
    <3>7. auditor[a].pc # "idle" =>
            \A f \in auditor[a].facts : f.rank \in Nat /\ \E o \in rows : o.rank = f.rank
      BY <2>1 DEF AuditorOK
    <3>. QED  BY <2>1, <3>6, <3>7 DEF AuditorOK
  <2>. QED  BY <2>2, <2>3
<1>10. WriterOK(w, [Idle EXCEPT !.pc = "over"], rows) /\ [Idle EXCEPT !.pc = "over"].own = {}
  BY <1>2, OverOK
<1> DEFINE over == [Idle EXCEPT !.pc = "over"]
<1>11. /\ writer' = [v \in Writers |-> writer'[v]] /\ writer'[w] = over
       /\ \A v \in Writers : v # w => writer'[v] = writer[v]
  BY <1>1 DEF Unaltered
<1> HIDE DEF over
<1>12. \A v \in Writers : WriterOK(v, writer'[v], rows)
  BY <1>8, <1>10, <1>11 DEF over
<1>13. OneOwner'
  BY <1>10, <1>11 DEF Unaltered, OneOwner, over
<1>14. auditor' = [a \in Auditors |-> auditor'[a]]
  BY <1>1 DEF Unaltered
<1>. QED  BY <1>1, <1>7, <1>9, <1>11, <1>12, <1>13, <1>14 DEF Unaltered

(* A fingerprint is never empty.                                           *)
LEMMA PrintNotEmpty ==
  ASSUME NEW e  PROVE Document(e) # NoPrint
<1>1. Len(Document(e)) = 7
  BY DEF Document
<1>2. Len(NoPrint) = 0
  BY DEF NoPrint
<1>. QED  BY <1>1, <1>2

(* The publication of the closure.                                         *)
LEMMA PublishKeeps ==
  ASSUME Unaltered, Publish
  PROVE  Unaltered'
<1>1. PICK e \in Closures(events) :
        /\ batch' = e.fingerprint /\ published' = published \union {e.fingerprint}
        /\ events' = (events \ {e}) \union {[e EXCEPT !.anchored = TRUE]}
  BY DEF Publish
<1>2. line' = line /\ writer' = writer /\ auditor' = auditor /\ batch = NoPrint
  BY DEF Publish
<1>0. TablesOK(events, line, batch, published)
  BY DEF Unaltered
<1>3. e \in events /\ e.type = "CASE_CLOSED" /\ WellBuilt(e)
  BY <1>0 DEF Closures, TablesOK, Chain
<1> DEFINE c == [e EXCEPT !.anchored = TRUE]
           rows == (events \ {e}) \union {c}
<1>4. /\ WellBuilt(c) /\ c.rank = e.rank /\ c.type = e.type /\ c.prev = e.prev
      /\ c.fingerprint = e.fingerprint /\ c.anchored = TRUE
  BY <1>3, AnchoredRow
<1>5. events' = rows
  BY <1>1
<1> HIDE DEF c
<1>6. batch' # NoPrint
  BY <1>1, <1>3, PrintNotEmpty DEF WellBuilt
<1>7. c \in Closures(rows)
  BY <1>3, <1>4 DEF Closures
<1>8. TablesOK(rows, line', batch', published')
  <2>1. \E n \in Nat : Chain(rows, n)
    BY <1>0, <1>3, <1>4, ChainAnchored DEF TablesOK
  <2>2. \A d \in rows : d.anchored = TRUE => batch' # NoPrint /\ d.fingerprint = batch'
    BY <1>0, <1>1, <1>2, <1>4, <1>6 DEF TablesOK
  <2>3. Closures(rows) # {} /\ batch' \in published'
    BY <1>1, <1>7
  <2>. QED  BY <1>0, <1>2, <2>1, <2>2, <2>3 DEF TablesOK
<1>9. ASSUME NEW w \in Writers  PROVE WriterOK(w, writer[w], rows)
  <2> DEFINE me == writer[w]
  <2>1. WriterOK(w, me, events)
    BY DEF Unaltered
  <2>2. e \notin me.own
    <3>1. e.rank \in Nat
      BY <1>3 DEF WellBuilt, IsRow
    <3>2. \A o \in me.own : e.rank < o.rank
      BY <1>3, <2>1 DEF WriterOK
    <3>. QED  BY <3>1, <3>2
  <2>3. rows \union me.own = ((events \union me.own) \ {e}) \union {c}
    BY <2>2
  <2>4. \E n \in Nat : Chain(rows \union me.own, n)
    <3>1. PICK n \in Nat : Chain(events \union me.own, n)
      BY <2>1 DEF WriterOK
    <3>2. e \in events \union me.own
      BY <1>3
    <3>3. Chain(((events \union me.own) \ {e}) \union {c}, n)
      BY <1>4, <3>1, <3>2, ChainAnchored
    <3>. QED  BY <2>3, <3>3
  <2>5. \A d \in me.own, o \in rows : o.rank < d.rank
    BY <1>3, <1>4, <2>1 DEF WriterOK
  <2>6. Closures(rows \union me.own) # {}
    BY <1>7 DEF Closures
  <2>7. me.pc = "insert" => \E o \in rows \union me.own :
          me.draft.rank = o.rank + 1 /\ me.draft.prev = o.fingerprint
    BY <1>4, <2>1 DEF WriterOK
  <2> HIDE DEF rows
  <2>. QED  BY <2>1, <2>4, <2>5, <2>6, <2>7 DEF WriterOK
<1>10. ASSUME NEW a \in Auditors  PROVE AuditorOK(auditor[a], rows, batch')
  <2>1. AuditorOK(auditor[a], events, batch)
    BY DEF Unaltered
  <2>2. auditor[a].pc # "idle" => c \notin auditor[a].facts
    BY <1>2, <1>4, <2>1 DEF AuditorOK
  <2>3. auditor[a].verdict # "TAMPERED" \/ auditor[a].facts # rows
    BY <2>1, <2>2 DEF AuditorOK
  <2>4. auditor[a].pc # "idle" =>
          \A f \in auditor[a].facts : f.rank \in Nat /\ \E o \in rows : o.rank = f.rank
    BY <1>4, <2>1 DEF AuditorOK
  <2> HIDE DEF rows
  <2>. QED  BY <1>6, <2>1, <2>3, <2>4 DEF AuditorOK
<1>11. OneOwner'
  BY <1>2 DEF Unaltered, OneOwner
<1>12. writer' = [w \in Writers |-> writer'[w]] /\ auditor' = [a \in Auditors |-> auditor'[a]]
  BY <1>2 DEF Unaltered
<1>. QED  BY <1>2, <1>5, <1>8, <1>9, <1>10, <1>11, <1>12 DEF Unaltered
-----------------------------------------------------------------------------
(* A verification of an unaltered chain, with the line as it is now, finds *)
(* nothing wrong unless a fact was recorded behind the closure.            *)
LEMMA UnalteredIntact ==
  ASSUME TablesOK(events, line, batch, published), ~GrewBehindClosure(events), NEW reachable
  PROVE  Intact(events, reachable)
<1>0. PICK n \in Nat : Chain(events, n)
  BY DEF TablesOK
<1>1. n \in Nat \ {0} /\ Ranked(events, n) /\ \A e \in events : WellBuilt(e) /\ e.rank \in 1..n
  BY <1>0 DEF Chain, Ranked
<1>2. Cardinality(events) = n
  BY <1>1, RankedCount
<1>3. \A e \in events : FingerprintMatches(e)
  BY <1>1 DEF FingerprintMatches, WellBuilt
<1>4. \A e \in events : ChainIntact(events, e)
  BY <1>0, ChainLink DEF ChainIntact
<1>5. ASSUME NEW e \in events  PROVE AnchorVerified(e, reachable) # "false"
  <2>1. e.anchored \in BOOLEAN
    BY <1>1 DEF WellBuilt, IsRow
  <2>2. CASE e.anchored = FALSE
    BY <2>2 DEF AnchorVerified
  <2>3. CASE e.anchored = TRUE
    <3>1. e.fingerprint = batch /\ batch \in published
      BY <2>3 DEF TablesOK
    <3>. QED  BY <2>3, <3>1 DEF AnchorVerified
  <2>. QED  BY <2>1, <2>2, <2>3
<1>6. {e.rank : e \in events} = 1..Cardinality(events)
  BY <1>1, <1>2 DEF Ranked
<1>7. ASSUME NEW e \in Closures(events)  PROVE ClosureSound(events, e)
  <2>1. e \in events /\ e.count = e.rank /\ e.head = e.prev
    BY <1>1 DEF Closures, WellBuilt
  <2>2. \A o \in events : ~(e.rank < o.rank)
    BY <1>7 DEF GrewBehindClosure
  <2>3. PICK t \in events : t.rank = n
    BY <1>1 DEF Ranked
  <2>4. e.rank \in 1..n /\ ~(e.rank < n)
    BY <1>1, <2>1, <2>2, <2>3
  <2>5. e.rank = n
    BY <1>1, <2>4
  <2>6. e.head = LastPrint(Before(events, e))
    BY <1>0, <2>1, ChainLink
  <2>. QED  BY <1>2, <2>1, <2>5, <2>6 DEF ClosureSound
<1>8. ASSUME Closures(events) = {}  PROVE ~ClosureExpected(LineState, Types(events))
  <2>1. LineState.refundStatus # "COMPLETED"
    BY <1>8 DEF LineState, TablesOK
  <2>2. ASSUME NEW i \in 1..n  PROVE \E e \in events : Types(events)[i] = e.type
    <3>1. PICK e \in events : e.rank = i
      BY <1>1 DEF Ranked
    <3>2. Ranked(Before(events, e), i - 1) /\ i - 1 \in Nat
      BY <1>1, <3>1, RankedBelow
    <3>3. Cardinality(Before(events, e)) = i - 1
      BY <3>2, RankedCount
    <3>4. (CHOOSE c \in events : Cardinality(Before(events, c)) = i - 1) \in events
      BY <3>3
    <3>. QED  BY <1>2, <3>4 DEF Types
  <2>3. DOMAIN Types(events) = 1..n
    BY <1>2 DEF Types
  <2>4. \A e \in events : e.type \in {"PAYMENT_INITIATED", "REFUND_REQUESTED"}
    <3>1. \A e \in events : e.type \in FactTypes
      BY <1>1 DEF WellBuilt, IsRow
    <3>2. \A e \in events : e.type # "CASE_CLOSED" /\ e.type # "REFUND_COMPLETED"
      BY <1>8 DEF Closures, TablesOK
    <3>. QED  BY <3>1, <3>2 DEF FactTypes
  <2>5. \A i \in DOMAIN Types(events) :
          Types(events)[i] \in {"PAYMENT_INITIATED", "REFUND_REQUESTED"}
    BY <2>2, <2>3, <2>4
  <2>. QED  BY <2>1, <2>5 DEF ClosureExpected, LineState
<1>9. PartiesMatch(events)
  <2>1. \A e \in events : e.parties \in {"none", "as agreed"}
    BY <1>1 DEF WellBuilt, IsRow
  <2>2. line.parties = "as agreed"
    BY DEF TablesOK
  <2>. QED  BY <2>1, <2>2 DEF PartiesMatch
<1>. QED  BY <1>3, <1>4, <1>5, <1>6, <1>7, <1>8, <1>9 DEF Intact

(* A verification reads, or concludes.                                     *)
LEMMA AuditorKeeps ==
  ASSUME Unaltered, NEW a \in Auditors, ReadChain(a) \/ Conclude(a)
  PROVE  Unaltered'
<1>0. /\ AuditorOK(auditor[a], events, batch) /\ TablesOK(events, line, batch, published)
      /\ auditor = [b \in Auditors |-> auditor[b]]
  BY DEF Unaltered
<1>1. ASSUME NEW q, Concludes(a, q), AuditorOK(q, events, batch)
      PROVE  Unaltered'
  <2>1. /\ events' = events /\ line' = line /\ batch' = batch /\ published' = published
        /\ writer' = writer /\ auditor' = [auditor EXCEPT ![a] = q]
    BY <1>1 DEF Concludes
  <2>2. /\ auditor' = [b \in Auditors |-> auditor'[b]] /\ auditor'[a] = q
        /\ \A b \in Auditors : b # a => auditor'[b] = auditor[b]
    BY <1>0, <2>1
  <2>3. \A b \in Auditors : AuditorOK(auditor'[b], events', batch')
    BY <1>1, <2>1, <2>2 DEF Unaltered
  <2>4. OneOwner' /\ \A w \in Writers : WriterOK(w, writer'[w], events')
    BY <2>1 DEF Unaltered, OneOwner
  <2>. QED  BY <1>0, <2>1, <2>2, <2>3, <2>4 DEF Unaltered
<1> DEFINE old == auditor[a]
<1>2. old \in [pc: {"idle", "read", "concluded"}, facts: {old.facts}, parties: {old.parties},
               verdict: {old.verdict}]
  BY <1>0 DEF AuditorOK
<1>3. CASE ReadChain(a)
  <2> DEFINE q == [old EXCEPT !.pc = "read", !.facts = events]
  <2>1. Concludes(a, q) /\ old.pc = "idle"
    BY <1>3 DEF ReadChain
  <2>2. /\ q.pc = "read" /\ q.facts = events /\ q.verdict = old.verdict
        /\ q \in [pc: {"idle", "read", "concluded"}, facts: {q.facts}, parties: {q.parties},
                  verdict: {q.verdict}]
    BY <1>2
  <2> HIDE DEF q
  <2>3. old.verdict = "none"
    BY <1>0, <2>1 DEF AuditorOK
  <2>4. events # {} /\ \A f \in events : f.rank \in Nat
    <3>1. PICK n \in Nat : Chain(events, n)
      BY <1>0 DEF TablesOK
    <3>2. n \in 1..n
      BY <3>1 DEF Chain
    <3>. QED  BY <3>1, <3>2 DEF Chain, Ranked, WellBuilt, IsRow
  <2>5. \A f \in events : f.anchored = TRUE => batch # NoPrint
    BY <1>0 DEF TablesOK
  <2>6. AuditorOK(q, events, batch)
    BY <2>2, <2>3, <2>4, <2>5 DEF AuditorOK
  <2>. QED  BY <1>1, <2>1, <2>6
<1>4. CASE Conclude(a)
  <2>1. PICK reachable \in BOOLEAN :
          Concludes(a, [old EXCEPT !.pc = "concluded", !.parties = line.parties,
                                   !.verdict = Verdict(old.facts, reachable)])
    BY <1>4 DEF Conclude
  <2> DEFINE v == Verdict(old.facts, reachable)
             q == [old EXCEPT !.pc = "concluded", !.parties = line.parties, !.verdict = v]
  <2>2. Concludes(a, q) /\ old.pc = "read"
    BY <1>4, <2>1 DEF Conclude
  <2>3. v = "TAMPERED" /\ old.facts = events => GrewBehindClosure(events)
    <3>1. old.facts # {}
      BY <1>0, <2>2 DEF AuditorOK
    <3>2. SUFFICES ASSUME old.facts = events, ~GrewBehindClosure(events)
                   PROVE  v # "TAMPERED"
      OBVIOUS
    <3>3. Intact(old.facts, reachable)
      BY <1>0, <3>2, UnalteredIntact
    <3>. QED  BY <3>1, <3>3 DEF Verdict
  <2> HIDE DEF v
  <2>4. /\ q.pc = "concluded" /\ q.facts = old.facts /\ q.verdict = v
        /\ q \in [pc: {"idle", "read", "concluded"}, facts: {q.facts}, parties: {q.parties},
                  verdict: {q.verdict}]
    BY <1>2
  <2> HIDE DEF q
  <2>5. AuditorOK(q, events, batch)
    BY <1>0, <2>2, <2>3, <2>4 DEF AuditorOK
  <2>. QED  BY <1>1, <2>2, <2>5
<1>. QED  BY <1>3, <1>4
-----------------------------------------------------------------------------
(* Every step keeps the invariant; the first alteration ends it.           *)
LEMMA RegistryStep ==
  ASSUME RegistryInv, [RegistryNext]_registryVars
  PROVE  RegistryInv'
<1>0. alterations \in Nat /\ (alterations = 0 => Unaltered)
  BY DEF RegistryInv
<1>1. CASE Alter
  <2>1. alterations' = alterations + 1
    BY <1>1 DEF Alter
  <2>2. alterations' \in Nat /\ alterations' # 0
    BY <1>0, <2>1
  <2>. QED  BY <2>2 DEF RegistryInv
<1>2. ASSUME alterations' = alterations, Unaltered => Unaltered'
      PROVE  RegistryInv'
  BY <1>0, <1>2 DEF RegistryInv
<1>3. ASSUME NEW w \in Writers, WriterStep(w)  PROVE RegistryInv'
  <2>1. CASE Commit(w)
    <3>1. alterations' = alterations
      BY <2>1 DEF Commit
    <3>. QED  BY <1>2, <2>1, <3>1, CommitKeeps
  <2>2. CASE \/ Begin(w) \/ StartFact(w) \/ ReadTop(w) \/ Insert(w) \/ Collide(w)
             \/ RecordThrows(w) \/ Rollback(w)
    <3>1. alterations' = alterations
      BY <2>2 DEF Begin, StartFact, ReadTop, Insert, Collide, RecordThrows, Rollback, Kept
    <3>. QED  BY <1>2, <2>2, <3>1, WriterStepKeeps
  <2>. QED  BY <1>3, <2>1, <2>2 DEF WriterStep
<1>4. ASSUME NEW a \in Auditors, ReadChain(a) \/ Conclude(a)  PROVE RegistryInv'
  <2>1. alterations' = alterations
    BY <1>4 DEF ReadChain, Conclude, Concludes
  <2>. QED  BY <1>2, <1>4, <2>1, AuditorKeeps
<1>5. CASE Publish
  <2>1. alterations' = alterations
    BY <1>5 DEF Publish
  <2>. QED  BY <1>2, <1>5, <2>1, PublishKeeps
<1>6. CASE OnModuleInit \/ UNCHANGED registryVars
  <2>1. UNCHANGED <<events, line, batch, published, writer, auditor, alterations>>
    BY <1>6 DEF OnModuleInit, registryVars
  <2>2. Unaltered => Unaltered'
    BY <2>1 DEF Unaltered, OneOwner
  <2>. QED  BY <1>2, <2>1, <2>2
<1>. QED  BY <1>1, <1>3, <1>4, <1>5, <1>6 DEF RegistryNext

(* The invariant of the registry holds for ever.                           *)
LEMMA RegistryInductive == RegistrySpec => []RegistryInv
<1>1. RegistryInv /\ [RegistryNext]_registryVars => RegistryInv'
  BY RegistryStep
<1>. QED  BY <1>1, RegistryStart, PTL DEF RegistrySpec

(* Whatever the number of writers and the order of their records,          *)
(* collisions, rollbacks and stops, the facts of a case that only the      *)
(* gateway wrote form one chain (SingleChain).                             *)
THEOREM SingleChainHolds == RegistrySpec => []SingleChain
<1>1. ASSUME RegistryInv  PROVE SingleChain
  <2>1. SUFFICES ASSUME alterations = 0
                 PROVE  /\ \A e, o \in events : e.rank = o.rank => e = o
                        /\ {e.rank : e \in events} = 1..Cardinality(events)
                        /\ \A e \in events : e.prev = LastPrint(Before(events, e))
    BY DEF SingleChain
  <2>2. PICK n \in Nat : Chain(events, n)
    BY <1>1, <2>1 DEF RegistryInv, Unaltered, TablesOK
  <2>3. Ranked(events, n) /\ Cardinality(events) = n
    BY <2>2, RankedCount DEF Chain
  <2>4. \A e \in events : e.prev = LastPrint(Before(events, e))
    BY <2>2, ChainLink
  <2>. QED  BY <2>3, <2>4 DEF Ranked
<1>. QED  BY <1>1, RegistryInductive, PTL

(* A case that only the gateway wrote has one closure at most, which       *)
(* declares the facts up to itself and their head; a completed refund has  *)
(* it (ClosureSealsTheCase).                                               *)
THEOREM ClosureSealsTheCaseHolds == RegistrySpec => []ClosureSealsTheCase
<1>1. ASSUME RegistryInv  PROVE ClosureSealsTheCase
  <2>1. SUFFICES ASSUME alterations = 0
                 PROVE  /\ \A e, o \in Closures(events) : e = o
                        /\ \A e \in Closures(events) :
                             /\ e.count = Cardinality(Before(events, e)) + 1
                             /\ e.head = LastPrint(Before(events, e))
                        /\ line.refundStatus = "COMPLETED" => Closures(events) # {}
    BY DEF ClosureSealsTheCase
  <2>2. TablesOK(events, line, batch, published)
    BY <1>1, <2>1 DEF RegistryInv, Unaltered
  <2>3. PICK n \in Nat : Chain(events, n)
    BY <2>2 DEF TablesOK
  <2>4. ASSUME NEW e \in Closures(events)
        PROVE  /\ e.count = Cardinality(Before(events, e)) + 1
               /\ e.head = LastPrint(Before(events, e))
    <3>1. e \in events /\ e.count = e.rank /\ e.head = e.prev
      BY <2>3 DEF Closures, Chain, WellBuilt
    <3>2. Ranked(Before(events, e), e.rank - 1) /\ e.rank - 1 \in Nat
      BY <2>3, <3>1, RankedBelow DEF Chain
    <3>3. Cardinality(Before(events, e)) = e.rank - 1
      BY <3>2, RankedCount
    <3>4. e.rank \in Nat
      BY <2>3, <3>1 DEF Chain, WellBuilt, IsRow
    <3>5. e.head = LastPrint(Before(events, e))
      BY <2>3, <3>1, ChainLink
    <3>. QED  BY <3>1, <3>3, <3>4, <3>5
  <2>5. \A e, o \in Closures(events) : e = o
    BY <2>3 DEF Chain
  <2>. QED  BY <2>2, <2>4, <2>5 DEF TablesOK
<1>. QED  BY <1>1, RegistryInductive, PTL

(* TAMPERED is never said of a case that only the gateway wrote, unless    *)
(* the chain grew between the reads of the verification or a fact was      *)
(* recorded behind the closure (AccusedOnlyForCause).                      *)
THEOREM AccusedOnlyForCauseHolds == RegistrySpec => []AccusedOnlyForCause
<1>1. ASSUME RegistryInv  PROVE AccusedOnlyForCause
  <2>1. ASSUME NEW a \in Auditors, auditor[a].verdict = "TAMPERED", alterations = 0,
               auditor[a].facts = events
        PROVE  \E e \in events, o \in Closures(events) : o.rank < e.rank
    <3>1. AuditorOK(auditor[a], events, batch)
      BY <1>1, <2>1 DEF RegistryInv, Unaltered
    <3>. QED  BY <2>1, <3>1 DEF AuditorOK, GrewBehindClosure
  <2>. QED  BY <2>1 DEF AccusedOnlyForCause
<1>. QED  BY <1>1, RegistryInductive, PTL
-----------------------------------------------------------------------------
(* A chain that is rebuilt is finite: the recursion that builds it defines *)
(* a function, and each of its steps adds one row.                         *)
LEMMA RebuiltFinite ==
  ASSUME NEW rows, IsFiniteSet(rows)
  PROVE  IsFiniteSet(Rebuilt(rows))
<1> DEFINE Nth(n) == CHOOSE e \in rows : Cardinality(Before(rows, e)) = n - 1
           Row(n, s) == Seal([Draft(Nth(n).type, s) EXCEPT
                                !.content = Nth(n).content, !.anchored = Nth(n).anchored])
           Step(f, m) == [n \in 0..m |-> IF n = 0 THEN {} ELSE f[n - 1] \union {Row(n, f[n - 1])}]
           K == Cardinality(rows)
           first == CHOOSE f : f = Step(f, K)
<1>1. Rebuilt(rows) = first[K]
  BY DEF Rebuilt
<1>2. K \in Nat
  BY FS_CardinalityType
<1> HIDE DEF Row, K
<1>3. \A m \in Nat : \E f : f = Step(f, m)
  <2> DEFINE T == {m \in Nat : ~\E f : f = Step(f, m)}
  <2>1. SUFFICES ASSUME T # {}  PROVE FALSE
    OBVIOUS
  <2>2. PICK m \in T : \A k \in T : m <= k
    BY <2>1, LeastMember
  <2>3. m # 0
    <3> DEFINE f == [n \in 0..0 |-> {}]
    <3>1. f = Step(f, 0)
      OBVIOUS
    <3>. QED  BY <2>2, <3>1
  <2>4. m - 1 \in Nat /\ m - 1 \notin T
    <3>1. m \in Nat /\ T \subseteq Nat
      BY <2>2
    <3> HIDE DEF T
    <3>. QED  BY <2>2, <2>3, <3>1
  <2>5. PICK g : g = Step(g, m - 1)
    BY <2>4
  <2> DEFINE f == [n \in 0..m |-> IF n = m THEN g[m - 1] \union {Row(m, g[m - 1])} ELSE g[n]]
  <2>6. ASSUME NEW n \in 0..m
        PROVE  f[n] = IF n = 0 THEN {} ELSE f[n - 1] \union {Row(n, f[n - 1])}
    <3>1. CASE n = 0
      <4>1. g[0] = {}
        BY <2>4, <2>5
      <4>. QED  BY <2>3, <3>1, <4>1
    <3>2. CASE n = m
      <4>1. n - 1 \in 0..m /\ n - 1 # m /\ n # 0
        BY <2>3, <3>2
      <4>2. f[n - 1] = g[n - 1]
        BY <4>1
      <4>. QED  BY <3>2, <4>1, <4>2
    <3>3. CASE n # 0 /\ n # m
      <4>1. n - 1 \in 0..m /\ n - 1 # m /\ n \in 0..(m - 1)
        BY <3>3
      <4>2. f[n - 1] = g[n - 1] /\ f[n] = g[n]
        BY <3>3, <4>1
      <4>3. g[n] = g[n - 1] \union {Row(n, g[n - 1])}
        BY <2>5, <3>3, <4>1
      <4>. QED  BY <3>3, <4>2, <4>3
    <3>. QED  BY <3>1, <3>2, <3>3
  <2>7. f = Step(f, m)
    <3>1. f = [n \in 0..m |-> f[n]]
      OBVIOUS
    <3> HIDE DEF f
    <3>. QED  BY <2>6, <3>1
  <2>. QED  BY <2>2, <2>7
<1>4. first = Step(first, K)
  BY <1>2, <1>3
<1> HIDE DEF first
<1>5. \A n \in 0..K : IsFiniteSet(first[n])
  <2> DEFINE T == {n \in 0..K : ~IsFiniteSet(first[n])}
  <2>1. SUFFICES ASSUME T # {}  PROVE FALSE
    OBVIOUS
  <2>2. T \subseteq Nat
    BY <1>2
  <2>3. PICK n \in T : \A k \in T : n <= k
    BY <2>1, <2>2, LeastMember
  <2>4. n # 0
    <3>1. first[0] = {}
      BY <1>2, <1>4
    <3>. QED  BY <2>3, <3>1, FS_EmptySet
  <2>5. n - 1 \in 0..K /\ n - 1 \notin T
    BY <1>2, <2>3, <2>4
  <2>6. first[n] = first[n - 1] \union {Row(n, first[n - 1])}
    BY <1>4, <2>3, <2>4
  <2>7. IsFiniteSet(first[n - 1])
    BY <2>5
  <2>8. IsFiniteSet(first[n])
    BY <2>6, <2>7, FS_AddElement
  <2>. QED  BY <2>3, <2>8
<1>. QED  BY <1>1, <1>2, <1>5
-----------------------------------------------------------------------------
(* Documents linked down from p: rank and link are the first and the fifth *)
(* column.                                                                 *)
Linked(docs, p) ==
  /\ p \in docs /\ p[1] \in Nat \ {0}
  /\ \A d \in docs : d[1] \in 1..p[1]
  /\ \A i \in 1..p[1] : \E d \in docs : d[1] = i
  /\ \A d, c \in docs : d[1] = c[1] => d = c
  /\ \A d, c \in docs : d[1] = c[1] + 1 => d[5] = c

(* The last document determines all the others.                            *)
LEMMA LinkedUnique ==
  ASSUME NEW docs, NEW others, NEW p, Linked(docs, p), Linked(others, p)
  PROVE  docs = others
<1> DEFINE n == p[1]
           Differ(i) == \E d \in docs, c \in others : d[1] = i /\ c[1] = i /\ d # c
           T == {k \in Nat : n - k \in 1..n /\ Differ(n - k)}
<1>0. n \in Nat \ {0}
  BY DEF Linked
<1>1. T = {}
  <2>1. SUFFICES ASSUME T # {}  PROVE FALSE
    OBVIOUS
  <2>2. T \subseteq Nat
    OBVIOUS
  <2>3. PICK m \in T : \A k \in T : m <= k
    BY <2>1, <2>2, LeastMember
  <2>4. m \in Nat /\ n - m \in 1..n /\ Differ(n - m)
    BY <2>3
  <2>5. PICK d \in docs, c \in others : d[1] = n - m /\ c[1] = n - m /\ d # c
    BY <2>4
  <2>6. m # 0
    <3>1. SUFFICES ASSUME m = 0  PROVE FALSE
      OBVIOUS
    <3>2. d[1] = p[1] /\ c[1] = p[1]
      BY <1>0, <2>5, <3>1
    <3>. QED  BY <2>5, <3>2 DEF Linked
  <2>7. m - 1 \in Nat /\ m - 1 \notin T
    <3> HIDE DEF T
    <3>. QED  BY <2>2, <2>3, <2>4, <2>6
  <2>8. n - (m - 1) \in 1..n /\ n - (m - 1) = (n - m) + 1
    BY <1>0, <2>4, <2>6
  <2>9. ~Differ(n - (m - 1))
    BY <2>7, <2>8
  <2>10. PICK d1 \in docs : d1[1] = n - (m - 1)
    BY <2>8 DEF Linked
  <2>11. PICK c1 \in others : c1[1] = n - (m - 1)
    BY <2>8 DEF Linked
  <2>12. d1 = c1
    BY <2>9, <2>10, <2>11
  <2>13. d1[1] = d[1] + 1 /\ c1[1] = c[1] + 1
    BY <2>5, <2>8, <2>10, <2>11
  <2>14. d1[5] = d /\ c1[5] = c
    BY <2>13 DEF Linked
  <2>. QED  BY <2>5, <2>12, <2>14
<1>2. ASSUME NEW d \in docs, NEW c \in others, d[1] = c[1]
      PROVE  d = c
  <2>1. d[1] \in 1..n
    BY DEF Linked
  <2>2. n - d[1] \in Nat /\ n - (n - d[1]) = d[1]
    BY <1>0, <2>1
  <2>3. ~Differ(d[1])
    BY <1>1, <2>1, <2>2
  <2>. QED  BY <1>2, <2>3
<1>3. \A d \in docs : d \in others
  BY <1>2 DEF Linked
<1>4. \A c \in others : c \in docs
  BY <1>2 DEF Linked
<1>. QED  BY <1>3, <1>4

(* The documents of ranked, sealed and linked rows.                        *)
LEMMA LinkedDocuments ==
  ASSUME NEW rows, NEW n \in Nat \ {0}, Ranked(rows, n), NEW e \in rows, e.rank = n,
         \A o \in rows : o.fingerprint = Document(o),
         \A o, c \in rows : o.rank = c.rank + 1 => o.prev = c.fingerprint
  PROVE  Linked({Document(o) : o \in rows}, Document(e))
<1> DEFINE docs == {Document(o) : o \in rows}
<1>1. \A o : Document(o)[1] = o.rank /\ Document(o)[5] = o.prev
  BY DEF Document
<1>2. \A d \in docs : \E o \in rows : d = Document(o)
  OBVIOUS
<1>3. \A o \in rows : Document(o) \in docs
  OBVIOUS
<1> HIDE DEF docs
<1>4. \A d \in docs : d[1] \in 1..n
  BY <1>1, <1>2 DEF Ranked
<1>5. \A i \in 1..n : \E d \in docs : d[1] = i
  BY <1>1, <1>3 DEF Ranked
<1>6. ASSUME NEW d \in docs, NEW c \in docs
      PROVE  (d[1] = c[1] => d = c) /\ (d[1] = c[1] + 1 => d[5] = c)
  <2>1. PICK o \in rows : d = Document(o)
    BY <1>2
  <2>2. PICK b \in rows : c = Document(b)
    BY <1>2
  <2>3. d[1] = o.rank /\ d[5] = o.prev /\ c[1] = b.rank /\ b.fingerprint = c
    BY <1>1, <2>1, <2>2
  <2>. QED  BY <2>1, <2>2, <2>3 DEF Ranked
<1>7. Document(e)[1] = n
  BY <1>1
<1>. QED  BY <1>3, <1>4, <1>5, <1>6, <1>7 DEF Linked, docs

(* What a verification that finds the chain intact has checked.            *)
LEMMA IntactRows ==
  ASSUME NEW rows, IsFiniteSet(rows), NEW reachable, Intact(rows, reachable), rows # {}
  PROVE  /\ Cardinality(rows) \in Nat \ {0} /\ Ranked(rows, Cardinality(rows))
         /\ \A o \in rows : o.fingerprint = Document(o)
         /\ \A o, c \in rows : o.rank = c.rank + 1 => o.prev = c.fingerprint
<1> DEFINE n == Cardinality(rows)
           f == [o \in rows |-> o.rank]
<1>1. n \in Nat \ {0}
  BY FS_CardinalityType, FS_EmptySet
<1>2. {o.rank : o \in rows} = 1..n
  BY DEF Intact
<1>3. f \in Surjection(rows, 1..n)
  BY <1>2 DEF Surjection
<1>4. Cardinality(1..n) = n
  BY <1>1, FS_Interval
<1>5. f \in Injection(rows, 1..n)
  BY <1>3, <1>4, FS_Surjection
<1>6. \A o, c \in rows : o.rank = c.rank => o = c
  BY <1>5 DEF Injection, IsInjective
<1> HIDE DEF n
<1>7. Ranked(rows, n)
  BY <1>2, <1>6 DEF Ranked
<1>8. \A o \in rows : o.fingerprint = Document(o) /\ o.prev = LastPrint(Before(rows, o))
  BY DEF Intact, FingerprintMatches, ChainIntact
<1>9. ASSUME NEW o \in rows, NEW c \in rows, o.rank = c.rank + 1
      PROVE  o.prev = c.fingerprint
  <2>1. o.rank \in 1..n /\ c.rank \in 1..n
    BY <1>7 DEF Ranked
  <2>2. Ranked(Before(rows, o), o.rank - 1) /\ o.rank - 1 \in Nat
    BY <1>1, <1>7, RankedBelow
  <2>3. c \in Before(rows, o) /\ c.rank = o.rank - 1 /\ o.rank - 1 \in Nat \ {0}
    BY <1>9, <2>1 DEF Before
  <2>4. LastPrint(Before(rows, o)) = c.fingerprint
    BY <2>2, <2>3, RankedTop
  <2>. QED  BY <1>8, <2>4
<1>. QED  BY <1>1, <1>7, <1>8, <1>9 DEF n
(* What holds whatever other hands wrote: the closure is published once,   *)
(* before any alteration, with the documents that it ends; and a case that *)
(* was VERIFIED has those documents.                                       *)
IsWriter(me) ==
  /\ me \in [pc: {me.pc}, item: {me.item}, attempt: {me.attempt}, draft: {me.draft},
             own: {me.own}]
  /\ IsFiniteSet(me.own)

IsAuditor(q) ==
  /\ q \in [pc: {q.pc}, facts: {q.facts}, parties: {q.parties}, verdict: {q.verdict}]
  /\ IsFiniteSet(q.facts)
  /\ q.pc # "concluded" => q.verdict = "none"

Genuine(q, history) ==
  q.verdict = "VERIFIED" =>
    /\ {Document(e) : e \in q.facts} \in history
    /\ \A e \in q.facts : e.parties \in {"none", q.parties}

GenuineInv ==
  /\ published # {} => batch # NoPrint
  /\ published = {} => alterations = 0
  /\ \A p \in published : \E docs \in sealed : Linked(docs, p)
  /\ IsFiniteSet(events)
  /\ writer = [w \in Writers |-> writer[w]]
  /\ \A w \in Writers : IsWriter(writer[w])
  /\ auditor = [a \in Auditors |-> auditor[a]]
  /\ \A a \in Auditors : IsAuditor(auditor[a]) /\ Genuine(auditor[a], sealed)

(* What verify relies on holds at the start.                               *)
LEMMA GenuineStart == RegistryInit => GenuineInv
<1> SUFFICES ASSUME RegistryInit  PROVE GenuineInv
  OBVIOUS
<1>1. /\ events = {Opening} /\ published = {} /\ alterations = 0
      /\ writer = [w \in Writers |-> Idle] /\ auditor = [a \in Auditors |-> Unread]
  BY DEF RegistryInit
<1>2. IsFiniteSet(events)
  BY <1>1, FS_Singleton
<1>3. IsWriter(Idle)
  BY FS_EmptySet DEF IsWriter, Idle
<1>4. IsAuditor(Unread) /\ Genuine(Unread, sealed)
  BY FS_EmptySet DEF IsAuditor, Unread, Genuine
<1>. QED  BY <1>1, <1>2, <1>3, <1>4 DEF GenuineInv

(* A verification that concludes VERIFIED read what was published.         *)
LEMMA VerifiedRows ==
  ASSUME GenuineInv, NEW rows, IsFiniteSet(rows), NEW reachable,
         Verdict(rows, reachable) = "VERIFIED"
  PROVE  /\ {Document(e) : e \in rows} \in sealed
         /\ \A e \in rows : e.parties \in {"none", line.parties}
<1>1. rows # {} /\ Intact(rows, reachable)
  BY DEF Verdict
<1>2. PICK e \in Closures(rows) : AnchorVerified(e, reachable) = "true"
  BY <1>1 DEF Verdict
<1> DEFINE n == Cardinality(rows)
<1>3. /\ n \in Nat \ {0} /\ Ranked(rows, n)
      /\ \A o \in rows : o.fingerprint = Document(o)
      /\ \A o, c \in rows : o.rank = c.rank + 1 => o.prev = c.fingerprint
  BY <1>1, IntactRows
<1>4. e \in rows /\ e.rank = n
  BY <1>1, <1>2 DEF Intact, ClosureSound, Closures
<1>5. e.fingerprint = batch /\ batch \in published
  BY <1>2 DEF AnchorVerified
<1> HIDE DEF n
<1>6. Document(e) \in published
  BY <1>3, <1>4, <1>5
<1>7. Linked({Document(o) : o \in rows}, Document(e))
  BY <1>3, <1>4, LinkedDocuments
<1>8. PICK docs \in sealed : Linked(docs, Document(e))
  BY <1>6 DEF GenuineInv
<1>9. {Document(o) : o \in rows} = docs
  BY <1>7, <1>8, LinkedUnique
<1>10. \A o \in rows : o.parties \in {"none", line.parties}
  BY <1>1 DEF Intact, PartiesMatch
<1>. QED  BY <1>8, <1>9, <1>10

(* The steps that leave the publication alone.                             *)
LEMMA GenuineWriter ==
  ASSUME GenuineInv, NEW w \in Writers, NEW me, Writes(w, me), IsWriter(me),
         IsFiniteSet(events'), UNCHANGED <<batch, published, auditor, alterations, sealed>>
  PROVE  GenuineInv'
<1>1. /\ writer' = [v \in Writers |-> writer'[v]] /\ writer'[w] = me
      /\ \A v \in Writers : v # w => writer'[v] = writer[v]
  BY DEF Writes, GenuineInv
<1>2. \A v \in Writers : IsWriter(writer'[v])
  BY <1>1 DEF GenuineInv
<1>. QED  BY <1>1, <1>2 DEF GenuineInv

(* No step of a writer disturbs what verify relies on.                     *)
LEMMA GenuineWriterStep ==
  ASSUME GenuineInv, NEW w \in Writers, WriterStep(w)
  PROVE  GenuineInv'
<1> DEFINE old == writer[w]
<1>0. IsWriter(old) /\ IsFiniteSet(events)
  BY DEF GenuineInv
<1>1. old \in [pc: {old.pc}, item: {old.item}, attempt: {old.attempt}, draft: {old.draft},
               own: {old.own}]
  BY <1>0 DEF IsWriter
<1>3. IsFiniteSet(old.own) /\ IsFiniteSet(old.own \union {old.draft})
  BY <1>0, FS_AddElement DEF IsWriter
<1>4. \A p : IsWriter([old EXCEPT !.pc = p])
  BY <1>1, <1>3 DEF IsWriter
<1>5. \A p, k : IsWriter([old EXCEPT !.pc = p, !.attempt = k])
  BY <1>1, <1>3 DEF IsWriter
<1>6. \A p, d : IsWriter([old EXCEPT !.pc = p, !.draft = d])
  BY <1>1, <1>3 DEF IsWriter
<1>7. \A p, i, own : IsFiniteSet(own) => IsWriter([old EXCEPT !.pc = p, !.item = i, !.own = own])
  BY <1>1 DEF IsWriter
<1>8. IsWriter([Idle EXCEPT !.pc = "over"])
  BY FS_EmptySet DEF IsWriter, Idle
<1>9. CASE Commit(w)
  <2>1. /\ events' = events \union old.own /\ Writes(w, [Idle EXCEPT !.pc = "over"])
        /\ UNCHANGED <<batch, published, auditor, alterations, sealed>>
    BY <1>9 DEF Commit, Visible
  <2>2. IsFiniteSet(events')
    BY <1>0, <1>3, <2>1, FS_Union
  <2>. QED  BY <1>8, <2>1, <2>2, GenuineWriter
<1>10. ASSUME Kept, NEW me, Writes(w, me), IsWriter(me)
       PROVE  GenuineInv'
  <2>1. events' = events /\ UNCHANGED <<batch, published, auditor, alterations, sealed>>
    BY <1>10 DEF Kept
  <2>. QED  BY <1>0, <1>10, <2>1, GenuineWriter
<1>11. CASE Begin(w)
  BY <1>4, <1>10, <1>11 DEF Begin
<1>12. ASSUME Kept, NEW own, IsFiniteSet(own), Proceeds(w, own)
       PROVE  GenuineInv'
  BY <1>7, <1>10, <1>12 DEF Proceeds
<1>13. CASE StartFact(w)
  BY <1>3, <1>5, <1>10, <1>12, <1>13 DEF StartFact
<1>14. CASE ReadTop(w)
  BY <1>6, <1>10, <1>14 DEF ReadTop
<1>15. CASE Insert(w)
  BY <1>3, <1>12, <1>15 DEF Insert
<1>16. CASE Collide(w)
  BY <1>5, <1>10, <1>16 DEF Collide
<1>17. CASE RecordThrows(w)
  BY <1>3, <1>8, <1>10, <1>12, <1>17 DEF RecordThrows
<1>18. CASE Rollback(w)
  BY <1>8, <1>10, <1>18 DEF Rollback
<1>. QED  BY <1>9, <1>11, <1>13, <1>14, <1>15, <1>16, <1>17, <1>18 DEF WriterStep
(* The publication comes before any alteration: what it seals is a chain.  *)
LEMMA GenuinePublish ==
  ASSUME RegistryInv, GenuineInv, Publish
  PROVE  GenuineInv'
<1>1. PICK e \in Closures(events) :
        /\ batch' = e.fingerprint /\ published' = published \union {e.fingerprint}
        /\ events' = (events \ {e}) \union {[e EXCEPT !.anchored = TRUE]}
        /\ sealed' = sealed \union {{Document(o) : o \in {e} \union Before(events, e)}}
  BY DEF Publish
<1>2. batch = NoPrint /\ UNCHANGED <<writer, auditor, alterations>>
  BY DEF Publish
<1>3. alterations = 0 /\ published = {}
  BY <1>2 DEF GenuineInv
<1>4. PICK n \in Nat : Chain(events, n)
  BY <1>3 DEF RegistryInv, Unaltered, TablesOK
<1>5. e \in events /\ e.fingerprint = Document(e) /\ e.rank \in 1..n /\ Ranked(events, n)
  BY <1>1, <1>4 DEF Closures, Chain, WellBuilt, Ranked
<1> DEFINE rows == {e} \union Before(events, e)
           docs == {Document(o) : o \in rows}
<1>6. Ranked(rows, e.rank)
  <2>1. Ranked(Before(events, e), e.rank - 1) /\ e.rank - 1 \in Nat
    BY <1>5, RankedBelow
  <2>2. \A o \in Before(events, e) : o.rank \in 1..(e.rank - 1) /\ o \in events
    BY <2>1 DEF Ranked, Before
  <2>3. \A o \in rows : o.rank \in 1..e.rank
    BY <1>5, <2>2
  <2>4. \A i \in 1..e.rank : i \in 1..(e.rank - 1) \/ i = e.rank
    BY <1>5
  <2>5. \A i \in 1..e.rank : \E o \in rows : o.rank = i
    BY <2>1, <2>4 DEF Ranked
  <2>6. \A o, c \in rows : o.rank = c.rank => o = c
    BY <1>5, <2>2 DEF Ranked
  <2>. QED  BY <2>3, <2>5, <2>6 DEF Ranked
<1>7. rows \subseteq events
  BY <1>5 DEF Before
<1>8. /\ \A o \in rows : o.fingerprint = Document(o)
      /\ \A o, c \in rows : o.rank = c.rank + 1 => o.prev = c.fingerprint
  BY <1>4, <1>7 DEF Chain, WellBuilt
<1>9. e.rank \in Nat \ {0} /\ e \in rows
  BY <1>5
<1> HIDE DEF rows
<1>10. Linked(docs, Document(e))
  BY <1>6, <1>8, <1>9, LinkedDocuments
<1>11. docs \in sealed' /\ sealed \subseteq sealed'
  BY <1>1 DEF rows
<1> HIDE DEF docs
<1>12. \A p \in published' : \E d \in sealed' : Linked(d, p)
  BY <1>1, <1>3, <1>5, <1>10, <1>11
<1>13. batch' # NoPrint /\ published' # {}
  BY <1>1, <1>5, PrintNotEmpty
<1>14. IsFiniteSet(events')
  <2>1. IsFiniteSet(events \ {e})
    BY FS_RemoveElement DEF GenuineInv
  <2>. QED  BY <1>1, <2>1, FS_AddElement
<1>15. \A a \in Auditors : IsAuditor(auditor'[a]) /\ Genuine(auditor'[a], sealed')
  BY <1>2, <1>11 DEF GenuineInv, Genuine
<1>16. writer' = [w \in Writers |-> writer'[w]] /\ auditor' = [a \in Auditors |-> auditor'[a]]
       /\ \A w \in Writers : IsWriter(writer'[w])
  BY <1>2 DEF GenuineInv
<1>. QED  BY <1>12, <1>13, <1>14, <1>15, <1>16 DEF GenuineInv

(* Alterations change neither what was published nor what was verified.    *)
LEMMA GenuineAlter ==
  ASSUME GenuineInv, Alter
  PROVE  GenuineInv'
<1>1. published # {} /\ UNCHANGED <<published, writer, auditor, sealed>>
  BY DEF Alter, AlterFact, AlterAnchorColumns, AlterRest, Others
<1>2. batch' = batch \/ \E e \in events : batch' = Document(e)
  BY DEF Alter, AlterFact, AlterAnchorColumns, AlterRest, Top
<1>3. batch' # NoPrint
  BY <1>1, <1>2, PrintNotEmpty DEF GenuineInv
<1>4. \/ events' = events
      \/ events' = Rebuilt(events)
      \/ \E e \in events : events' = events \ {e}
      \/ \E e \in events : \E c : events' = (events \ {e}) \union {c}
  BY DEF Alter, AlterFact, AlterAnchorColumns, AlterRest
<1>5. IsFiniteSet(events)
  BY DEF GenuineInv
<1>6. IsFiniteSet(events')
  <2>1. CASE events' = events \/ events' = Rebuilt(events)
    BY <1>5, <2>1, RebuiltFinite
  <2>2. ASSUME NEW e \in events, events' = events \ {e}  PROVE IsFiniteSet(events')
    BY <1>5, <2>2, FS_RemoveElement
  <2>3. ASSUME NEW e \in events, NEW c, events' = (events \ {e}) \union {c}
        PROVE  IsFiniteSet(events')
    <3>1. IsFiniteSet(events \ {e})
      BY <1>5, FS_RemoveElement
    <3>. QED  BY <2>3, <3>1, FS_AddElement
  <2>. QED  BY <1>4, <2>1, <2>2, <2>3
<1>. QED  BY <1>1, <1>3, <1>6 DEF GenuineInv

(* No step of a verification disturbs what verify relies on.               *)
LEMMA GenuineAuditor ==
  ASSUME GenuineInv, NEW a \in Auditors, ReadChain(a) \/ Conclude(a)
  PROVE  GenuineInv'
<1> DEFINE old == auditor[a]
<1>0. /\ old \in [pc: {old.pc}, facts: {old.facts}, parties: {old.parties}, verdict: {old.verdict}]
      /\ IsFiniteSet(old.facts) /\ IsFiniteSet(events) /\ Genuine(old, sealed)
      /\ old.pc # "concluded" => old.verdict = "none"
  BY DEF GenuineInv, IsAuditor
<1>1. ASSUME NEW q, Concludes(a, q), IsAuditor(q), Genuine(q, sealed)
      PROVE  GenuineInv'
  <2>1. /\ UNCHANGED <<events, batch, published, writer, alterations, sealed>>
        /\ auditor' = [auditor EXCEPT ![a] = q]
    BY <1>1 DEF Concludes
  <2>2. /\ auditor' = [b \in Auditors |-> auditor'[b]] /\ auditor'[a] = q
        /\ \A b \in Auditors : b # a => auditor'[b] = auditor[b]
    BY <2>1 DEF GenuineInv
  <2>3. \A b \in Auditors : IsAuditor(auditor'[b]) /\ Genuine(auditor'[b], sealed')
    BY <1>1, <2>1, <2>2 DEF GenuineInv
  <2>. QED  BY <2>1, <2>2, <2>3 DEF GenuineInv
<1>2. CASE ReadChain(a)
  <2> DEFINE q == [old EXCEPT !.pc = "read", !.facts = events]
  <2>1. Concludes(a, q) /\ old.pc = "idle"
    BY <1>2 DEF ReadChain
  <2>2. /\ q.facts = events /\ q.verdict = old.verdict /\ q.parties = old.parties
        /\ q \in [pc: {q.pc}, facts: {q.facts}, parties: {q.parties}, verdict: {q.verdict}]
    BY <1>0
  <2> HIDE DEF q
  <2>3. q.verdict = "none"
    BY <1>0, <2>1, <2>2
  <2>. QED  BY <1>0, <1>1, <2>1, <2>2, <2>3 DEF IsAuditor, Genuine
<1>3. CASE Conclude(a)
  <2>1. PICK reachable \in BOOLEAN :
          Concludes(a, [old EXCEPT !.pc = "concluded", !.parties = line.parties,
                                   !.verdict = Verdict(old.facts, reachable)])
    BY <1>3 DEF Conclude
  <2> DEFINE v == Verdict(old.facts, reachable)
             q == [old EXCEPT !.pc = "concluded", !.parties = line.parties, !.verdict = v]
  <2>2. v = "VERIFIED" => /\ {Document(e) : e \in old.facts} \in sealed
                          /\ \A e \in old.facts : e.parties \in {"none", line.parties}
    BY <1>0, VerifiedRows
  <2> HIDE DEF v
  <2>3. /\ q.facts = old.facts /\ q.verdict = v /\ q.parties = line.parties /\ q.pc = "concluded"
        /\ q \in [pc: {q.pc}, facts: {q.facts}, parties: {q.parties}, verdict: {q.verdict}]
    BY <1>0
  <2>4. Concludes(a, q)
    BY <2>1 DEF v
  <2> HIDE DEF q
  <2>. QED  BY <1>0, <1>1, <2>2, <2>3, <2>4 DEF IsAuditor, Genuine
<1>. QED  BY <1>2, <1>3

(* Every step keeps what verify relies on.                                 *)
LEMMA GenuineStepKeeps ==
  ASSUME RegistryInv, GenuineInv, [RegistryNext]_registryVars
  PROVE  GenuineInv'
<1>1. CASE \E w \in Writers : WriterStep(w)
  BY <1>1, GenuineWriterStep
<1>2. CASE \E a \in Auditors : ReadChain(a) \/ Conclude(a)
  BY <1>2, GenuineAuditor
<1>3. CASE Publish
  BY <1>3, GenuinePublish
<1>4. CASE Alter
  BY <1>4, GenuineAlter
<1>5. CASE OnModuleInit \/ UNCHANGED registryVars
  <2>1. UNCHANGED <<events, batch, published, writer, auditor, alterations, sealed>>
    BY <1>5 DEF OnModuleInit, registryVars
  <2>. QED  BY <2>1 DEF GenuineInv
<1>. QED  BY <1>1, <1>2, <1>3, <1>4, <1>5 DEF RegistryNext

(***************************************************************************)
(* Whatever other hands delete, rewrite, reseal or rebuild once the        *)
(* closure is published, in any number, a case is declared VERIFIED only   *)
(* when the facts that verify read are those that the publication sealed,  *)
(* and the parties those of the line (EventChainVerificationService).      *)
(***************************************************************************)
THEOREM VerifiedIsGenuineHolds == RegistrySpec => []VerifiedIsGenuine
<1>1. RegistryInit => RegistryInv /\ GenuineInv
  BY RegistryStart, GenuineStart
<1>2. RegistryInv /\ GenuineInv /\ [RegistryNext]_registryVars => (RegistryInv /\ GenuineInv)'
  BY RegistryStep, GenuineStepKeeps
<1>3. GenuineInv => VerifiedIsGenuine
  BY DEF GenuineInv, Genuine, VerifiedIsGenuine
<1>. QED  BY <1>1, <1>2, <1>3, PTL DEF RegistrySpec
=============================================================================
