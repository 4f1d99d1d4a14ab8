--------------------------- MODULE ProfilesProofs ----------------------------
(* For any models, files, commands and terminals: what a fingerprint in the  *)
(* limits file vouches for; what a vLLM or llama.cpp profile takes from its  *)
(* table fits the memory, the attention backend and the runtime; the slots   *)
(* in a table are the most that fit; experts are offloaded only where the    *)
(* model does not fit.                                                       *)
EXTENDS Profiles, FiniteSetTheorems, WellFoundedInduction, TLAPS

\* The fingerprint of a model m, which names m's backend, scan and listed files.
KeyOf(m, i, f, u, v) ==
    [info |-> InfoOf(m, i), files |-> Attr[m][f].listed, util |-> u,
     version |-> IF Card[m].backend = "vllm" THEN v ELSE None]

LEMMA FingerprintIsKey ==
    ASSUME NEW i, NEW f, NEW u, NEW v
    PROVE  Fingerprint(i, f, u, v) = KeyOf(model, i, f, u, v)
  BY DEF Fingerprint, KeyOf, Backend

\* A command at work scanned a revision that was there; having missed the cache,
\* it holds the fingerprint of one no later than the last, now.
Stamped(m, now, r) ==
    /\ r.pc # "idle" => r.info \in DOMAIN Attr[m]
    /\ r.pc = "missed" =>
           \E v : \E f \in DOMAIN Attr[m] : f <= now /\ r.key = KeyOf(m, r.info, f, r.util, v)

\* What is in the limits file was made from files not older than those its
\* fingerprint lists, unless `add` left it there.
MadeAfterStamp(m, now, e) ==
    e # None /\ e.by # "add" =>
        \E i, u, v : \E f, g \in DOMAIN Attr[m] :
            /\ f <= g /\ g <= now
            /\ e.key = KeyOf(m, i, f, u, v)
            /\ e.made.files = g

\* The inductive invariant.
TablesInv ==
    /\ model \in Models /\ rev \in DOMAIN Attr[model]
    /\ proc = [p \in Procs |-> proc[p]]
    /\ \A p \in Procs : Stamped(model, rev, proc[p])
    /\ MadeAfterStamp(model, rev, entry)

\* Revisions are numbers, and ordered as such.
LEMMA RevisionsAreNumbers ==
    ASSUME NEW m \in Models
    PROVE  1 \in DOMAIN Attr[m] /\ DOMAIN Attr[m] \subseteq Nat
  BY AttrAssumption

\* A command that begins, ends or has its table only needs a scan.
LEMMA NotMissed ==
    ASSUME NEW m, NEW now, NEW r, r.pc # "missed", r.pc = "idle" \/ r.info \in DOMAIN Attr[m]
    PROVE  Stamped(m, now, r)
  BY DEF Stamped
LEMMA IdleIsStamped ==
    ASSUME NEW m, NEW now
    PROVE  Stamped(m, now, Idle)
  BY NotMissed DEF Idle

\* A step that keeps the command's scan and does not miss keeps it sound.
LEMMA WithIsStamped ==
    ASSUME NEW m, NEW now, NEW r, r.pc # "idle", Stamped(m, now, r),
           NEW pc, pc # "missed", NEW key, NEW made
    PROVE  Stamped(m, now, With(r, pc, key, made))
  <1>1. /\ With(r, pc, key, made).pc = pc
        /\ With(r, pc, key, made).info = r.info
    BY DEF With
  <1>2. r.info \in DOMAIN Attr[m]
    BY DEF Stamped
  <1> QED BY <1>1, <1>2, NotMissed

LEMMA TablesInit == Init => TablesInv
  <1> SUFFICES ASSUME Init PROVE TablesInv
    OBVIOUS
  <1>1. model \in Models
    BY FollowedAssumption DEF Init
  <1>2. rev \in DOMAIN Attr[model]
    BY <1>1, RevisionsAreNumbers DEF Init
  <1>3. proc = [p \in Procs |-> Idle]
    BY DEF Init
  <1>4. \A p \in Procs : Stamped(model, rev, proc[p])
    BY <1>3, IdleIsStamped
  <1>5. MadeAfterStamp(model, rev, entry)
    BY DEF Init, MadeAfterStamp
  <1> QED BY <1>1, <1>2, <1>3, <1>4, <1>5 DEF TablesInv

\* A step of one command that leaves the files as they are keeps the invariant
\* if its new state and the limits file are sound.
LEMMA OneSteps ==
    ASSUME TablesInv, NEW p \in Procs, NEW r, Become(p, r), UNCHANGED <<model, rev>>,
           Stamped(model, rev, r), MadeAfterStamp(model, rev, entry')
    PROVE  TablesInv'
  <1>1. proc' = [x \in Procs |-> IF x = p THEN r ELSE proc[x]]
    BY DEF TablesInv, Become
  <1>2. \A x \in Procs : Stamped(model, rev, proc'[x])
    BY <1>1 DEF TablesInv
  <1>3. proc' = [x \in Procs |-> proc'[x]]
    BY <1>1
  <1> QED BY <1>2, <1>3 DEF TablesInv

LEMMA BeginKeeps ==
    ASSUME TablesInv, NEW p \in Procs, Begin(p) PROVE TablesInv'
  <1>1. PICK cmd, u : Become(p, [pc |-> "begun", cmd |-> cmd, info |-> rev, read |-> version,
                                 util |-> u])
    BY DEF Begin
  <1>2. Stamped(model, rev, [pc |-> "begun", cmd |-> cmd, info |-> rev, read |-> version,
                             util |-> u])
    BY NotMissed DEF TablesInv
  <1>3. UNCHANGED <<model, rev, entry>>
    BY DEF Begin
  <1> QED BY <1>1, <1>2, <1>3, OneSteps DEF TablesInv

LEMMA StampKeeps ==
    ASSUME TablesInv, NEW p \in Procs, Stamp(p) PROVE TablesInv'
  <1> DEFINE r == proc[p]
             key == Fingerprint(r.info, rev, r.util, r.read)
  <1>1. UNCHANGED <<model, rev, entry>> /\ r.pc = "begun"
    BY DEF Stamp
  <1>2. \/ Become(p, Idle)
        \/ \E made : \E pc \in {"ready", "missed"} : Become(p, With(r, pc, key, made))
    BY DEF Stamp
  <1>3. CASE Become(p, Idle)
    BY <1>1, <1>3, IdleIsStamped, OneSteps DEF TablesInv
  <1>4. ASSUME NEW pc, NEW made, Become(p, With(r, pc, key, made)) PROVE TablesInv'
    <2> DEFINE w == With(r, pc, key, made)
    <2>1. w.key = key /\ w.info = r.info /\ w.util = r.util
      BY DEF With
    <2>2. r.info \in DOMAIN Attr[model]
      BY <1>1 DEF TablesInv, Stamped
    <2>3. key = KeyOf(model, r.info, rev, r.util, r.read)
      BY FingerprintIsKey
    <2>4. rev \in DOMAIN Attr[model] /\ rev <= rev
      BY RevisionsAreNumbers DEF TablesInv
    <2>5. w.key = KeyOf(model, w.info, rev, w.util, r.read)
      BY <2>1, <2>3
    <2>6. Stamped(model, rev, w)
      BY <2>1, <2>2, <2>4, <2>5 DEF Stamped
    <2> QED BY <1>1, <1>4, <2>6, OneSteps DEF TablesInv
  <1> QED BY <1>2, <1>3, <1>4

LEMMA TuneKeeps ==
    ASSUME TablesInv, NEW p \in Procs, Tune(p) PROVE TablesInv'
  <1> DEFINE r == proc[p]
             Now(seen) == MadeNow(r, seen)
             w(seen) == [With(r, "ready", r.key, Now(seen)) EXCEPT !.seen = {seen}]
  <1>1. UNCHANGED <<model, rev>> /\ r.pc = "missed"
    BY DEF Tune
  <1>2. Stamped(model, rev, r) /\ Stamped(model, rev, Idle)
    BY IdleIsStamped DEF TablesInv
  <1>3. PICK seen : /\ Become(p, Idle) \/ Become(p, w(seen))
                    /\ UNCHANGED entry \/ WriteLimits(r.key, Now(seen), r.cmd.kind)
    BY DEF Tune
  <1>4. Stamped(model, rev, w(seen))
    <2>1. w(seen).pc = "ready" /\ w(seen).info = r.info
      BY DEF With
    <2>2. r.info \in DOMAIN Attr[model]
      BY <1>1, <1>2 DEF Stamped
    <2> HIDE DEF w
    <2> QED BY <2>1, <2>2, NotMissed
  <1> HIDE DEF w
  <1>6. MadeAfterStamp(model, rev, entry')
    <2>1. CASE UNCHANGED entry
      BY <2>1 DEF TablesInv
    <2>2. CASE WriteLimits(r.key, Now(seen), r.cmd.kind)
      <3>1. PICK v : \E f \in DOMAIN Attr[model] :
                f <= rev /\ r.key = KeyOf(model, r.info, f, r.util, v)
        BY <1>1, <1>2 DEF Stamped
      <3>2. PICK f \in DOMAIN Attr[model] :
                f <= rev /\ r.key = KeyOf(model, r.info, f, r.util, v)
        BY <3>1
      <3>3. entry'.key = r.key /\ entry'.made.files = rev
        BY <2>2 DEF WriteLimits, MadeNow
      <3>4. rev \in DOMAIN Attr[model] /\ rev <= rev
        BY RevisionsAreNumbers DEF TablesInv
      <3>5. \E x, g \in DOMAIN Attr[model] :
                /\ x <= g /\ g <= rev
                /\ entry'.key = KeyOf(model, r.info, x, r.util, v)
                /\ entry'.made.files = g
        BY <3>2, <3>3, <3>4
      <3> QED BY <3>5 DEF MadeAfterStamp
    <2> QED BY <1>3, <2>1, <2>2
  <1>7. CASE Become(p, Idle)
    BY <1>1, <1>2, <1>6, <1>7, OneSteps
  <1>8. CASE Become(p, w(seen))
    BY <1>1, <1>4, <1>6, <1>8, OneSteps
  <1> QED BY <1>3, <1>7, <1>8

LEMMA AddTuneKeeps ==
    ASSUME TablesInv, NEW p \in Procs, AddTune(p) PROVE TablesInv'
  <1> DEFINE w(seen) == With(proc[p], "tuned", None, MadeNow(proc[p], seen))
  <1>1. UNCHANGED <<model, rev, entry>> /\ proc[p].pc = "begun"
    BY DEF AddTune
  <1>2. Stamped(model, rev, Idle) /\ \A seen : Stamped(model, rev, w(seen))
    <2>1. Stamped(model, rev, proc[p])
      BY DEF TablesInv
    <2> QED BY <1>1, <2>1, IdleIsStamped, WithIsStamped
  <1>3. PICK seen : Become(p, Idle) \/ Become(p, w(seen))
    BY DEF AddTune
  <1> HIDE DEF w
  <1>4. MadeAfterStamp(model, rev, entry')
    BY <1>1 DEF TablesInv
  <1>5. CASE Become(p, Idle)
    BY <1>1, <1>2, <1>4, <1>5, OneSteps
  <1>6. CASE Become(p, w(seen))
    BY <1>1, <1>2, <1>4, <1>6, OneSteps
  <1> QED BY <1>3, <1>5, <1>6

LEMMA AddStampKeeps ==
    ASSUME TablesInv, NEW p \in Procs, AddStamp(p) PROVE TablesInv'
  <1>1. UNCHANGED <<model, rev>> /\ Become(p, Idle) /\ entry'.by = "add"
    BY DEF AddStamp, WriteLimits
  <1>2. MadeAfterStamp(model, rev, entry')
    BY <1>1 DEF MadeAfterStamp
  <1> QED BY <1>1, <1>2, IdleIsStamped, OneSteps

LEMMA WriteProfileKeeps ==
    ASSUME TablesInv, NEW p \in Procs, WriteProfile(p) PROVE TablesInv'
  <1>1. UNCHANGED <<model, rev, entry>> /\ Become(p, Idle)
    BY DEF WriteProfile
  <1> QED BY <1>1, IdleIsStamped, OneSteps DEF TablesInv

\* New files leave what was stamped and made in the past.
LEMMA RefetchKeeps ==
    ASSUME TablesInv, Refetch PROVE TablesInv'
  <1>1. UNCHANGED <<model, entry, proc>> /\ rev' = rev + 1 /\ rev' \in DOMAIN Attr[model]
    BY DEF Refetch
  <1>2. rev \in Nat /\ DOMAIN Attr[model] \subseteq Nat
    BY RevisionsAreNumbers DEF TablesInv
  <1>3. \A f \in DOMAIN Attr[model] : f <= rev => f <= rev'
    BY <1>1, <1>2
  <1>4. ASSUME NEW x \in Procs PROVE Stamped(model, rev', proc[x])
    <2>1. Stamped(model, rev, proc[x])
      BY DEF TablesInv
    <2> QED BY <1>3, <2>1 DEF Stamped
  <1>5. MadeAfterStamp(model, rev', entry)
    <2>1. MadeAfterStamp(model, rev, entry)
      BY DEF TablesInv
    <2> QED BY <1>3, <2>1 DEF MadeAfterStamp
  <1> QED BY <1>1, <1>4, <1>5 DEF TablesInv

LEMMA ElseKeeps ==
    ASSUME TablesInv, UNCHANGED <<model, rev, entry, proc>> PROVE TablesInv'
  BY DEF TablesInv

LEMMA TablesStep == TablesInv /\ [Next]_vars => TablesInv'
  <1> SUFFICES ASSUME TablesInv, [Next]_vars PROVE TablesInv'
    OBVIOUS
  <1>1. CASE UNCHANGED vars
    BY <1>1, ElseKeeps DEF vars
  <1>2. CASE Upgrade \/ SaveConfig
    BY <1>2, ElseKeeps DEF Upgrade, SaveConfig
  <1>3. CASE Refetch
    BY <1>3, RefetchKeeps
  <1>4. CASE \E p \in Procs : \/ Begin(p) \/ Stamp(p) \/ Tune(p) \/ AddTune(p) \/ AddStamp(p)
                              \/ WriteProfile(p)
    BY <1>4, BeginKeeps, StampKeeps, TuneKeeps, AddTuneKeeps, AddStampKeeps, WriteProfileKeeps
  <1> QED BY <1>1, <1>2, <1>3, <1>4 DEF Next

-----------------------------------------------------------------------------
(* Arithmetic.                                                               *)

\* A nonempty set of numbers has a least one, and a greatest if it is bounded.
LEMMA Least ==
    ASSUME NEW T, T \subseteq Nat, T # {}
    PROVE  \E x \in T : \A y \in T : x <= y
  <1>1. PICK x \in T : \A y \in T : ~(<<y, x>> \in OpToRel(<, Nat))
    BY NatLessThanWellFounded, WFMin
  <1>2. \A y \in T : ~(y < x)
    BY <1>1 DEF OpToRel
  <1> QED BY <1>2
LEMMA MinIn ==
    ASSUME NEW T, T \subseteq Nat, T # {}
    PROVE  Min(T) \in T
  <1>1. \E x \in T : \A y \in T : x <= y
    BY Least
  <1> QED BY <1>1 DEF Min
LEMMA MaxIn ==
    ASSUME NEW T, T \subseteq Nat, T # {}, NEW bound \in Nat, \A x \in T : x <= bound
    PROVE  Max(T) \in T
  <1> DEFINE D == {bound - x : x \in T}
  <1>1. PICK d \in D : \A e \in D : d <= e
    <2>1. D \subseteq Nat
      OBVIOUS
    <2>2. PICK x \in T : TRUE
      OBVIOUS
    <2>3. bound - x \in D
      BY Zenon
    <2> HIDE DEF D
    <2> QED BY <2>1, <2>3, Least
  <1>2. PICK x \in T : d = bound - x
    OBVIOUS
  <1>3. \A y \in T : x >= y
    <2> TAKE y \in T
    <2>1. bound - y \in D
      BY Zenon
    <2>2. bound - x <= bound - y
      BY <1>1, <1>2, <2>1
    <2> QED BY <2>2
  <1> QED BY <1>3 DEF Max
LEMMA MaxWithZero ==
    ASSUME NEW x \in Int
    PROVE  Max({0, x}) \in Nat /\ x <= Max({0, x})
  <1>1. \E y \in {0, x} : \A z \in {0, x} : y >= z
    OBVIOUS
  <1>2. Max({0, x}) \in {0, x} /\ \A z \in {0, x} : Max({0, x}) >= z
    BY <1>1 DEF Max
  <1> QED BY <1>2

LEMMA Quotient ==
    ASSUME NEW a \in Nat, NEW b \in Nat \ {0}
    PROVE  a \div b \in Nat /\ (a \div b) * b <= a
  OBVIOUS
LEMMA ProductsGrow ==
    ASSUME NEW x \in Nat, NEW y \in Nat, x <= y, NEW z \in Nat
    PROVE  x * z \in Nat /\ x * z <= y * z
  OBVIOUS
LEMMA ProductsArePositive ==
    ASSUME NEW x \in Nat \ {0}, NEW y \in Nat \ {0}
    PROVE  x * y \in Nat \ {0}
  OBVIOUS

\* So many shares of c times b as fit an amount, and any smaller number, fit it.
LEMMA SharesFit ==
    ASSUME NEW a \in Nat, NEW b \in Nat \ {0}, NEW c \in Nat \ {0}, NEW n \in Nat,
           n <= (a \div b) \div c
    PROVE  n * c * b <= a
  <1> DEFINE q == a \div b
             top == q \div c
  <1>1. q \in Nat /\ q * b <= a
    BY Quotient
  <1>2. top \in Nat /\ top * c <= q
    BY <1>1, Quotient
  <1>3. n <= top
    OBVIOUS
  <1> HIDE DEF q, top
  <1>4. n * c \in Nat /\ n * c <= q
    <2>1. n * c \in Nat /\ n * c <= top * c
      BY <1>2, <1>3, ProductsGrow
    <2> QED BY <1>1, <1>2, <2>1
  <1>5. (n * c) * b \in Nat /\ (n * c) * b <= q * b
    BY <1>1, <1>4, ProductsGrow
  <1>6. q * b \in Nat
    BY <1>1
  <1> QED BY <1>1, <1>5, <1>6

\* Rounding up to whole blocks.
LEMMA RoundsUp ==
    ASSUME NEW a \in Nat, NEW b \in Nat \ {0}
    PROVE  CeilDiv(a, b) \in Nat /\ (a # 0 => CeilDiv(a, b) # 0)
  <1>1. a + b - 1 \in Nat /\ (a # 0 => a + b - 1 >= b)
    OBVIOUS
  <1>2. \A x \in Nat : x >= b => x \div b # 0
    OBVIOUS
  <1> QED BY <1>1, <1>2, Quotient DEF CeilDiv

-----------------------------------------------------------------------------
(* The capacity table of a vLLM model.                                       *)

\* What the table is computed from.
Numbers(info) ==
    /\ info.size \in Nat /\ info.maxPos \in Nat
    /\ info.kvHeads \in Nat \ {0} /\ info.headDim \in Nat \ {0} /\ info.layers \in Nat \ {0}

LEMMA DtypeSets ==
    /\ KvDtypeSet = {"auto", "fp8", "turboquant_k8v4", "turboquant_4bit_nc",
                     "turboquant_k3v4_nc", "turboquant_3bit_nc"}
    /\ Turboquant = {"turboquant_k8v4", "turboquant_4bit_nc",
                     "turboquant_k3v4_nc", "turboquant_3bit_nc"}
    /\ Range(AutomaticKvDtypes) = {"auto", "fp8"}
  BY DEF KvDtypeSet, KvDtypes, Turboquant, Range, AutomaticKvDtypes

LEMMA BytesPerHead ==
    ASSUME NEW h \in Nat \ {0}, NEW d \in Turboquant
    PROVE  TurboquantBytesPerHead(h, d) \in Nat \ {0}
  <1> DEFINE p == TurboquantProfile[d]
  <1>1. p.key \in Nat /\ p.value \in Nat /\ p.norm \in Nat
    BY DtypeSets DEF TurboquantProfile
  <1> HIDE DEF p
  <1>2. h * p.key \in Nat /\ h * p.value \in Nat
    BY <1>1
  <1>3. CeilDiv(h * p.key, 8) \in Nat /\ CeilDiv(h * p.value, 8) \in Nat
    BY <1>2, RoundsUp
  <1> DEFINE bytes == CeilDiv(h * p.key, 8) + p.norm
                      + CeilDiv(h * p.value, 8) + ValueScaleZeroBytes
  <1>4. bytes \in Nat \ {0}
    BY <1>1, <1>3 DEF ValueScaleZeroBytes
  <1>5. TurboquantBytesPerHead(h, d) = bytes + (bytes % 2)
    BY DEF TurboquantBytesPerHead, p
  <1> HIDE DEF bytes
  <1> QED BY <1>4, <1>5

LEMMA BytesPerToken ==
    ASSUME NEW info, Numbers(info), NEW d \in KvDtypeSet
    PROVE  /\ KvBytesPerToken(info, d) \in Nat \ {0}
           /\ KvBytesPerToken(info, "auto") = 2 * KvBytesPerToken(info, "fp8")
  <1> DEFINE x == info.kvHeads * info.headDim
             y == x * info.layers
             z == info.kvHeads * info.layers
  <1>1. x \in Nat \ {0} /\ z \in Nat \ {0}
    BY ProductsArePositive DEF Numbers
  <1>2. y \in Nat \ {0}
    <2> HIDE DEF x
    <2> QED BY <1>1, ProductsArePositive DEF Numbers
  <1>3. /\ KvBytesPerToken(info, "auto") = 2 * info.kvHeads * info.headDim * info.layers * 2
        /\ KvBytesPerToken(info, "fp8") = 2 * info.kvHeads * info.headDim * info.layers
    BY DEF KvBytesPerToken
  <1>4. /\ 2 * info.kvHeads * info.headDim * info.layers * 2 = 4 * y
        /\ 2 * info.kvHeads * info.headDim * info.layers = 2 * y
    BY DEF Numbers
  <1>5. CASE d \in Turboquant
    <2>1. KvBytesPerToken(info, d) = z * TurboquantBytesPerHead(info.headDim, d)
      BY <1>5, DtypeSets DEF KvBytesPerToken
    <2>2. TurboquantBytesPerHead(info.headDim, d) \in Nat \ {0}
      BY <1>5, BytesPerHead DEF Numbers
    <2> HIDE DEF y, z
    <2> QED BY <1>1, <1>2, <1>3, <1>4, <2>1, <2>2, ProductsArePositive
  <1>6. CASE d \in {"auto", "fp8"}
    <2> HIDE DEF y, z
    <2> QED BY <1>2, <1>3, <1>4, <1>6
  <1> QED BY <1>5, <1>6, DtypeSets

LEMMA ContextsArePositive ==
    ASSUME NEW max
    PROVE  /\ ContextSteps(max) \subseteq Nat \ {0}
           /\ \A c \in ContextSteps(max) : c <= 1048576
  BY DEF ContextSteps

\* The slots of a cell fit, and so does one.
LEMMA CellsFit ==
    ASSUME NEW info, Numbers(info), NEW u \in Nat, NEW c, NEW d,
           Cell(Limits(info, Vram, u), c, d) # None
    PROVE  /\ c \in ContextSteps(info.maxPos) /\ d \in KvDtypeSet
           /\ Cell(Limits(info, Vram, u), c, d) \in Nat
           /\ VllmFits(info, Vram, u, c, Cell(Limits(info, Vram, u), c, d), d)
           /\ VllmFits(info, Vram, u, c, 1, d)
  <1> DEFINE L == Limits(info, Vram, u)
             a == AvailableKv(info, Vram, u)
             b == KvBytesPerToken(info, d)
             n == (a \div b) \div Resident(c)
  <1>1. DOMAIN L = ContextSteps(info.maxPos)
    BY DEF Limits
  <1>2. c \in ContextSteps(info.maxPos)
    BY <1>1 DEF Cell
  <1>3. L[c] = [e \in KvDtypeSet |->
                   LET k == MaxConcurrentSequences(a, KvBytesPerToken(info, e), c)
                   IN  IF k >= 1 THEN k ELSE None]
    BY <1>2 DEF Limits
  <1>4. d \in KvDtypeSet /\ Cell(L, c, d) = IF n >= 1 THEN n ELSE None
    <2> HIDE DEF L, a
    <2>1. DOMAIN L[c] = KvDtypeSet
      BY <1>3
    <2>2. d \in KvDtypeSet
      BY <2>1 DEF Cell, L
    <2>3. L[c][d] = IF n >= 1 THEN n ELSE None
      BY <1>3, <2>2 DEF MaxConcurrentSequences
    <2> QED BY <1>1, <1>2, <2>1, <2>2, <2>3 DEF Cell
  <1>5. Cell(L, c, d) = n /\ n >= 1
    <2> HIDE DEF n
    <2> QED BY <1>4
  <1>6. a \in Nat
    <2>1. (Vram * u) \div 100 - info.size \in Int
      <3>1. Vram * u \in Nat
        BY VramAssumption
      <3> QED BY <3>1, Quotient DEF Numbers
    <2> QED BY <2>1, MaxWithZero DEF AvailableKv
  <1>7. b \in Nat \ {0}
    BY <1>4, BytesPerToken
  <1>8. Resident(c) \in Nat \ {0}
    <2>1. c \in Nat \ {0}
      BY <1>2, ContextsArePositive
    <2>2. CeilDiv(c, 16) \in Nat \ {0}
      BY <2>1, RoundsUp
    <2> QED BY <2>2 DEF Resident, BlockSize
  <1> HIDE DEF L, a, b
  <1>9. n \in Nat
    <2>1. a \div b \in Nat
      BY <1>6, <1>7, Quotient
    <2> QED BY <1>8, <2>1, Quotient
  <1>10. \A k \in Nat : k <= n => k * Resident(c) * b <= a
    BY <1>6, <1>7, <1>8, SharesFit
  <1>11. n * Resident(c) * b <= a /\ 1 * Resident(c) * b <= a
    <2>1. n <= n /\ 1 <= n /\ 1 \in Nat
      BY <1>5, <1>9
    <2> HIDE DEF n
    <2> QED BY <1>9, <1>10, <2>1
  <1> HIDE DEF n
  <1> QED BY <1>2, <1>4, <1>5, <1>9, <1>10, <1>11 DEF VllmFits, L, a, b

\* The columns that are left hold what they held; TRITON_ATTN's are not
\* TurboQuant's.
LEMMA FilterKeepsCells ==
    ASSUME NEW info, NEW at, NEW u, NEW c, NEW d,
           Cell(FilterIncompatible(at, Limits(info, Vram, u)), c, d) # None
    PROVE  /\ Cell(FilterIncompatible(at, Limits(info, Vram, u)), c, d)
                  = Cell(Limits(info, Vram, u), c, d)
           /\ FilterIncompatible(at, Limits(info, Vram, u))[c][d] = Limits(info, Vram, u)[c][d]
           /\ ForcesTriton(at) => d \notin Turboquant
           /\ c \in ContextSteps(info.maxPos)
  <1> DEFINE L == Limits(info, Vram, u)
             F == FilterIncompatible(at, L)
  <1>1. DOMAIN L = ContextSteps(info.maxPos)
    BY DEF Limits
  <1> HIDE DEF L
  <1>2. CASE ~ForcesTriton(at)
    <2>1. F = L
      BY <1>2 DEF FilterIncompatible
    <2> QED BY <1>1, <1>2, <2>1 DEF Cell, L
  <1>3. CASE ForcesTriton(at)
    <2>1. F = [e \in DOMAIN L |-> [f \in DOMAIN L[e] \ Turboquant |-> L[e][f]]]
      BY <1>3 DEF FilterIncompatible
    <2>2. Cell(F, c, d) # None
      BY DEF L
    <2> HIDE DEF F
    <2>3. c \in DOMAIN L
      BY <2>1, <2>2 DEF Cell
    <2>4. F[c] = [f \in DOMAIN L[c] \ Turboquant |-> L[c][f]]
      BY <2>1, <2>3
    <2>5. d \in DOMAIN L[c] \ Turboquant
      BY <2>2, <2>4 DEF Cell
    <2>6. Cell(F, c, d) = L[c][d] /\ Cell(L, c, d) = L[c][d] /\ F[c][d] = L[c][d]
      BY <2>1, <2>3, <2>4, <2>5 DEF Cell
    <2> QED BY <1>1, <2>3, <2>5, <2>6 DEF F, L
  <1> QED BY <1>2, <1>3

\* What was chosen from a table: a cell of it, and its slots or one.
FromCell(limits, context, slots, dtype) ==
    /\ Cell(limits, context, dtype) # None
    /\ slots \in {1, Cell(limits, context, dtype)}

\* What fits in the automatic dtype fits in FP8, which takes half as much.
LEMMA HalfFits ==
    ASSUME NEW info, Numbers(info), NEW u \in Nat, NEW c \in ContextSteps(info.maxPos),
           NEW n \in Nat, VllmFits(info, Vram, u, c, n, "auto")
    PROVE  VllmFits(info, Vram, u, c, n, "fp8")
  <1> DEFINE a == AvailableKv(info, Vram, u)
             b == KvBytesPerToken(info, "fp8")
             k == n * Resident(c)
  <1>1. a \in Nat
    <2>1. (Vram * u) \div 100 - info.size \in Int
      <3>1. Vram * u \in Nat
        BY VramAssumption
      <3> QED BY <3>1, Quotient DEF Numbers
    <2> QED BY <2>1, MaxWithZero DEF AvailableKv
  <1>2. b \in Nat /\ KvBytesPerToken(info, "auto") = 2 * b
    BY BytesPerToken, DtypeSets
  <1>3. k \in Nat
    <2>1. CeilDiv(c, 16) \in Nat
      BY ContextsArePositive, RoundsUp
    <2>2. Resident(c) \in Nat
      BY <2>1 DEF Resident, BlockSize
    <2> QED BY <2>2
  <1>4. k * (2 * b) <= a
    BY <1>2 DEF VllmFits
  <1> HIDE DEF a, b, k
  <1>5. k * b \in Nat /\ k * (2 * b) = 2 * (k * b)
    BY <1>2, <1>3
  <1>6. k * b <= a
    BY <1>1, <1>4, <1>5
  <1> QED BY <1>6 DEF VllmFits, a, b, k

LEMMA FirstFits ==
    ASSUME NEW limits, NEW c, \E d \in Range(AutomaticKvDtypes) : Cell(limits, c, d) # None
    PROVE  Cell(limits, c, FirstFitting(AutomaticKvDtypes, limits, c)) # None
  <1> DEFINE dtypes == AutomaticKvDtypes
             fitting == {i \in DOMAIN dtypes : Cell(limits, c, dtypes[i]) # None}
  <1>1. DOMAIN dtypes = 1 .. 2
    BY DEF AutomaticKvDtypes
  <1>2. fitting # {}
    BY DEF Range
  <1>3. fitting \subseteq Nat
    BY <1>1
  <1>4. FirstFitting(AutomaticKvDtypes, limits, c) = dtypes[Min(fitting)]
    BY <1>2 DEF FirstFitting
  <1>5. Min(fitting) \in fitting
    <2> HIDE DEF fitting
    <2> QED BY <1>2, <1>3, MinIn
  <1> QED BY <1>4, <1>5

\* What the scripted defaults take, and no flag gave, is a cell of the table.
LEMMA DefaultsAreCells ==
    ASSUME NEW info, NEW at, NEW u, NEW known, NEW context, NEW slots, NEW kv,
           VllmDefaults(VllmTable(info, at, Vram, u, known), context, slots, kv) # None
    PROVE  LET d == VllmDefaults(VllmTable(info, at, Vram, u, known), context, slots, kv)
               limits == FilterIncompatible(at, Limits(info, Vram, u))
           IN  /\ Cell(limits, d.context, d.dtype) # None
               /\ slots = None => d.slots = Cell(limits, d.context, d.dtype)
  <1> DEFINE table == VllmTable(info, at, Vram, u, known)
             L == Limits(info, Vram, u)
             limits == FilterIncompatible(at, L)
             d == VllmDefaults(table, context, slots, kv)
             b == Balanced(L)
             working == WorkingContexts(limits, kv)
             chosen == IF context # None THEN context ELSE Max(working)
             dtype == IF kv # None THEN kv ELSE FirstFitting(AutomaticKvDtypes, limits, chosen)
  <1>1. table.limits = limits /\ table.balanced = b
    BY DEF VllmTable
  <1> HIDE DEF table
  <1>2. CASE /\ context = None /\ slots = None /\ kv = None
             /\ b # None /\ Cell(limits, b.context, b.dtype) # None
    <2>1. d.context = b.context /\ d.dtype = b.dtype /\ d.slots = b.slots
      <3> HIDE DEF limits, b, working, chosen, dtype
      <3> QED BY <1>1, <1>2 DEF VllmDefaults
    <2>2. b.slots = L[b.context][b.dtype]
      BY <1>2 DEF Balanced
    <2>3. Cell(limits, b.context, b.dtype) = limits[b.context][b.dtype]
      <3> HIDE DEF limits, b
      <3> QED BY <1>2 DEF Cell
    <2>4. limits[b.context][b.dtype] = L[b.context][b.dtype]
      <3> HIDE DEF b
      <3> QED BY <1>2, FilterKeepsCells
    <2> HIDE DEF b, limits, L
    <2> QED BY <1>2, <2>1, <2>2, <2>3, <2>4 DEF limits, L, table
  <1>3. CASE ~(/\ context = None /\ slots = None /\ kv = None
               /\ b # None /\ Cell(limits, b.context, b.dtype) # None)
    <2>1. /\ working # {} /\ (context = None \/ context \in working)
          /\ d.context = chosen /\ d.dtype = dtype
          /\ slots = None => d.slots = Cell(limits, chosen, dtype)
      <3>1. d # None
        BY DEF table
      <3>2. d = IF working = {} \/ (context # None /\ context \notin working) THEN None
                ELSE [context |-> chosen, dtype |-> dtype,
                      slots |-> IF slots # None THEN slots ELSE Cell(limits, chosen, dtype),
                      tokens |-> None]
        <4> HIDE DEF limits, b
        <4> QED BY <1>1, <1>3, Zenon DEF VllmDefaults
      <3> HIDE DEF d, limits, working, chosen, dtype
      <3> QED BY <3>1, <3>2
    <2>2. \A c \in working : \E e \in (IF kv # None THEN {kv} ELSE Range(AutomaticKvDtypes)) :
              Cell(limits, c, e) # None
      <3> HIDE DEF limits
      <3> QED BY DEF WorkingContexts
    <2>3. chosen \in working
      <3>1. working \subseteq ContextSteps(info.maxPos)
        BY <2>2, FilterKeepsCells
      <3>2. working \subseteq Nat /\ \A c \in working : c <= 1048576
        BY <3>1, ContextsArePositive
      <3> HIDE DEF working
      <3>3. Max(working) \in working
        BY <2>1, <3>2, MaxIn
      <3> QED BY <2>1, <3>3
    <2>4. Cell(limits, chosen, dtype) # None
      <3> HIDE DEF limits, working, chosen
      <3>1. CASE kv = None
        BY <2>2, <2>3, <3>1, FirstFits
      <3>2. CASE kv # None
        BY <2>2, <2>3, <3>2
      <3> QED BY <3>1, <3>2
    <2> HIDE DEF d, limits, working, chosen, dtype
    <2> QED BY <2>1, <2>4 DEF d, limits, L, table
  <1> QED BY <1>2, <1>3

-----------------------------------------------------------------------------
(* The plan of a vLLM run.                                                   *)

\* MTP runs the checkpoint's draft layers in whole rounds; a draft is small and
\* shares the vocabulary.
Sane(m, plan) ==
    /\ (plan.method = "mtp" /\ Card[m].layers > 0) =>
           (plan.n <= Card[m].layers \/ plan.n % Card[m].layers = 0)
    /\ plan.method = "draft" =>
           (VocabCompatible(m, plan.draft) /\ Card[plan.draft].params <= MaxDraftParams)

LEMMA PlainPlansAreSane ==
    ASSUME NEW m
    PROVE  Sane(m, NoSpec) /\ Sane(m, Refused) /\ Sane(m, Ngram)
  BY DEF Sane, NoSpec, Refused, Ngram, Plan

LEMMA DraftPlansAreSane ==
    ASSUME NEW m, NEW plan \in DraftPlans(m) PROVE Sane(m, plan)
  <1>1. PICK d \in Drafts(m) : plan = Plan("draft", d, 3)
    BY DEF DraftPlans
  <1>2. VocabCompatible(m, d) /\ Card[d].params <= MaxDraftParams
    BY DEF Drafts
  <1> QED BY <1>1, <1>2 DEF Sane, Plan

LEMMA MtpRequestsAreSane ==
    ASSUME NEW m \in Models, NEW tokens \in Nat \union {None},
           NEW plan \in MtpRequest("vllm", m, tokens)
    PROVE  Sane(m, plan)
  <1> DEFINE layers == Card[m].layers
             n == IF tokens # None THEN tokens ELSE DefaultMtpTokens(layers)
  <1>1. layers \in Nat
    BY CardAssumption
  <1>2. n \in Nat
    BY <1>1 DEF DefaultMtpTokens, MtpTokens
  <1>3. CASE plan = Refused
    BY <1>3, PlainPlansAreSane
  <1>4. CASE plan # Refused /\ layers > 0
    <2>1. plan = Plan("mtp", None, n) /\ ~(n > layers /\ n % layers # 0)
      BY <1>4 DEF MtpRequest
    <2> HIDE DEF n
    <2>2. n <= layers \/ n % layers = 0
      BY <1>1, <1>2, <2>1
    <2> QED BY <2>1, <2>2 DEF Sane, Plan
  <1>5. CASE plan # Refused /\ ~(layers > 0)
    <2>1. plan.method = "mtp"
      BY <1>5 DEF MtpRequest, Plan
    <2> QED BY <1>5, <2>1 DEF Sane
  <1> QED BY <1>3, <1>4, <1>5

LEMMA AutoPlansAreSane ==
    ASSUME NEW m \in Models, NEW tools, NEW plan \in AutoPlan("vllm", m, tools)
    PROVE  Sane(m, plan) /\ (Card[m].arch \in SpecBlocklist => plan = NoSpec)
  <1> DEFINE layers == Card[m].layers
  <1>1. layers \in Nat
    BY CardAssumption
  <1>2. \/ plan \in {NoSpec, Ngram} \/ plan \in DraftPlans(m)
        \/ layers > 0 /\ plan = Plan("mtp", None, DefaultMtpTokens(layers))
        \/ ~(layers > 0) /\ plan.method = "mtp"
    BY DEF AutoPlan, Plan
  <1>3. Sane(m, plan)
    <2>1. CASE layers > 0 /\ plan = Plan("mtp", None, DefaultMtpTokens(layers))
      <3>1. plan.n = DefaultMtpTokens(layers) /\ plan.method = "mtp"
        BY <2>1 DEF Plan
      <3>2. CASE layers = 1
        BY <3>1, <3>2 DEF Sane, DefaultMtpTokens, MtpTokens
      <3>3. CASE layers > 1
        BY <1>1, <3>1, <3>3 DEF Sane, DefaultMtpTokens
      <3> QED BY <1>1, <2>1, <3>2, <3>3
    <2>2. CASE ~(layers > 0) /\ plan.method = "mtp"
      BY <2>2 DEF Sane
    <2> QED BY <1>2, <2>1, <2>2, PlainPlansAreSane, DraftPlansAreSane
  <1>4. Card[m].arch \in SpecBlocklist => plan = NoSpec
    BY DEF AutoPlan
  <1> QED BY <1>3, <1>4

LEMMA ResolvedAreSane ==
    ASSUME NEW m \in Models, NEW method \in {"off", "mtp", "ngram", "draft", "auto"},
           NEW tools, NEW tokens \in Nat \union {None},
           NEW plan \in Resolve(method, "vllm", m, tools, tokens)
    PROVE  /\ Sane(m, plan)
           /\ (method = "auto" /\ Card[m].arch \in SpecBlocklist) => plan = NoSpec
  <1>1. CASE method = "off"
    <2>1. plan = NoSpec
      BY <1>1 DEF Resolve
    <2> QED BY <1>1, <2>1, PlainPlansAreSane
  <1>2. CASE method = "mtp"
    <2>1. plan \in MtpRequest("vllm", m, tokens)
      BY <1>2 DEF Resolve
    <2> QED BY <1>2, <2>1, MtpRequestsAreSane
  <1>3. CASE method = "ngram"
    <2>1. plan = Ngram
      BY <1>3 DEF Resolve
    <2> QED BY <1>3, <2>1, PlainPlansAreSane
  <1>4. CASE method = "draft"
    <2>1. plan = Refused \/ plan \in DraftPlans(m)
      BY <1>4 DEF Resolve
    <2> QED BY <1>4, <2>1, PlainPlansAreSane, DraftPlansAreSane
  <1>5. CASE method = "auto"
    <2>1. plan \in AutoPlan("vllm", m, tools)
      BY <1>5 DEF Resolve
    <2> QED BY <2>1, AutoPlansAreSane
  <1> QED BY <1>1, <1>2, <1>3, <1>4, <1>5

\* What the gate lets through: MTP reached a runtime known to take it.
Opened(read, now, plan) == plan.method = "mtp" => MtpGateOpen(read, now)

LEMMA GateKeeps ==
    ASSUME NEW m, NEW plan, Sane(m, plan), NEW method, NEW read, NEW now
    PROVE  /\ Sane(m, Gated(plan, method, "vllm", read, now))
           /\ Opened(read, now, Gated(plan, method, "vllm", read, now))
           /\ plan = NoSpec => Gated(plan, method, "vllm", read, now) = NoSpec
  <1> DEFINE g == Gated(plan, method, "vllm", read, now)
  <1>1. CASE plan.method = "mtp" /\ ~MtpGateOpen(read, now)
    <2>1. g = Ngram \/ g = Refused
      BY <1>1 DEF Gated
    <2> QED BY <1>1, <2>1, PlainPlansAreSane DEF Opened, Ngram, Refused, NoSpec, Plan
  <1>2. CASE ~(plan.method = "mtp" /\ ~MtpGateOpen(read, now))
    <2>1. g = plan
      BY <1>2 DEF Gated
    <2> QED BY <1>2, <2>1 DEF Opened
  <1> QED BY <1>1, <1>2

LEMMA OpenGate ==
    ASSUME NEW read, NEW now, MtpGateOpen(read, now)
    PROVE  /\ \E v \in {read, now} \ {None} : v >= Unified
           /\ read = None \/ read >= Unified
  BY DEF MtpGateOpen

-----------------------------------------------------------------------------
(* The choices of a vLLM run.                                                *)

\* A choice keeps to what is known of its run, its plan and its table.
SoundChoice(r, limits, x) ==
    /\ x.util = r.util
    /\ FromTable(r) => Cell(limits, x.context, x.dtype) # None
    /\ SlotsFromTable(r) => x.slots \in {1, Cell(limits, x.context, x.dtype)}
    /\ Sane(model, x.spec) /\ Opened(r.read, version, x.spec)
    /\ (r.cmd.kind = "run" /\ r.cmd.o.spec = "auto" /\ Card[model].arch \in SpecBlocklist) =>
           x.spec = NoSpec

LEMMA ScriptedIsSound ==
    ASSUME NEW r, r.cmd.kind = "run", model \in Models,
           r.cmd.o.spec \in {"off", "mtp", "ngram", "draft", "auto"},
           r.cmd.o.n \in Nat \union {None},
           NEW table, NEW info, NEW at, NEW u, NEW known, NEW seen,
           Required(r.cmd) => table = VllmTable(info, at, Vram, u, known),
           NEW x \in ScriptedVllm(r, table, seen)
    PROVE  SoundChoice(r, FilterIncompatible(at, Limits(info, Vram, u)), x)
  <1> DEFINE o == r.cmd.o
             tools == o.tools \/ o.parser # None
             limits == FilterIncompatible(at, Limits(info, Vram, u))
             plans == {Gated(plan, o.spec, "vllm", r.read, version) :
                           plan \in Resolve(o.spec, "vllm", model, tools, o.n)}
             d == IF Required(r.cmd) THEN VllmDefaults(table, o.context, o.slots, o.kv)
                  ELSE [context |-> o.context, slots |-> o.slots, dtype |-> o.kv, tokens |-> None]
             parser == IF tools THEN ScriptedParser(o, table, seen) ELSE None
  <1>0. d # None /\ x \in {VllmChoices(d, o, r.util, parser, plan) : plan \in plans \ {Refused}}
    <2>1. ScriptedVllm(r, table, seen) =
              IF d = None \/ (tools /\ parser = None) THEN {}
              ELSE {VllmChoices(d, o, r.util, parser, plan) : plan \in plans \ {Refused}}
      BY Zenon DEF ScriptedVllm
    <2> HIDE DEF d, tools, parser, plans, o
    <2> QED BY <2>1, Zenon
  <1>1. PICK plan \in plans : x = VllmChoices(d, o, r.util, parser, plan)
    <2> HIDE DEF d, tools, parser, plans, o
    <2> QED BY <1>0
  <1>2. /\ x.context = d.context /\ x.slots = d.slots /\ x.dtype = d.dtype
        /\ x.util = r.util /\ x.spec = plan
    <2> HIDE DEF d, o
    <2> QED BY <1>1 DEF VllmChoices
  <1>3. /\ Sane(model, plan) /\ Opened(r.read, version, plan)
        /\ (o.spec = "auto" /\ Card[model].arch \in SpecBlocklist) => plan = NoSpec
    <2>1. PICK raw \in Resolve(o.spec, "vllm", model, tools, o.n) :
              plan = Gated(raw, o.spec, "vllm", r.read, version)
      BY <1>1
    <2> HIDE DEF tools
    <2>2. /\ Sane(model, raw)
          /\ (o.spec = "auto" /\ Card[model].arch \in SpecBlocklist) => raw = NoSpec
      BY <2>1, ResolvedAreSane
    <2> QED BY <2>1, <2>2, GateKeeps
  <1>4. /\ FromTable(r) => Cell(limits, d.context, d.dtype) # None
        /\ SlotsFromTable(r) => d.slots = Cell(limits, d.context, d.dtype)
    <2>1. CASE Required(r.cmd)
      <3>1. d = VllmDefaults(VllmTable(info, at, Vram, u, known), o.context, o.slots, o.kv)
        BY <2>1
      <3>2. d # None
        BY <1>0
      <3> HIDE DEF d, limits
      <3>3. /\ Cell(limits, d.context, d.dtype) # None
            /\ o.slots = None => d.slots = Cell(limits, d.context, d.dtype)
        BY <3>1, <3>2, DefaultsAreCells DEF limits
      <3> QED BY <3>3 DEF SlotsFromTable
    <2>2. CASE ~Required(r.cmd)
      BY <2>2 DEF FromTable, SlotsFromTable, Required
    <2> QED BY <2>1, <2>2
  <1> HIDE DEF d, limits
  <1>5. SoundChoice(r, limits, x)
    BY <1>2, <1>3, <1>4 DEF SoundChoice
  <1> QED BY <1>5 DEF limits

LEMMA WizardIsSound ==
    ASSUME NEW r, r.cmd.kind # "run", model \in Models, NEW table, NEW x \in WizardVllm(r, table)
    PROVE  SoundChoice(r, table.limits, x)
  <1> DEFINE limits == table.limits
             mtp == IF Card[model].layers > 0 /\ MtpGateOpen(r.read, version)
                    THEN MtpRequest("vllm", model, None) ELSE {}
             cells == {y \in (DOMAIN limits) \X KvDtypeSet : Cell(limits, y[1], y[2]) # None}
             parsers == {None, IF table.parser # None THEN table.parser ELSE At.parser}
             plans == mtp \union {NoSpec}
  <1>0. x \in UNION {CellChoices(limits, y[1], y[2], r.util, parsers, plans) : y \in cells}
    BY Zenon DEF WizardVllm
  <1>1. PICK c, d, n, plan :
            /\ Cell(limits, c, d) # None /\ n \in {1, Cell(limits, c, d)} /\ plan \in plans
            /\ x.context = c /\ x.slots = n /\ x.dtype = d /\ x.util = r.util /\ x.spec = plan
    <2> HIDE DEF plans, parsers
    <2>1. PICK y \in cells : x \in CellChoices(limits, y[1], y[2], r.util, parsers, plans)
      BY <1>0
    <2>2. PICK n \in {1, Cell(limits, y[1], y[2])}, plan \in plans :
              \E tokens, textOnly, parser :
                  x = WizardChoice(y[1], y[2], n, r.util, tokens, textOnly, parser, plan)
      <3> HIDE DEF limits
      <3> QED BY <2>1 DEF CellChoices
    <2>3. x.context = y[1] /\ x.slots = n /\ x.dtype = y[2] /\ x.util = r.util /\ x.spec = plan
      BY <2>2 DEF WizardChoice, VllmChoices
    <2>4. Cell(limits, y[1], y[2]) # None
      OBVIOUS
    <2> QED BY <2>3, <2>4
  <1>3. Sane(model, plan) /\ Opened(r.read, version, plan)
    <2>1. CASE plan = NoSpec
      BY <2>1, PlainPlansAreSane DEF Opened, NoSpec, Plan
    <2>2. CASE plan # NoSpec
      <3>1. plan \in MtpRequest("vllm", model, None) /\ MtpGateOpen(r.read, version)
        BY <1>1, <2>2
      <3> QED BY <3>1, MtpRequestsAreSane DEF Opened
    <2> QED BY <2>1, <2>2
  <1> QED BY <1>1, <1>3 DEF SoundChoice

-----------------------------------------------------------------------------
(* What a command knows when it writes a profile.                            *)

\* A table made from files that were there, with this scan and utilization, by a
\* runtime that could be installed.
TableFor(m, info, u, made) ==
    u \in Utils /\ \E i, g \in DOMAIN Attr[m], seen \in Registries(m) :
        /\ made = [info |-> i, files |-> g, util |-> u, runtime |-> seen]
        /\ InfoOf(m, i) = info
        /\ Tables[m][i][g][u][seen] # None

Begun(r) ==
    /\ r.cmd \in UNION {Commands[p][model] : p \in Procs}
    /\ r.info \in DOMAIN Attr[model] /\ r.util \in Utils
OwnTable(r) == TableFor(model, InfoOf(model, r.info), r.util, r.made)

\* A command about to write has the table of its scan if it needs one.
Ready(r) == Begun(r) /\ (r.made # None \/ Required(r.cmd) => r.made # None /\ OwnTable(r))

AtWork(r) ==
    /\ r.pc # "idle" => Begun(r)
    /\ r.pc = "missed" => r.key.info = InfoOf(model, r.info) /\ r.key.util = r.util
    /\ r.pc = "tuned" => OwnTable(r)
    /\ r.pc = "ready" => Ready(r)

KeptTable == entry # None => TableFor(model, entry.key.info, entry.key.util, entry.made)

\* The inductive invariant.
WorkInv ==
    /\ model \in Followed /\ config \in Configs
    /\ Backend = "vllm" => version \in Versions
    /\ \A p \in Procs : AtWork(proc[p])
    /\ KeptTable

\* A table was made from numbered revisions, and is not None.
LEMMA TablesAreNamed ==
    ASSUME NEW m \in Models, NEW info, NEW u, NEW made, TableFor(m, info, u, made)
    PROVE  made # None
  <1>1. PICK i \in DOMAIN Attr[m], g \in DOMAIN Attr[m], seen \in Registries(m) :
            made = [info |-> i, files |-> g, util |-> u, runtime |-> seen]
    BY DEF TableFor
  <1>2. i \in Nat /\ g \in Nat /\ u \in Nat /\ seen \in Versions \union {None}
    BY RevisionsAreNumbers, UtilsAssumption DEF TableFor, Registries
  <1> QED BY <1>1, <1>2, NoneAssumption

LEMMA NowTables ==
    ASSUME TablesInv, WorkInv, NEW r, Begun(r), NEW seen \in Answers,
           TableOf(MadeNow(r, seen)) # None
    PROVE  TableFor(model, InfoOf(model, r.info), r.util, MadeNow(r, seen))
  <1>1. TableOf(MadeNow(r, seen)) = Tables[model][r.info][rev][r.util][seen]
    BY DEF TableOf, MadeNow
  <1>2. seen \in Registries(model)
    BY DEF WorkInv, Answers, Registries, Backend
  <1> QED BY <1>1, <1>2 DEF TableFor, TablesInv, Begun, MadeNow

LEMMA IdleAtWork == AtWork(Idle)
  BY DEF AtWork, Idle

LEMMA WithIs ==
    ASSUME NEW r, NEW pc, NEW key, NEW made
    PROVE  LET w == With(r, pc, key, made)
           IN  /\ w.pc = pc /\ w.cmd = r.cmd /\ w.info = r.info /\ w.util = r.util
               /\ w.key = key /\ w.made = made
  BY DEF With

LEMMA WorkInit == Init => WorkInv
  <1> SUFFICES ASSUME Init PROVE WorkInv
    OBVIOUS
  <1>1. /\ model \in Followed /\ config \in Configs /\ KeptTable
        /\ Backend = "vllm" => version \in Versions
    BY ConfigsAssumption DEF Init, KeptTable
  <1>2. \A p \in Procs : proc[p] = Idle
    BY DEF Init
  <1> QED BY <1>1, <1>2, IdleAtWork DEF WorkInv

LEMMA OneWorks ==
    ASSUME TablesInv, WorkInv, NEW p \in Procs, NEW r, Become(p, r),
           UNCHANGED <<model, config, version>>, AtWork(r), KeptTable'
    PROVE  WorkInv'
  <1>1. proc' = [x \in Procs |-> IF x = p THEN r ELSE proc[x]]
    BY DEF TablesInv, Become
  <1>2. \A x \in Procs : AtWork(proc'[x])
    BY <1>1 DEF WorkInv
  <1>3. ASSUME NEW x \in Procs PROVE AtWork(proc[x])'
    <2>1. AtWork(proc'[x])
      BY <1>2
    <2> DEFINE q == proc'[x]
    <2> QED BY <2>1 DEF AtWork, Begun, OwnTable, Ready, Required, Backend
  <1> QED BY <1>3 DEF WorkInv, Backend

LEMMA KeptLasts ==
    ASSUME KeptTable, UNCHANGED <<model, entry>> PROVE KeptTable'
  BY DEF KeptTable

LEMMA BeginWorks ==
    ASSUME TablesInv, WorkInv, NEW p \in Procs, Begin(p) PROVE WorkInv'
  <1>1. PICK cmd \in Commands[p][model] :
            /\ ValidUtil(CommandUtil(config, cmd, At))
            /\ Become(p, [pc |-> "begun", cmd |-> cmd, info |-> rev, read |-> version,
                          util |-> CommandUtil(config, cmd, At)])
    BY DEF Begin
  <1> DEFINE u == CommandUtil(config, cmd, At)
             r == [pc |-> "begun", cmd |-> cmd, info |-> rev, read |-> version, util |-> u]
  <1>2. u \in Utils
    BY <1>1, OccurringUtils DEF WorkInv, TablesInv, At
  <1> HIDE DEF u
  <1>3. AtWork(r)
    BY <1>2 DEF AtWork, Begun, TablesInv
  <1>4. UNCHANGED <<model, config, version, entry>>
    BY DEF Begin
  <1>5. KeptTable'
    BY <1>4, KeptLasts DEF WorkInv
  <1> HIDE DEF r
  <1> QED BY <1>1, <1>3, <1>4, <1>5, OneWorks DEF r, u

LEMMA StampWorks ==
    ASSUME TablesInv, WorkInv, NEW p \in Procs, Stamp(p) PROVE WorkInv'
  <1> DEFINE r == proc[p]
             key == Fingerprint(r.info, rev, r.util, r.read)
             pc == IF Required(r.cmd) THEN "missed" ELSE "ready"
  <1>1. UNCHANGED <<model, config, version, entry>> /\ r.pc = "begun"
    BY DEF Stamp
  <1>2. \/ Become(p, Idle)
        \/ Matches(key) /\ Become(p, With(r, "ready", key, entry.made))
        \/ Become(p, With(r, pc, key, None))
    BY DEF Stamp
  <1>3. KeptTable'
    BY <1>1, KeptLasts DEF WorkInv
  <1>4. Begun(r)
    BY <1>1 DEF WorkInv, AtWork
  <1>5. key.info = InfoOf(model, r.info) /\ key.util = r.util
    BY DEF Fingerprint
  <1> HIDE DEF key
  <1>6. CASE Become(p, Idle)
    BY <1>1, <1>3, <1>6, IdleAtWork, OneWorks
  <1>7. CASE Matches(key) /\ Become(p, With(r, "ready", key, entry.made))
    <2> DEFINE w == With(r, "ready", key, entry.made)
    <2>1. TableFor(model, InfoOf(model, r.info), r.util, entry.made)
      BY <1>5, <1>7 DEF WorkInv, KeptTable, Matches
    <2>2. entry.made # None
      BY <1>4, <2>1, TablesAreNamed, FollowedAssumption DEF WorkInv, Begun
    <2>3. w.pc = "ready" /\ w.cmd = r.cmd /\ w.info = r.info /\ w.util = r.util /\ w.made = entry.made
      BY WithIs
    <2> HIDE DEF w
    <2>4. Begun(w) /\ OwnTable(w)
      BY <1>4, <2>1, <2>3 DEF Begun, OwnTable
    <2>5. AtWork(w)
      BY <2>2, <2>3, <2>4 DEF AtWork, Ready
    <2> QED BY <1>1, <1>3, <1>7, <2>5, OneWorks DEF w
  <1>8. CASE Become(p, With(r, pc, key, None))
    <2> DEFINE w == With(r, pc, key, None)
    <2>1. /\ w.pc = pc /\ w.cmd = r.cmd /\ w.info = r.info /\ w.util = r.util
          /\ w.key = key /\ w.made = None
      BY WithIs
    <2> HIDE DEF w
    <2>2. Begun(w)
      BY <1>4, <2>1 DEF Begun
    <2>3. AtWork(w)
      BY <1>5, <2>1, <2>2 DEF AtWork, Ready
    <2> QED BY <1>1, <1>3, <1>8, <2>3, OneWorks DEF w
  <1> QED BY <1>2, <1>6, <1>7, <1>8

LEMMA TuneWorks ==
    ASSUME TablesInv, WorkInv, NEW p \in Procs, Tune(p) PROVE WorkInv'
  <1> DEFINE r == proc[p]
             Now(seen) == MadeNow(r, seen)
             w(seen) == [With(r, "ready", r.key, Now(seen)) EXCEPT !.seen = {seen}]
  <1>1. UNCHANGED <<model, config, version>> /\ r.pc = "missed"
    BY DEF Tune
  <1>2. PICK seen \in Answers :
            \/ Become(p, Idle) /\ UNCHANGED entry
            \/ /\ TableOf(Now(seen)) # None /\ WriteLimits(r.key, Now(seen), r.cmd.kind)
               /\ (Become(p, Idle) \/ Become(p, w(seen)))
    BY DEF Tune
  <1>3. Begun(r) /\ r.key.info = InfoOf(model, r.info) /\ r.key.util = r.util
    BY <1>1 DEF WorkInv, AtWork
  <1>4. CASE Become(p, Idle) /\ UNCHANGED entry
    <2>1. KeptTable'
      BY <1>1, <1>4, KeptLasts DEF WorkInv
    <2> QED BY <1>1, <1>4, <2>1, IdleAtWork, OneWorks
  <1>5. CASE TableOf(Now(seen)) # None /\ WriteLimits(r.key, Now(seen), r.cmd.kind)
             /\ (Become(p, Idle) \/ Become(p, w(seen)))
    <2>1. TableFor(model, InfoOf(model, r.info), r.util, Now(seen))
      BY <1>3, <1>5, NowTables
    <2>2. Now(seen) # None
      BY <1>3, <2>1, TablesAreNamed, FollowedAssumption DEF WorkInv, Begun
    <2> HIDE DEF Now
    <2>3. KeptTable'
      BY <1>1, <1>3, <1>5, <2>1 DEF KeptTable, WriteLimits
    <2>4. /\ w(seen).pc = "ready" /\ w(seen).cmd = r.cmd /\ w(seen).info = r.info
          /\ w(seen).util = r.util /\ w(seen).made = Now(seen)
      BY DEF With
    <2> HIDE DEF w
    <2>5. Begun(w(seen)) /\ OwnTable(w(seen))
      BY <1>3, <2>1, <2>4 DEF Begun, OwnTable
    <2>6. AtWork(w(seen))
      BY <2>2, <2>4, <2>5 DEF AtWork, Ready
    <2>7. CASE Become(p, Idle)
      BY <1>1, <2>3, <2>7, IdleAtWork, OneWorks
    <2>8. CASE Become(p, w(seen))
      BY <1>1, <2>3, <2>6, <2>8, OneWorks
    <2> QED BY <1>5, <2>7, <2>8
  <1> QED BY <1>2, <1>4, <1>5

LEMMA AddTuneWorks ==
    ASSUME TablesInv, WorkInv, NEW p \in Procs, AddTune(p) PROVE WorkInv'
  <1> DEFINE r == proc[p]
             Now(seen) == MadeNow(r, seen)
             w(seen) == With(r, "tuned", None, Now(seen))
  <1>1. UNCHANGED <<model, config, version, entry>> /\ r.pc = "begun"
    BY DEF AddTune
  <1>2. PICK seen \in Answers :
            Become(p, Idle) \/ (TableOf(Now(seen)) # None /\ Become(p, w(seen)))
    BY DEF AddTune
  <1>3. KeptTable'
    BY <1>1, KeptLasts DEF WorkInv
  <1>4. Begun(r)
    BY <1>1 DEF WorkInv, AtWork
  <1>5. CASE Become(p, Idle)
    BY <1>1, <1>3, <1>5, IdleAtWork, OneWorks
  <1>6. CASE TableOf(Now(seen)) # None /\ Become(p, w(seen))
    <2>1. TableFor(model, InfoOf(model, r.info), r.util, Now(seen))
      BY <1>4, <1>6, NowTables
    <2>2. /\ w(seen).pc = "tuned" /\ w(seen).cmd = r.cmd /\ w(seen).info = r.info
          /\ w(seen).util = r.util /\ w(seen).made = Now(seen)
      BY WithIs
    <2> HIDE DEF w, Now
    <2>3. AtWork(w(seen))
      BY <1>4, <2>1, <2>2 DEF AtWork, Begun, OwnTable
    <2> QED BY <1>1, <1>3, <1>6, <2>3, OneWorks
  <1> QED BY <1>2, <1>5, <1>6

LEMMA AddStampWorks ==
    ASSUME TablesInv, WorkInv, NEW p \in Procs, AddStamp(p) PROVE WorkInv'
  <1> DEFINE r == proc[p]
  <1>1. UNCHANGED <<model, config, version>> /\ Become(p, Idle) /\ r.pc = "tuned"
    BY DEF AddStamp
  <1>2. KeptTable'
    <2>1. /\ entry'.made = r.made
          /\ entry'.key.info = InfoOf(model, r.info) /\ entry'.key.util = r.util
      BY DEF AddStamp, WriteLimits, Fingerprint
    <2>2. TableFor(model, InfoOf(model, r.info), r.util, r.made)
      BY <1>1 DEF WorkInv, AtWork, OwnTable
    <2> HIDE DEF r
    <2> QED BY <1>1, <2>1, <2>2 DEF KeptTable
  <1> QED BY <1>1, <1>2, IdleAtWork, OneWorks

LEMMA WriteProfileWorks ==
    ASSUME TablesInv, WorkInv, NEW p \in Procs, WriteProfile(p) PROVE WorkInv'
  <1>1. UNCHANGED <<model, config, version, entry>> /\ Become(p, Idle)
    BY DEF WriteProfile
  <1>2. KeptTable'
    BY <1>1, KeptLasts DEF WorkInv
  <1> QED BY <1>1, <1>2, IdleAtWork, OneWorks

LEMMA ElseWorks ==
    ASSUME WorkInv, UNCHANGED <<model, entry, proc>>, config' \in Configs,
           Backend = "vllm" => version' \in Versions
    PROVE  WorkInv'
  <1>1. KeptTable'
    BY KeptLasts DEF WorkInv
  <1>2. ASSUME NEW x \in Procs PROVE AtWork(proc[x])'
    BY DEF WorkInv, AtWork, Begun, OwnTable, Ready, Required, Backend
  <1> QED BY <1>1, <1>2 DEF WorkInv, Backend

LEMMA WorkStep == TablesInv /\ WorkInv /\ [Next]_vars => WorkInv'
  <1> SUFFICES ASSUME TablesInv, WorkInv, [Next]_vars PROVE WorkInv'
    OBVIOUS
  <1>1. CASE UNCHANGED vars
    BY <1>1, ElseWorks DEF vars, WorkInv
  <1>2. CASE Upgrade \/ SaveConfig \/ Refetch
    BY <1>2, ElseWorks DEF Upgrade, SaveConfig, Refetch, WorkInv
  <1>3. CASE \E p \in Procs : \/ Begin(p) \/ Stamp(p) \/ Tune(p) \/ AddTune(p) \/ AddStamp(p)
                              \/ WriteProfile(p)
    BY <1>3, BeginWorks, StampWorks, TuneWorks, AddTuneWorks, AddStampWorks, WriteProfileWorks
  <1> QED BY <1>1, <1>2, <1>3 DEF Next

-----------------------------------------------------------------------------
(* What a fingerprint vouches for.                                           *)

\* Of one scan and utilization there is one capacity, whatever columns are left
\* of it and whatever the runtime registers.
LEMMA SameScanSameSlots ==
    ASSUME NEW info, NEW a, NEW b, NEW u, NEW known
    PROVE  SameSlots(VllmTable(info, a, Vram, u, known), VllmTable(info, b, Vram, u, known))
  <1> DEFINE L == Limits(info, Vram, u)
             A == FilterIncompatible(a, L)
             B == FilterIncompatible(b, L)
  <1>1. /\ VllmTable(info, a, Vram, u, known).limits = A
        /\ VllmTable(info, b, Vram, u, known).limits = B
        /\ VllmTable(info, a, Vram, u, known).balanced = Balanced(L)
        /\ VllmTable(info, b, Vram, u, known).balanced = Balanced(L)
    BY DEF VllmTable
  <1>2. L = [c \in DOMAIN L |-> L[c]]
    BY DEF Limits
  <1> HIDE DEF L
  <1>3. ASSUME NEW at
        PROVE  LET F == FilterIncompatible(at, L)
               IN  /\ DOMAIN F = DOMAIN L
                   /\ \A c \in DOMAIN L : \A d \in DOMAIN F[c] : F[c][d] = L[c][d]
    BY DEF FilterIncompatible
  <1>4. DOMAIN A = DOMAIN L /\ \A c \in DOMAIN L : \A d \in DOMAIN A[c] : A[c][d] = L[c][d]
    BY <1>3
  <1>5. DOMAIN B = DOMAIN L /\ \A c \in DOMAIN L : \A d \in DOMAIN B[c] : B[c][d] = L[c][d]
    BY <1>3
  <1> HIDE DEF A, B
  <1> QED BY <1>1, <1>4, <1>5 DEF SameSlots

\* Files of a table whose fingerprint is that of now, and which was not made
\* before its fingerprint was taken, are listed as now.
LEMMA ListedAsNow ==
    ASSUME TablesInv, WorkInv, entry # None, entry.by # "add",
           entry.key = Fingerprint(rev, rev, entry.key.util, entry.key.version)
    PROVE  Attr[model][entry.made.files].listed = At.listed
  <1>1. PICK i, u, v : \E f, g \in DOMAIN Attr[model] :
            /\ f <= g /\ g <= rev
            /\ entry.key = KeyOf(model, i, f, u, v)
            /\ entry.made.files = g
    BY DEF TablesInv, MadeAfterStamp
  <1>2. PICK f \in DOMAIN Attr[model], g \in DOMAIN Attr[model] :
            /\ f <= g /\ g <= rev
            /\ entry.key = KeyOf(model, i, f, u, v)
            /\ entry.made.files = g
    BY <1>1
  <1>3. entry.key = KeyOf(model, rev, rev, entry.key.util, entry.key.version)
    BY FingerprintIsKey
  <1>4. Attr[model][f].listed = At.listed
    BY <1>2, <1>3 DEF KeyOf, At
  <1>5. model \in Models /\ rev \in DOMAIN Attr[model]
    BY DEF TablesInv
  <1>6. /\ Attr[model][f].listed <= Attr[model][g].listed
        /\ Attr[model][g].listed <= Attr[model][rev].listed
        /\ {Attr[model][f].listed, Attr[model][g].listed, Attr[model][rev].listed} \subseteq Nat
    BY <1>2, <1>5, ListedAssumption
  <1> QED BY <1>2, <1>4, <1>6 DEF At

\* Whoever wrote the limits file: with the fingerprint of now it has, for vLLM, the
\* recommendation and the slots that would be computed now, and for llama.cpp, unless
\* `add` wrote it, the whole table; and unless `add` wrote it, its files were listed as
\* they are now (build_tuning_fingerprint, limits_cache_matches).
THEOREM FreshLimitsHolds == Spec => []FreshLimits
  <1>1. TablesInv /\ WorkInv => FreshLimits
    <2> DEFINE made == entry.made
               u == entry.key.util
               table == Tables[model][rev][rev][u][made.runtime]
    <2> SUFFICES ASSUME TablesInv, WorkInv, entry # None,
                        entry.key = Fingerprint(rev, rev, entry.key.util, entry.key.version)
                 PROVE  /\ Backend = "vllm" => SameSlots(TableOf(made), table)
                        /\ entry.by # "add" =>
                               /\ Attr[model][made.files].listed = At.listed
                               /\ Backend = "llamacpp" => TableOf(made) = table
      BY DEF FreshLimits
    <2>1. PICK i \in DOMAIN Attr[model], g \in DOMAIN Attr[model], seen \in Registries(model) :
              /\ u \in Utils
              /\ made = [info |-> i, files |-> g, util |-> u, runtime |-> seen]
              /\ InfoOf(model, i) = entry.key.info
      BY DEF WorkInv, KeptTable, TableFor
    <2>2. model \in Models /\ rev \in DOMAIN Attr[model]
      BY DEF TablesInv
    <2>3. made.info = i /\ made.files = g /\ made.util = u /\ made.runtime = seen
      BY <2>1
    <2>4. InfoOf(model, i) = InfoOf(model, rev)
      BY <2>1 DEF Fingerprint
    <2> HIDE DEF made, u
    <2>5. TableOf(made) = Tuned(model, InfoOf(model, rev), g, u, seen)
      BY <2>1, <2>2, <2>3, <2>4 DEF TableOf, Tables
    <2>6. table = Tuned(model, InfoOf(model, rev), rev, u, seen)
      BY <2>1, <2>2, <2>3 DEF Tables
    <2> HIDE DEF table
    <2>7. Backend = "vllm" => SameSlots(TableOf(made), table)
      BY <2>5, <2>6, SameScanSameSlots DEF Tuned, Backend
    <2>8. entry.by # "add" => Attr[model][made.files].listed = At.listed
      BY ListedAsNow DEF made
    <2>9. ASSUME entry.by # "add", Backend = "llamacpp" PROVE TableOf(made) = table
      <3>1. Attr[model][g] = Attr[model][rev]
        BY <2>2, <2>3, <2>8, <2>9, ListedAssumption DEF Backend, At
      <3> QED BY <2>5, <2>6, <2>9, <3>1 DEF Tuned, Backend
    <2> QED BY <2>7, <2>8, <2>9
  <1> QED BY <1>1, TablesInit, TablesStep, WorkInit, WorkStep, PTL DEF Spec

-----------------------------------------------------------------------------
(* What is written.                                                          *)

Wrote(q, f) ==
    [cmd |-> q.cmd, info |-> q.info, read |-> q.read, util |-> q.util,
     key |-> q.key, made |-> q.made, profile |-> f]

\* Only a command that is ready leaves a profile behind.
LEMMA Writes ==
    ASSUME WorkInv, [Next]_vars, written' # None
    PROVE  \/ UNCHANGED vars
           \/ /\ UNCHANGED <<model, gpu, version, rev>>
              /\ \E q, f, seen : Ready(q) /\ f \in ProfilesOf(q, seen) /\ written' = Wrote(q, f)
  <1>1. ASSUME NEW p \in Procs, WriteProfile(p)
        PROVE  /\ UNCHANGED <<model, gpu, version, rev>>
               /\ \E q, f, seen : Ready(q) /\ f \in ProfilesOf(q, seen) /\ written' = Wrote(q, f)
    <2>1. PICK seen : \E f \in ProfilesOf(proc[p], seen) : written' = Wrote(proc[p], f)
      BY <1>1 DEF WriteProfile, Wrote
    <2>2. Ready(proc[p])
      BY <1>1 DEF WriteProfile, WorkInv, AtWork
    <2> QED BY <1>1, <2>1, <2>2 DEF WriteProfile
  <1>2. CASE \E p \in Procs : Begin(p) \/ Stamp(p) \/ Tune(p) \/ AddTune(p) \/ AddStamp(p)
    BY <1>2 DEF Begin, Stamp, Tune, AddTune, AddStamp
  <1>3. CASE Upgrade \/ Refetch \/ SaveConfig
    BY <1>3 DEF Upgrade, Refetch, SaveConfig
  <1> QED BY <1>1, <1>2, <1>3 DEF Next

\* The table of a command that has one.
LEMMA OwnTableIs ==
    ASSUME model \in Models, NEW q, Begun(q), OwnTable(q)
    PROVE  /\ q.made.files \in DOMAIN Attr[model]
           /\ TableOf(q.made) # None
           /\ TableOf(q.made)
                  = Tuned(model, InfoOf(model, q.info), q.made.files, q.util, q.made.runtime)
  <1>1. PICK i \in DOMAIN Attr[model], g \in DOMAIN Attr[model], seen \in Registries(model) :
            /\ q.made = [info |-> i, files |-> g, util |-> q.util, runtime |-> seen]
            /\ InfoOf(model, i) = InfoOf(model, q.info)
            /\ Tables[model][i][g][q.util][seen] # None
    BY DEF OwnTable, TableFor
  <1>2. TableOf(q.made) = Tables[model][i][g][q.util][seen]
    BY <1>1 DEF TableOf
  <1>3. Tables[model][i][g][q.util][seen] = Tuned(model, InfoOf(model, i), g, q.util, seen)
    BY DEF Tables, Begun
  <1> QED BY <1>1, <1>2, <1>3

\* The limits a vLLM command chooses from.
OwnLimits(q) ==
    FilterIncompatible(Attr[model][q.made.files], Limits(InfoOf(model, q.info), Vram, q.util))

LEMMA VllmWritten ==
    ASSUME WorkInv, Backend = "vllm", NEW q, Ready(q), NEW seen, NEW f \in ProfilesOf(q, seen)
    PROVE  \E x : /\ f = BuildVllm(model, At, x, gpu, version)
                  /\ ~Rejected(model, At, x, seen)
                  /\ SoundChoice(q, OwnLimits(q), x)
  <1> DEFINE table == IF q.made = None THEN None ELSE TableOf(q.made)
             info == InfoOf(model, q.info)
             at == Attr[model][q.made.files]
             known == AvailableParsers(q.made.runtime)
             chosen == IF q.cmd.kind = "run" THEN ScriptedVllm(q, table, seen)
                       ELSE WizardVllm(q, table)
  <1>1. PICK x \in chosen : /\ f = BuildVllm(model, At, x, gpu, version)
                         /\ ~Rejected(model, At, x, seen)
    <2>1. f \in VllmProfiles(q, table, seen)
      BY DEF ProfilesOf
    <2> HIDE DEF table
    <2>2. f \in {BuildVllm(model, At, choices, gpu, version) :
                     choices \in {y \in chosen : ~Rejected(model, At, y, seen)}}
      BY <2>1, Zenon DEF VllmProfiles
    <2> HIDE DEF chosen
    <2> QED BY <2>2
  <1>2. model \in Models /\ Begun(q)
    BY FollowedAssumption DEF WorkInv, Ready
  <1>3. Required(q.cmd) => table = VllmTable(info, at, Vram, q.util, known)
    <2> SUFFICES ASSUME Required(q.cmd) PROVE table = VllmTable(info, at, Vram, q.util, known)
      OBVIOUS
    <2>1. q.made # None /\ OwnTable(q)
      BY DEF Ready
    <2>2. TableOf(q.made) = Tuned(model, info, q.made.files, q.util, q.made.runtime)
      BY <1>2, <2>1, OwnTableIs
    <2> QED BY <2>1, <2>2 DEF Tuned, Backend
  <1> HIDE DEF table, info, at, known
  <1>4. CASE q.cmd.kind = "run"
    <2>1. PICK p \in Procs : q.cmd \in Commands[p][model]
      BY <1>2 DEF Begun
    <2>2. q.cmd.o.spec \in {"off", "mtp", "ngram", "draft", "auto"} /\ q.cmd.o.n \in Nat \union {None}
      BY <1>4, <2>1, CommandsAssumption DEF WorkInv, Backend
    <2>3. SoundChoice(q, FilterIncompatible(at, Limits(info, Vram, q.util)), x)
      BY <1>1, <1>2, <1>3, <1>4, <2>2, ScriptedIsSound
    <2> QED BY <1>1, <2>3 DEF OwnLimits, at, info
  <1>5. CASE q.cmd.kind # "run"
    <2>1. table.limits = FilterIncompatible(at, Limits(info, Vram, q.util))
      BY <1>3, <1>5 DEF Required, VllmTable
    <2>2. SoundChoice(q, table.limits, x)
      BY <1>1, <1>2, <1>5, WizardIsSound
    <2> QED BY <1>1, <2>1, <2>2 DEF OwnLimits, at, info
  <1> QED BY <1>4, <1>5

LEMMA NumbersOf ==
    ASSUME NEW m \in Models, NEW r \in DOMAIN Attr[m], Card[m].backend = "vllm"
    PROVE  Numbers(InfoOf(m, r))
  <1>1. LET at == Attr[m][r]
        IN  /\ {at.size, at.maxPos} \subseteq Nat
            /\ {at.kvHeads, at.headDim, at.layers} \subseteq Nat \ {0}
    BY NumbersAssumption
  <1> QED BY <1>1 DEF Numbers, InfoOf

\* The slots of the profile that is written fit its memory.
LEMMA SlotsFitNow ==
    ASSUME TablesInv, WorkInv, Backend = "vllm", NEW q, Ready(q), NEW seen, NEW f \in ProfilesOf(q, seen),
           SlotsFromTable(q), ~At.dllm, InfoOf(model, q.info) = InfoOf(model, rev)
    PROVE  VllmFits(InfoOf(model, rev), Vram, f.util, f.context, f.slots, f.dtype)
  <1> DEFINE info == InfoOf(model, q.info)
             at == Attr[model][q.made.files]
             L == Limits(info, Vram, q.util)
             F == FilterIncompatible(at, L)
  <1>1. PICK x : f = BuildVllm(model, At, x, gpu, version) /\ SoundChoice(q, F, x)
    BY VllmWritten DEF OwnLimits
  <1>2. f.util = x.util /\ f.context = x.context /\ f.slots = x.slots
    BY <1>1 DEF BuildVllm, Util, Slots
  <1>3. f.dtype = x.dtype \/ (x.dtype = "auto" /\ f.dtype = "fp8")
    BY <1>1 DEF BuildVllm, KvDtype
  <1>4. Cell(F, x.context, x.dtype) # None /\ x.slots \in {1, Cell(F, x.context, x.dtype)}
        /\ x.util = q.util
    <2> HIDE DEF F
    <2> QED BY <1>1 DEF SoundChoice, FromTable, SlotsFromTable, Required
  <1>5. Numbers(info) /\ q.util \in Nat
    BY NumbersOf, UtilsAssumption DEF TablesInv, Backend, Ready, Begun
  <1>6. Cell(F, x.context, x.dtype) = Cell(L, x.context, x.dtype) /\ Cell(L, x.context, x.dtype) # None
    <2> HIDE DEF info, at
    <2> QED BY <1>4, FilterKeepsCells
  <1> HIDE DEF F, info
  <1>7. /\ x.context \in ContextSteps(info.maxPos) /\ x.slots \in Nat
        /\ VllmFits(info, Vram, q.util, x.context, x.slots, x.dtype)
    BY <1>4, <1>5, <1>6, CellsFit
  <1>8. VllmFits(info, Vram, q.util, x.context, x.slots, f.dtype)
    BY <1>3, <1>5, <1>7, HalfFits
  <1> QED BY <1>2, <1>4, <1>8 DEF info

\* The slots a vLLM profile takes from a table fit the memory its utilization
\* leaves beside the weights, in the dtype it ends up with.
THEOREM VllmSlotsHold == Spec => []VllmSlotsFit
  <1>1. Init => VllmSlotsFit
    BY DEF Init, VllmSlotsFit, Written
  <1>2. TablesInv /\ WorkInv /\ VllmSlotsFit /\ [Next]_vars => VllmSlotsFit'
    <2> SUFFICES ASSUME TablesInv, WorkInv, VllmSlotsFit, [Next]_vars PROVE VllmSlotsFit'
      OBVIOUS
    <2>1. CASE written' = None
      BY <2>1 DEF VllmSlotsFit, Written
    <2>2. CASE UNCHANGED vars
      BY <2>2 DEF VllmSlotsFit, Written, vars, SlotsFromTable, At, Backend
    <2>3. ASSUME UNCHANGED <<model, gpu, version, rev>>, NEW q, NEW seen, NEW f \in ProfilesOf(q, seen),
                 Ready(q), written' = Wrote(q, f)
          PROVE  VllmSlotsFit'
      <3> SUFFICES ASSUME Backend = "vllm", SlotsFromTable(q), ~At.dllm,
                          InfoOf(model, q.info) = InfoOf(model, rev)
                   PROVE  VllmFits(InfoOf(model, rev), Vram, f.util, f.context, f.slots, f.dtype)
        BY <2>3 DEF VllmSlotsFit, Written, SlotsFromTable, At, Backend, Wrote
      <3> QED BY <2>3, SlotsFitNow
    <2> QED BY <2>1, <2>2, <2>3, Writes
  <1> QED BY <1>1, <1>2, TablesInit, TablesStep, WorkInit, WorkStep, PTL DEF Spec

\* A model whose heads differ in size runs on TRITON_ATTN: no dtype taken from a
\* table of its files is one it cannot run.
THEOREM BackendHolds == Spec => []RunsOnItsBackend
  <1>1. Init => RunsOnItsBackend
    BY DEF Init, RunsOnItsBackend, Written
  <1>2. TablesInv /\ WorkInv /\ RunsOnItsBackend /\ [Next]_vars => RunsOnItsBackend'
    <2> SUFFICES ASSUME TablesInv, WorkInv, RunsOnItsBackend, [Next]_vars PROVE RunsOnItsBackend'
      OBVIOUS
    <2>1. CASE written' = None
      BY <2>1 DEF RunsOnItsBackend, Written
    <2>2. CASE UNCHANGED vars
      BY <2>2 DEF RunsOnItsBackend, Written, vars, FromTable, At, Backend, Required
    <2>3. ASSUME UNCHANGED <<model, gpu, version, rev>>, NEW q, NEW seen, NEW f \in ProfilesOf(q, seen),
                 Ready(q), written' = Wrote(q, f)
          PROVE  RunsOnItsBackend'
      <3> SUFFICES ASSUME Backend = "vllm", ForcesTriton(At), FromTable(q), q.made.files = rev
                   PROVE  f.dtype \notin IncompatibleKv("TRITON_ATTN")
        BY <2>3 DEF RunsOnItsBackend, Written, FromTable, At, Backend, Required, Wrote
      <3>1. PICK x : f = BuildVllm(model, At, x, gpu, version) /\ SoundChoice(q, OwnLimits(q), x)
        BY <2>3, VllmWritten
      <3>2. Cell(OwnLimits(q), x.context, x.dtype) # None
        BY <3>1 DEF SoundChoice
      <3>3. x.dtype \notin Turboquant
        BY <3>2, FilterKeepsCells DEF OwnLimits, At
      <3>4. f.dtype \in {x.dtype, "auto", "fp8"}
        BY <3>1 DEF BuildVllm, KvDtype
      <3>5. IncompatibleKv("TRITON_ATTN") = Turboquant
        BY DEF IncompatibleKv
      <3> QED BY <3>3, <3>4, <3>5, DtypeSets
    <2> QED BY <2>1, <2>2, <2>3, Writes
  <1> QED BY <1>1, <1>2, TablesInit, TablesStep, WorkInit, WorkStep, PTL DEF Spec

\* A run speculates only as the architecture, the version that was read and the
\* vocabulary allow.
THEOREM SpecIsAllowed == Spec => []SpecAllowed
  <1>1. Init => SpecAllowed
    BY DEF Init, SpecAllowed, Written
  <1>2. TablesInv /\ WorkInv /\ SpecAllowed /\ [Next]_vars => SpecAllowed'
    <2> SUFFICES ASSUME TablesInv, WorkInv, SpecAllowed, [Next]_vars PROVE SpecAllowed'
      OBVIOUS
    <2>1. CASE written' = None
      BY <2>1 DEF SpecAllowed, Written
    <2>2. CASE UNCHANGED vars
      BY <2>2 DEF SpecAllowed, Written, vars, Backend
    <2>3. ASSUME UNCHANGED <<model, gpu, version, rev>>, NEW q, NEW seen, NEW f \in ProfilesOf(q, seen),
                 Ready(q), written' = Wrote(q, f)
          PROVE  SpecAllowed'
      <3> DEFINE spec == f.spec
                 card == Card[model]
      <3> SUFFICES ASSUME Backend = "vllm"
                   PROVE  /\ (q.cmd.kind = "run" /\ q.cmd.o.spec = "auto"
                              /\ card.arch \in SpecBlocklist) => spec = NoSpec
                          /\ spec.method = "mtp" =>
                                 /\ \E v \in {q.read, version} \ {None} : v >= Unified
                                 /\ q.read = None \/ q.read >= Unified
                                 /\ card.layers > 0 =>
                                        (spec.n <= card.layers \/ spec.n % card.layers = 0)
                                 /\ f.parser # "gemma4"
                          /\ spec.method = "draft" =>
                                 /\ VocabCompatible(model, spec.draft)
                                 /\ Card[spec.draft].params <= MaxDraftParams
        BY <2>3 DEF SpecAllowed, Written, Backend, Wrote
      <3>1. PICK x : /\ f = BuildVllm(model, At, x, gpu, version)
                     /\ ~Rejected(model, At, x, seen)
                     /\ SoundChoice(q, OwnLimits(q), x)
        BY <2>3, VllmWritten
      <3>2. spec = SpecOf(At, x) /\ f.parser = ParserOf(x)
        BY <3>1 DEF BuildVllm
      <3>3. spec = NoSpec \/ spec = x.spec
        BY <3>2 DEF SpecOf
      <3>4. spec.method = "mtp" => f.parser # "gemma4"
        BY <3>1, <3>2 DEF Rejected
      <3> HIDE DEF spec
      <3>5. Sane(model, spec) /\ Opened(q.read, version, spec)
        <4>1. Sane(model, x.spec) /\ Opened(q.read, version, x.spec)
          BY <3>1 DEF SoundChoice
        <4>2. Sane(model, NoSpec) /\ Opened(q.read, version, NoSpec)
          BY PlainPlansAreSane DEF Opened, NoSpec, Plan
        <4> QED BY <3>3, <4>1, <4>2
      <3>6. (q.cmd.kind = "run" /\ q.cmd.o.spec = "auto" /\ card.arch \in SpecBlocklist)
                => spec = NoSpec
        BY <3>1, <3>3 DEF SoundChoice
      <3>7. spec.method = "mtp" =>
                /\ \E v \in {q.read, version} \ {None} : v >= Unified
                /\ q.read = None \/ q.read >= Unified
        BY <3>5, OpenGate DEF Opened
      <3> QED BY <3>4, <3>5, <3>6, <3>7 DEF Sane
    <2> QED BY <2>1, <2>2, <2>3, Writes
  <1> QED BY <1>1, <1>2, TablesInit, TablesStep, WorkInit, WorkStep, PTL DEF Spec

-----------------------------------------------------------------------------
(* The doubling and the bisection.                                           *)

\* A value depends on those of smaller arguments only.
LooksDown(D, S, m, step) ==
    \A r \in D : \A f, g \in [D -> S] :
        (\A q \in D : m[q] < m[r] => f[q] = g[q]) => step[r][f] = step[r][g]

Measures(D, m) == m \in [D -> Nat]
Recurs(D, S, step) == S # {} /\ step \in [D -> [[D -> S] -> S]]
HasSolution(D, S, step) == \E f \in [D -> S] : \A r \in D : f[r] = step[r][f]

\* A function is defined by what its values are made of, if that is smaller.
LEMMA MeasureDefines ==
    ASSUME NEW D, NEW S, NEW m, Measures(D, m),
           NEW step, Recurs(D, S, step), LooksDown(D, S, m, step)
    PROVE  HasSolution(D, S, step)
  <1> USE DEF Measures, Recurs, HasSolution
  <1> DEFINE UpTo(k, f) == \A r \in D : m[r] < k => f[r] = step[r][f]
  <1>0. \A r \in D : \A f, g \in [D -> S] :
            (\A q \in D : m[q] < m[r] => f[q] = g[q]) => step[r][f] = step[r][g]
    BY DEF LooksDown
  <1>1. \A k \in Nat : \E f \in [D -> S] : UpTo(k, f)
    <2> DEFINE Bad == {k \in Nat : ~\E f \in [D -> S] : UpTo(k, f)}
    <2> SUFFICES ASSUME Bad # {} PROVE FALSE
      OBVIOUS
    <2>1. PICK k \in Bad : \A j \in Bad : k <= j
      <3>1. Bad \subseteq Nat
        OBVIOUS
      <3> HIDE DEF Bad
      <3> QED BY <3>1, Least
    <2>2. k \in Nat /\ ~\E f \in [D -> S] : UpTo(k, f)
      OBVIOUS
    <2>3. CASE k = 0
      <3> PICK base \in S : TRUE
        OBVIOUS
      <3> DEFINE f == [r \in D |-> base]
      <3>1. f \in [D -> S] /\ UpTo(0, f)
        OBVIOUS
      <3> HIDE DEF f, UpTo
      <3> QED BY <2>2, <2>3, <3>1
    <2>4. CASE k # 0
      <3>1. k - 1 \in Nat /\ ~(k <= k - 1)
        BY <2>2, <2>4
      <3>2. PICK f \in [D -> S] : UpTo(k - 1, f)
        <4>1. k - 1 \notin Bad
          <5> HIDE DEF Bad
          <5> QED BY <2>1, <3>1
        <4> QED BY <3>1, <4>1
      <3> DEFINE g == [r \in D |-> step[r][f]]
      <3>3. g \in [D -> S]
        OBVIOUS
      <3>4. \A r \in D : m[r] < k - 1 => f[r] = g[r]
        BY <3>2
      <3>5. \A r \in D : g[r] = step[r][f]
        OBVIOUS
      <3> HIDE DEF g
      <3>6. ASSUME NEW r \in D, m[r] < k PROVE g[r] = step[r][g]
        <4>1. \A q \in D : m[q] < m[r] => m[q] < k - 1
          BY <2>2, <3>6
        <4>2. step[r][f] = step[r][g]
          BY <1>0, <3>3, <3>4, <4>1
        <4> QED BY <3>5, <4>2
      <3>7. UpTo(k, g)
        BY <3>6
      <3> HIDE DEF UpTo
      <3> QED BY <2>2, <3>3, <3>7
    <2> QED BY <2>3, <2>4
  <1>2. ASSUME NEW k \in Nat, NEW f \in [D -> S], NEW g \in [D -> S], UpTo(k, f), UpTo(k, g),
               NEW r \in D, m[r] < k
        PROVE  f[r] = g[r]
    <2> DEFINE Bad == {j \in Nat : \E q \in D : m[q] = j /\ j < k /\ f[q] # g[q]}
    <2> SUFFICES ASSUME Bad # {} PROVE FALSE
      <3>1. m[r] \in Bad \/ f[r] = g[r]
        BY <1>2
      <3> QED BY <3>1
    <2>1. PICK j \in Bad : \A i \in Bad : j <= i
      <3>1. Bad \subseteq Nat
        OBVIOUS
      <3> HIDE DEF Bad
      <3> QED BY <3>1, Least
    <2>2. PICK q \in D : m[q] = j /\ j < k /\ f[q] # g[q]
      OBVIOUS
    <2>3. ASSUME NEW p \in D, m[p] < j PROVE f[p] = g[p]
      <3>1. m[p] \notin Bad
        <4> HIDE DEF Bad
        <4>1. m[p] \in Nat /\ j \in Nat
          BY <2>2
        <4> QED BY <2>1, <2>3, <4>1
      <3>2. m[p] < k
        BY <2>2, <2>3
      <3> QED BY <3>1, <3>2
    <2>4. step[q][f] = step[q][g]
      BY <1>0, <2>2, <2>3
    <2> QED BY <1>2, <2>2, <2>4
  <1> DEFINE F == [r \in D |-> CHOOSE v : \E f \in [D -> S] : UpTo(m[r] + 1, f) /\ v = f[r]]
  <1>3. ASSUME NEW r \in D, NEW f \in [D -> S], UpTo(m[r] + 1, f) PROVE F[r] = f[r]
    <2>1. m[r] + 1 \in Nat /\ m[r] < m[r] + 1
      OBVIOUS
    <2> DEFINE v == F[r]
    <2>2. \E h \in [D -> S] : UpTo(m[r] + 1, h) /\ v = h[r]
      <3>1. v = CHOOSE w : \E h \in [D -> S] : UpTo(m[r] + 1, h) /\ w = h[r]
        OBVIOUS
      <3>2. \E w : \E h \in [D -> S] : UpTo(m[r] + 1, h) /\ w = h[r]
        <4> HIDE DEF UpTo
        <4> QED BY <1>3
      <3> HIDE DEF v, UpTo
      <3> QED BY <3>1, <3>2, Zenon
    <2> HIDE DEF UpTo, v
    <2>3. PICK h \in [D -> S] : UpTo(m[r] + 1, h) /\ v = h[r]
      BY <2>2
    <2>4. h[r] = f[r]
      BY <1>2, <1>3, <2>1, <2>3
    <2> QED BY <2>3, <2>4 DEF v
  <1>4. \A r \in D : F[r] \in S
    <2> TAKE r \in D
    <2>1. m[r] + 1 \in Nat
      OBVIOUS
    <2> HIDE DEF F, UpTo
    <2>2. PICK f \in [D -> S] : UpTo(m[r] + 1, f)
      BY <1>1, <2>1
    <2> QED BY <1>3, <2>2
  <1>5. F \in [D -> S]
    <2> DEFINE value(r) == CHOOSE v : \E f \in [D -> S] : UpTo(m[r] + 1, f) /\ v = f[r]
    <2>1. F = [r \in D |-> value(r)]
      OBVIOUS
    <2> HIDE DEF value, F
    <2> QED BY <1>4, <2>1
  <1>6. ASSUME NEW r \in D PROVE F[r] = step[r][F]
    <2>1. m[r] + 1 \in Nat
      OBVIOUS
    <2>2. PICK f \in [D -> S] : UpTo(m[r] + 1, f)
      <3> HIDE DEF UpTo
      <3> QED BY <1>1, <2>1
    <2>3. F[r] = f[r] /\ f[r] = step[r][f]
      <3>1. f[r] = step[r][f]
        BY <2>2
      <3> HIDE DEF F, UpTo
      <3> QED BY <1>3, <2>2, <3>1
    <2>4. ASSUME NEW q \in D, m[q] < m[r] PROVE f[q] = F[q]
      <3>1. UpTo(m[q] + 1, f)
        <4>1. \A p \in D : m[p] < m[q] + 1 => m[p] < m[r] + 1
          BY <2>4
        <4> QED BY <2>2, <4>1
      <3> HIDE DEF F, UpTo
      <3> QED BY <1>3, <3>1
    <2> HIDE DEF F, UpTo
    <2>5. step[r][f] = step[r][F]
      BY <1>0, <1>5, <2>4
    <2> QED BY <2>3, <2>5
  <1> HIDE DEF F
  <1> QED BY <1>5, <1>6

\* One step of the doubling; the next number to try.
Candidate(high) == IF 2 * high < MaxParallel THEN 2 * high ELSE MaxParallel

LEMMA CandidatesGrow ==
    /\ MaxParallel \in Nat /\ MaxParallel >= 1
    /\ \A h \in 1 .. MaxParallel :
           h # MaxParallel => Candidate(h) \in (h + 1) .. MaxParallel
  <1>1. MaxParallel \in Nat /\ MaxParallel >= 1
    BY DEF MaxParallel
  <1>2. ASSUME NEW h \in 1 .. MaxParallel, h # MaxParallel
        PROVE  Candidate(h) \in (h + 1) .. MaxParallel
    BY <1>1, <1>2 DEF Candidate
  <1> QED BY <1>1, <1>2

\* The doubling ends below the first number it finds that does not fit, or at
\* the most llama-server takes.  Fits is the set of the numbers that fit.
LEMMA DoublingEnds ==
    ASSUME NEW Fits,
           NEW grow, grow = [high \in 1 .. MaxParallel |->
                                 IF high = MaxParallel THEN high
                                 ELSE IF Candidate(high) \in Fits THEN grow[Candidate(high)]
                                 ELSE Candidate(high) - 1]
    PROVE  grow[1] \in 1 .. MaxParallel /\ (grow[1] = MaxParallel \/ grow[1] + 1 \notin Fits)
  <1> DEFINE Good(h) == grow[h] \in 1 .. MaxParallel
                        /\ (grow[h] = MaxParallel \/ grow[h] + 1 \notin Fits)
             Bad == {d \in Nat : \E h \in 1 .. MaxParallel : d = MaxParallel - h /\ ~Good(h)}
  <1>1. MaxParallel \in Nat /\ MaxParallel >= 1
    BY CandidatesGrow
  <1>2. \A h \in 1 .. MaxParallel :
            h # MaxParallel => Candidate(h) \in (h + 1) .. MaxParallel
    BY CandidatesGrow
  <1> SUFFICES ASSUME Bad # {} PROVE FALSE
    <2>1. MaxParallel - 1 \in Bad \/ Good(1)
      BY <1>1
    <2> HIDE DEF Bad
    <2> QED BY <2>1
  <1>3. PICK d \in Bad : \A e \in Bad : d <= e
    <2>1. Bad \subseteq Nat
      OBVIOUS
    <2> HIDE DEF Bad
    <2> QED BY <2>1, Least
  <1>4. PICK h \in 1 .. MaxParallel : d = MaxParallel - h /\ ~Good(h)
    OBVIOUS
  <1> DEFINE c == Candidate(h)
  <1>5. grow[h] = IF h = MaxParallel THEN h ELSE IF c \in Fits THEN grow[c] ELSE c - 1
    OBVIOUS
  <1>6. h # MaxParallel
    BY <1>1, <1>4, <1>5
  <1>7. c \in (h + 1) .. MaxParallel
    BY <1>2, <1>6
  <1> HIDE DEF c
  <1>8. Good(c)
    <2>1. MaxParallel - c \in Nat /\ ~(d <= MaxParallel - c) /\ c \in 1 .. MaxParallel
      BY <1>1, <1>4, <1>7
    <2>2. MaxParallel - c \in Bad \/ Good(c)
      BY <2>1
    <2> HIDE DEF Bad, Good
    <2> QED BY <1>3, <2>1, <2>2
  <1>9. CASE c \in Fits
    <2>1. grow[h] = grow[c]
      BY <1>5, <1>6, <1>9
    <2> QED BY <1>4, <1>8, <2>1
  <1>10. CASE c \notin Fits
    <2>1. grow[h] = c - 1 /\ (c - 1) + 1 = c /\ c - 1 \in 1 .. MaxParallel
      BY <1>1, <1>5, <1>6, <1>7, <1>10
    <2> QED BY <1>4, <1>10, <2>1
  <1> QED BY <1>9, <1>10

\* The bisection keeps that its lower end fits and that the number above its
\* upper end does not.
Pairs == (1 .. MaxParallel) \X (1 .. MaxParallel)
Middle(r) == (r[1] + r[2] + 1) \div 2

LEMMA BisectionEnds ==
    ASSUME NEW Fits,
           NEW search, search = [r \in Pairs |->
                                     IF r[1] >= r[2] THEN r[1]
                                     ELSE IF Middle(r) \in Fits THEN search[<<Middle(r), r[2]>>]
                                     ELSE search[<<r[1], Middle(r) - 1>>]],
           1 \in Fits, NEW top \in 1 .. MaxParallel, top = MaxParallel \/ top + 1 \notin Fits
    PROVE  LET n == search[<<1, top>>]
           IN  n \in 1 .. MaxParallel /\ n \in Fits /\ (n = MaxParallel \/ n + 1 \notin Fits)
  <1> DEFINE Right(n) == n \in 1 .. MaxParallel /\ n \in Fits /\ (n = MaxParallel \/ n + 1 \notin Fits)
             Between(lo, hi) == /\ lo \in 1 .. MaxParallel /\ hi \in lo .. MaxParallel /\ lo \in Fits
                                /\ hi = MaxParallel \/ hi + 1 \notin Fits
             Wrong(lo, hi) == Between(lo, hi) /\ ~Right(search[<<lo, hi>>])
             Bad == {d \in Nat : \E lo, hi \in 1 .. MaxParallel : d = hi - lo /\ Wrong(lo, hi)}
  <1>1. MaxParallel \in Nat /\ MaxParallel >= 1
    BY CandidatesGrow
  <1>2. Between(1, top)
    BY <1>1
  <1> SUFFICES ASSUME Bad # {} PROVE FALSE
    <2>1. ~Wrong(1, top)
      <3>1. top - 1 \in Bad \/ ~Wrong(1, top)
        <4> HIDE DEF Wrong
        <4> QED BY <1>1
      <3> HIDE DEF Bad
      <3> QED BY <3>1
    <2> QED BY <1>2, <2>1
  <1>3. PICK d \in Bad : \A e \in Bad : d <= e
    <2>1. Bad \subseteq Nat
      <3> HIDE DEF Wrong
      <3> QED OBVIOUS
    <2> HIDE DEF Bad
    <2> QED BY <2>1, Least
  <1>4. PICK lo \in 1 .. MaxParallel, hi \in 1 .. MaxParallel : d = hi - lo /\ Wrong(lo, hi)
    <2> HIDE DEF Wrong
    <2> QED OBVIOUS
  <1>5. ASSUME NEW l \in 1 .. MaxParallel, NEW h \in 1 .. MaxParallel, Between(l, h), h - l < d
        PROVE  Right(search[<<l, h>>])
    <2>1. h - l \in Nat /\ d \in Nat
      BY <1>1, <1>4, <1>5
    <2>2. h - l \in Bad \/ ~Wrong(l, h)
      <3> HIDE DEF Wrong
      <3> QED BY <2>1
    <2>3. h - l \notin Bad
      <3> HIDE DEF Bad
      <3> QED BY <1>3, <1>5, <2>1
    <2> QED BY <1>5, <2>2, <2>3
  <1> DEFINE mid == (lo + hi + 1) \div 2
  <1>6. Between(lo, hi) /\ ~Right(search[<<lo, hi>>])
    BY <1>4
  <1>7. search[<<lo, hi>>] = IF lo >= hi THEN lo
                             ELSE IF mid \in Fits THEN search[<<mid, hi>>] ELSE search[<<lo, mid - 1>>]
    <2>1. <<lo, hi>> \in Pairs
      BY DEF Pairs
    <2>2. \A r \in Pairs :
              search[r] = IF r[1] >= r[2] THEN r[1]
                          ELSE IF Middle(r) \in Fits THEN search[<<Middle(r), r[2]>>]
                          ELSE search[<<r[1], Middle(r) - 1>>]
      OBVIOUS
    <2> QED BY <2>1, <2>2 DEF Middle
  <1>8. lo < hi
    <2> SUFFICES ASSUME ~(lo < hi) PROVE FALSE
      OBVIOUS
    <2>1. lo = hi /\ search[<<lo, hi>>] = lo
      BY <1>1, <1>6, <1>7
    <2> QED BY <1>6, <2>1
  <1>9. mid \in (lo + 1) .. hi
    BY <1>8
  <1> HIDE DEF mid
  <1>10. CASE mid \in Fits
    <2>1. mid \in 1 .. MaxParallel /\ hi - mid < d /\ Between(mid, hi)
      BY <1>1, <1>4, <1>6, <1>9, <1>10
    <2>2. search[<<lo, hi>>] = search[<<mid, hi>>]
      BY <1>7, <1>8, <1>10
    <2> HIDE DEF Right, Between
    <2> QED BY <1>5, <1>6, <2>1, <2>2
  <1>11. CASE mid \notin Fits
    <2>1. mid - 1 \in 1 .. MaxParallel /\ (mid - 1) - lo < d /\ (mid - 1) + 1 = mid
          /\ mid - 1 \in lo .. MaxParallel
      BY <1>1, <1>4, <1>6, <1>9
    <2>2. Between(lo, mid - 1)
      BY <1>6, <1>11, <2>1
    <2>3. search[<<lo, hi>>] = search[<<lo, mid - 1>>]
      BY <1>7, <1>8, <1>11
    <2> HIDE DEF Right, Between
    <2> QED BY <1>5, <1>6, <2>1, <2>2, <2>3
  <1> QED BY <1>10, <1>11

\* There are such functions.
LEMMA DoublingDefined ==
    ASSUME NEW Fits
    PROVE  \E grow : grow = [high \in 1 .. MaxParallel |->
                                 IF high = MaxParallel THEN high
                                 ELSE IF Candidate(high) \in Fits THEN grow[Candidate(high)]
                                 ELSE Candidate(high) - 1]
  <1> DEFINE S == Int
             D == 1 .. MaxParallel
             m == [h \in D |-> MaxParallel - h]
             value(h, f) == IF h = MaxParallel THEN h
                            ELSE IF Candidate(h) \in Fits THEN f[Candidate(h)]
                            ELSE Candidate(h) - 1
             step == [h \in D |-> [f \in [D -> S] |-> value(h, f)]]
  <1>1. MaxParallel \in Nat /\ m \in [D -> Nat] /\ S # {}
    BY CandidatesGrow
  <1>2. \A h \in D : h # MaxParallel => Candidate(h) \in D /\ m[Candidate(h)] < m[h]
    BY <1>1, CandidatesGrow
  <1>3. \A h \in D, f \in [D -> S] : value(h, f) \in S
    <2>1. \A h \in D : h # MaxParallel => Candidate(h) \in D
      <3> HIDE DEF D, m
      <3> QED BY <1>2
    <2>2. \A h \in D : h \in Int /\ h - 1 \in Int
      BY <1>1
    <2> HIDE DEF D, m
    <2> QED BY <2>1, <2>2
  <1>4. ASSUME NEW h \in D, NEW f \in [D -> S], NEW g \in [D -> S],
               \A q \in D : m[q] < m[h] => f[q] = g[q]
        PROVE  value(h, f) = value(h, g)
    BY <1>2, <1>4
  <1> HIDE DEF S, D, m, value
  <1>5. step \in [D -> [[D -> S] -> S]]
    BY <1>3
  <1>6. \A h \in D, f \in [D -> S] : step[h][f] = value(h, f)
    OBVIOUS
  <1>7. LooksDown(D, S, m, step)
    BY <1>4, <1>6 DEF LooksDown
  <1> HIDE DEF step
  <1>8. Measures(D, m) /\ Recurs(D, S, step)
    BY <1>1, <1>5 DEF Measures, Recurs
  <1>9. HasSolution(D, S, step)
    BY <1>7, <1>8, MeasureDefines
  <1>10. PICK f \in [D -> S] : \A r \in D : f[r] = step[r][f]
    BY <1>9 DEF HasSolution
  <1>11. f = [h \in D |-> value(h, f)]
    BY <1>6, <1>10
  <1> QED BY <1>11 DEF D, value

LEMMA BisectionDefined ==
    ASSUME NEW Fits
    PROVE  \E search : search = [r \in Pairs |->
                                     IF r[1] >= r[2] THEN r[1]
                                     ELSE IF Middle(r) \in Fits THEN search[<<Middle(r), r[2]>>]
                                     ELSE search[<<r[1], Middle(r) - 1>>]]
  <1> DEFINE S == Int
             m == [r \in Pairs |-> IF r[1] >= r[2] THEN 0 ELSE r[2] - r[1]]
             value(r, f) == IF r[1] >= r[2] THEN r[1]
                            ELSE IF Middle(r) \in Fits THEN f[<<Middle(r), r[2]>>]
                            ELSE f[<<r[1], Middle(r) - 1>>]
             step == [r \in Pairs |-> [f \in [Pairs -> S] |-> value(r, f)]]
  <1>0. MaxParallel \in Nat
    BY CandidatesGrow
  <1>1. m \in [Pairs -> Nat] /\ S # {}
    BY <1>0 DEF Pairs
  <1>2. ASSUME NEW r \in Pairs, ~(r[1] >= r[2])
        PROVE  /\ <<Middle(r), r[2]>> \in Pairs /\ m[<<Middle(r), r[2]>>] < m[r]
               /\ <<r[1], Middle(r) - 1>> \in Pairs /\ m[<<r[1], Middle(r) - 1>>] < m[r]
    <2>1. r[1] \in 1 .. MaxParallel /\ r[2] \in 1 .. MaxParallel
      BY DEF Pairs
    <2>2. Middle(r) \in (r[1] + 1) .. r[2]
      BY <1>0, <1>2, <2>1 DEF Middle
    <2>3. Middle(r) \in 1 .. MaxParallel /\ Middle(r) - 1 \in 1 .. MaxParallel
      BY <1>0, <2>1, <2>2
    <2>4. <<Middle(r), r[2]>> \in Pairs /\ <<r[1], Middle(r) - 1>> \in Pairs
      BY <2>1, <2>3 DEF Pairs
    <2>5. \A q \in Pairs : m[q] = IF q[1] >= q[2] THEN 0 ELSE q[2] - q[1]
      OBVIOUS
    <2> HIDE DEF m
    <2>6. /\ m[r] = r[2] - r[1]
          /\ m[<<Middle(r), r[2]>>] = IF Middle(r) >= r[2] THEN 0 ELSE r[2] - Middle(r)
          /\ m[<<r[1], Middle(r) - 1>>] = IF r[1] >= Middle(r) - 1 THEN 0 ELSE (Middle(r) - 1) - r[1]
      BY <1>2, <2>4, <2>5
    <2> QED BY <1>0, <1>2, <2>1, <2>2, <2>4, <2>6
  <1>3. \A r \in Pairs, f \in [Pairs -> S] : value(r, f) \in S
    <2> HIDE DEF m
    <2>1. \A r \in Pairs : r[1] \in Int
      BY <1>0 DEF Pairs
    <2> QED BY <1>2, <2>1
  <1>4. ASSUME NEW r \in Pairs, NEW f \in [Pairs -> S], NEW g \in [Pairs -> S],
               \A q \in Pairs : m[q] < m[r] => f[q] = g[q]
        PROVE  value(r, f) = value(r, g)
    <2> HIDE DEF m
    <2> QED BY <1>2, <1>4
  <1> HIDE DEF S, m, value
  <1>5. step \in [Pairs -> [[Pairs -> S] -> S]]
    BY <1>3
  <1>6. \A r \in Pairs, f \in [Pairs -> S] : step[r][f] = value(r, f)
    OBVIOUS
  <1>7. LooksDown(Pairs, S, m, step)
    BY <1>4, <1>6 DEF LooksDown
  <1> HIDE DEF step
  <1>8. Measures(Pairs, m) /\ Recurs(Pairs, S, step)
    BY <1>1, <1>5 DEF Measures, Recurs
  <1>9. HasSolution(Pairs, S, step)
    BY <1>7, <1>8, MeasureDefines
  <1>10. PICK f \in [Pairs -> S] : \A r \in Pairs : f[r] = step[r][f]
    BY <1>9 DEF HasSolution
  <1>11. f = [r \in Pairs |-> value(r, f)]
    BY <1>6, <1>10
  <1> QED BY <1>11 DEF value

\* What the code finds is the most that fits: no number is found where one slot
\* does not fit, and else one that fits and whose successor does not.
Maximal(at, room, context, dtype, n) ==
    LET bytes(k) == KvCacheSize(at, context, k, dtype, dtype)
    IN  \/ n = 0 /\ (context <= 0 \/ room <= 0 \/ bytes(1) <= 0 \/ ~(bytes(1) <= room))
        \/ /\ n \in 1 .. MaxParallel /\ bytes(1) <= room /\ bytes(n) <= room
           /\ n = MaxParallel \/ ~(bytes(n + 1) <= room)

THEOREM SlotsAreMaximalWhateverTheSizes ==
    ASSUME NEW at, NEW room, NEW context, NEW dtype
    PROVE  Maximal(at, room, context, dtype, MaxParallelSlots(at, room, context, dtype))
  <1> DEFINE bytes(n) == KvCacheSize(at, context, n, dtype, dtype)
             fits(n) == bytes(n) <= room
             Fits == {n \in Int : fits(n)}
             candidate(high) == IF 2 * high < MaxParallel THEN 2 * high ELSE MaxParallel
             grow == CHOOSE g : g = [high \in 1 .. MaxParallel |->
                         IF high = MaxParallel THEN high
                         ELSE IF fits(candidate(high)) THEN g[candidate(high)]
                         ELSE candidate(high) - 1]
             mid(r) == (r[1] + r[2] + 1) \div 2
             search == CHOOSE g : g = [r \in (1 .. MaxParallel) \X (1 .. MaxParallel) |->
                           IF r[1] >= r[2] THEN r[1]
                           ELSE IF fits(mid(r)) THEN g[<<mid(r), r[2]>>]
                           ELSE g[<<r[1], mid(r) - 1>>]]
             none == context <= 0 \/ room <= 0 \/ bytes(1) <= 0 \/ ~fits(1)
             n == MaxParallelSlots(at, room, context, dtype)
  <1>1. n = IF none THEN 0 ELSE search[<<1, grow[1]>>]
    BY Zenon DEF MaxParallelSlots
  <1>2. MaxParallel \in Nat /\ MaxParallel >= 1
    BY CandidatesGrow
  <1>3. \A k \in Int : k \in Fits <=> fits(k)
    OBVIOUS
  <1> HIDE DEF fits, Fits, n
  <1>4. grow = [high \in 1 .. MaxParallel |->
                    IF high = MaxParallel THEN high
                    ELSE IF Candidate(high) \in Fits THEN grow[Candidate(high)]
                    ELSE Candidate(high) - 1]
    <2>1. \A h : Candidate(h) = candidate(h)
      BY DEF Candidate
    <2>2. \A h \in 1 .. MaxParallel : h # MaxParallel => Candidate(h) \in Int
      BY <1>2, CandidatesGrow
    <2> HIDE DEF candidate
    <2>3. ASSUME NEW g
          PROVE  [high \in 1 .. MaxParallel |->
                      IF high = MaxParallel THEN high
                      ELSE IF fits(candidate(high)) THEN g[candidate(high)]
                      ELSE candidate(high) - 1]
                 = [high \in 1 .. MaxParallel |->
                      IF high = MaxParallel THEN high
                      ELSE IF Candidate(high) \in Fits THEN g[Candidate(high)]
                      ELSE Candidate(high) - 1]
      BY <1>3, <2>1, <2>2
    <2>4. \E g : g = [high \in 1 .. MaxParallel |->
                          IF high = MaxParallel THEN high
                          ELSE IF Candidate(high) \in Fits THEN g[Candidate(high)]
                          ELSE Candidate(high) - 1]
      BY DoublingDefined
    <2>5. \E g : g = [high \in 1 .. MaxParallel |->
                          IF high = MaxParallel THEN high
                          ELSE IF fits(candidate(high)) THEN g[candidate(high)]
                          ELSE candidate(high) - 1]
      <3>1. PICK g : g = [high \in 1 .. MaxParallel |->
                              IF high = MaxParallel THEN high
                              ELSE IF Candidate(high) \in Fits THEN g[Candidate(high)]
                              ELSE Candidate(high) - 1]
        BY <2>4
      <3>2. g = [high \in 1 .. MaxParallel |->
                     IF high = MaxParallel THEN high
                     ELSE IF fits(candidate(high)) THEN g[candidate(high)]
                     ELSE candidate(high) - 1]
        BY <2>3, <3>1
      <3> QED BY <3>2, Zenon
    <2>6. grow = [high \in 1 .. MaxParallel |->
                      IF high = MaxParallel THEN high
                      ELSE IF fits(candidate(high)) THEN grow[candidate(high)]
                      ELSE candidate(high) - 1]
      BY <2>5, Zenon
    <2> QED BY <2>3, <2>6, Zenon
  <1>5. search = [r \in Pairs |->
                      IF r[1] >= r[2] THEN r[1]
                      ELSE IF Middle(r) \in Fits THEN search[<<Middle(r), r[2]>>]
                      ELSE search[<<r[1], Middle(r) - 1>>]]
    <2>1. \A r : Middle(r) = mid(r)
      BY DEF Middle
    <2>2. \A r \in Pairs : Middle(r) \in Int
      BY <1>2 DEF Pairs, Middle
    <2>3. Pairs = (1 .. MaxParallel) \X (1 .. MaxParallel)
      BY DEF Pairs
    <2> HIDE DEF mid
    <2>4. ASSUME NEW g
          PROVE  [r \in Pairs |->
                      IF r[1] >= r[2] THEN r[1]
                      ELSE IF fits(mid(r)) THEN g[<<mid(r), r[2]>>]
                      ELSE g[<<r[1], mid(r) - 1>>]]
                 = [r \in Pairs |->
                      IF r[1] >= r[2] THEN r[1]
                      ELSE IF Middle(r) \in Fits THEN g[<<Middle(r), r[2]>>]
                      ELSE g[<<r[1], Middle(r) - 1>>]]
      BY <1>3, <2>1, <2>2
    <2>5. search = CHOOSE g : g = [r \in Pairs |->
                      IF r[1] >= r[2] THEN r[1]
                      ELSE IF fits(mid(r)) THEN g[<<mid(r), r[2]>>]
                      ELSE g[<<r[1], mid(r) - 1>>]]
      BY Zenon DEF Pairs
    <2> HIDE DEF search
    <2>6. \E g : g = [r \in Pairs |->
                      IF r[1] >= r[2] THEN r[1]
                      ELSE IF Middle(r) \in Fits THEN g[<<Middle(r), r[2]>>]
                      ELSE g[<<r[1], Middle(r) - 1>>]]
      BY BisectionDefined
    <2>7. \E g : g = [r \in Pairs |->
                      IF r[1] >= r[2] THEN r[1]
                      ELSE IF fits(mid(r)) THEN g[<<mid(r), r[2]>>]
                      ELSE g[<<r[1], mid(r) - 1>>]]
      <3>1. PICK g : g = [r \in Pairs |->
                              IF r[1] >= r[2] THEN r[1]
                              ELSE IF Middle(r) \in Fits THEN g[<<Middle(r), r[2]>>]
                              ELSE g[<<r[1], Middle(r) - 1>>]]
        BY <2>6
      <3>2. g = [r \in Pairs |->
                     IF r[1] >= r[2] THEN r[1]
                     ELSE IF fits(mid(r)) THEN g[<<mid(r), r[2]>>]
                     ELSE g[<<r[1], mid(r) - 1>>]]
        BY <2>4, <3>1
      <3> QED BY <3>2, Zenon
    <2>8. search = [r \in Pairs |->
                      IF r[1] >= r[2] THEN r[1]
                      ELSE IF fits(mid(r)) THEN search[<<mid(r), r[2]>>]
                      ELSE search[<<r[1], mid(r) - 1>>]]
      BY <2>5, <2>7, Zenon
    <2> QED BY <2>4, <2>8, Zenon
  <1> HIDE DEF grow, search
  <1>6. CASE none
    <2>1. n = 0
      BY <1>1, <1>6
    <2> QED BY <1>6, <2>1 DEF Maximal, n, fits
  <1>7. CASE ~none
    <2>1. 1 \in Fits /\ fits(1)
      BY <1>3, <1>7
    <2>2. grow[1] \in 1 .. MaxParallel /\ (grow[1] = MaxParallel \/ grow[1] + 1 \notin Fits)
      BY <1>4, DoublingEnds
    <2>3. LET s == search[<<1, grow[1]>>]
          IN  s \in 1 .. MaxParallel /\ s \in Fits /\ (s = MaxParallel \/ s + 1 \notin Fits)
      BY <1>5, <2>1, <2>2, BisectionEnds
    <2>4. n = search[<<1, grow[1]>>]
      BY <1>1, <1>7
    <2>5. n \in 1 .. MaxParallel /\ fits(n) /\ (n = MaxParallel \/ ~fits(n + 1))
      <3>1. n \in 1 .. MaxParallel /\ n \in Fits /\ (n = MaxParallel \/ n + 1 \notin Fits)
        BY <2>3, <2>4
      <3>2. n \in Int /\ n + 1 \in Int
        BY <1>2, <3>1
      <3> QED BY <1>3, <3>1, <3>2
    <2> QED BY <2>1, <2>5 DEF Maximal, n, fits
  <1> QED BY <1>6, <1>7

-----------------------------------------------------------------------------
(* The memory of a llama.cpp model.                                          *)

\* What its table is computed from.
Header(at) ==
    /\ {at.heads, at.key, at.value, at.maxPos, at.window, at.state} \subseteq Nat
    /\ at.layers \in Nat \ {0}
    /\ IsFiniteSet(at.files)
    /\ \A f \in at.files : f.id \in Nat /\ f.size \in Nat \ {0}

LEMMA HeaderOf ==
    ASSUME NEW m \in Models, NEW r \in DOMAIN Attr[m], Card[m].backend # "vllm"
    PROVE  Header(Attr[m][r])
  BY NumbersAssumption DEF Header

\* Of some variants one is larger than the others, or as large and named later.
Behind(g, f) == g.size < f.size \/ (g.size = f.size /\ g.id <= f.id)
Leader(T) == \E f \in T : \A g \in T : Behind(g, f)

LEMMA OneLeads ==
    ASSUME NEW files, IsFiniteSet(files),
           \A f \in files : f.id \in Nat /\ f.size \in Nat \ {0},
           NEW W \in SUBSET files, W # {}
    PROVE  Leader(W)
  <1> DEFINE Lost(T) == T \in SUBSET files /\ T # {} /\ ~Leader(T)
             Sizes == {Cardinality(T) : T \in {U \in SUBSET files : Lost(U)}}
  <1>1. \A T \in SUBSET files : IsFiniteSet(T) /\ Cardinality(T) \in Nat
    BY FS_Subset, FS_CardinalityType
  <1>2. \A f, g, h \in files : /\ Behind(f, f) /\ (Behind(f, g) \/ Behind(g, f))
                               /\ (Behind(f, g) /\ Behind(g, h) => Behind(f, h))
    BY DEF Behind
  <1> SUFFICES ASSUME Lost(W) PROVE FALSE
    OBVIOUS
  <1>3. PICK T \in SUBSET files :
            Lost(T) /\ \A U \in SUBSET files : Lost(U) => Cardinality(T) <= Cardinality(U)
    <2> HIDE DEF Lost
    <2>1. Sizes \subseteq Nat /\ Cardinality(W) \in Sizes
      BY <1>1
    <2>2. PICK n \in Sizes : \A k \in Sizes : n <= k
      <3> HIDE DEF Sizes
      <3> QED BY <2>1, Least
    <2> QED BY <2>2
  <1>4. PICK x \in T : TRUE
    BY <1>3
  <1> DEFINE U == T \ {x}
  <1>5. U \in SUBSET files /\ Cardinality(U) = Cardinality(T) - 1
    BY <1>1, <1>4, FS_RemoveElement
  <1>6. ~Lost(U)
    BY <1>1, <1>3, <1>5
  <1>7. CASE U = {}
    BY <1>2, <1>3, <1>4, <1>7 DEF Leader
  <1>8. CASE U # {}
    <2>1. PICK f \in U : \A g \in U : Behind(g, f)
      BY <1>5, <1>6, <1>8 DEF Leader
    <2>2. \A g \in T : g = x \/ g \in U
      OBVIOUS
    <2>3. Leader(T)
      <3>1. CASE Behind(x, f)
        BY <2>1, <2>2, <3>1 DEF Leader
      <3>2. CASE Behind(f, x)
        BY <1>2, <1>4, <2>1, <2>2, <3>2 DEF Leader
      <3> QED BY <1>2, <1>4, <2>1, <3>1, <3>2
    <2> QED BY <1>3, <2>3
  <1> QED BY <1>7, <1>8

\* The variant that is selected is one of the files.
LEMMA SelectsAFile ==
    ASSUME NEW at, Header(at), SelectFiles(at) # None
    PROVE  SelectFiles(at) \in at.files
  <1> DEFINE whole == {f \in at.files : f.whole}
  <1>1. whole # {} /\ SelectFiles(at) = CHOOSE f \in whole : \A g \in whole : Behind(g, f)
    BY DEF SelectFiles, Behind
  <1>2. Leader(whole)
    BY <1>1, OneLeads DEF Header
  <1> QED BY <1>1, <1>2 DEF Leader

LEMMA LayersAreCounted ==
    ASSUME NEW at, Header(at)
    PROVE  /\ Cardinality(RecurrentLayers(at)) \in Nat
           /\ Cardinality(SwaLayers(at)) \in Nat
           /\ Cardinality(FullLayers(at)) \in Nat
  <1> DEFINE all == 0 .. at.layers - 1
  <1>1. IsFiniteSet(all)
    BY FS_Interval DEF Header
  <1>2. RecurrentLayers(at) \in SUBSET all /\ SwaLayers(at) \in SUBSET all
        /\ FullLayers(at) \in SUBSET all
    BY DEF RecurrentLayers, SwaLayers, FullLayers
  <1> HIDE DEF all
  <1> QED BY <1>1, <1>2, FS_Subset, FS_CardinalityType

LEMMA ElementsHaveSize ==
    ASSUME NEW d \in Range(LlamaDtypes)
    PROVE  ElementSize[d] \in Nat
  BY DEF LlamaDtypes, ElementSize, Range

\* The memory of the KV cache is a number.
LEMMA CacheIsANumber ==
    ASSUME NEW at, Header(at), NEW context \in Nat, NEW n \in Nat, NEW d \in Range(LlamaDtypes)
    PROVE  KvCacheSize(at, context, n, d, d) \in Nat
  <1> DEFINE e == ElementSize[d]
             recurrent == Cardinality(RecurrentLayers(at))
             swa == Cardinality(SwaLayers(at))
             full == Cardinality(FullLayers(at))
             window == SwaCells(at, context)
  <1>1. e \in Nat /\ recurrent \in Nat /\ swa \in Nat /\ full \in Nat
    BY ElementsHaveSize, LayersAreCounted
  <1>2. window \in Nat
    <2>1. Min({context, at.window + UBatch}) \in Nat
      <3>1. {context, at.window + UBatch} \subseteq Nat
        BY DEF Header, UBatch
      <3> QED BY <3>1, MinIn
    <2> QED BY <2>1, RoundsUp DEF SwaCells, CellTokens
  <1>3. context \div CellTokens \in Nat
    BY Quotient DEF CellTokens
  <1> DEFINE cells == swa * window + full * (context \div CellTokens)
  <1>4. KvCacheSize(at, context, n, d, d)
            = n * at.heads * (at.key * e + at.value * e) * cells + n * recurrent * at.state
    BY DEF KvCacheSize, RecurrentState
  <1>5. at.heads \in Nat /\ at.key \in Nat /\ at.value \in Nat /\ at.state \in Nat
    BY DEF Header
  <1> HIDE DEF e, recurrent, swa, full, window
  <1>6. cells \in Nat
    BY <1>1, <1>2, <1>3
  <1>7. at.key * e + at.value * e \in Nat /\ n * at.heads \in Nat /\ n * recurrent \in Nat
    BY <1>1, <1>5
  <1> DEFINE element == at.key * e + at.value * e
             heads == n * at.heads
             states == n * recurrent
  <1>8. KvCacheSize(at, context, n, d, d) = heads * element * cells + states * at.state
    BY <1>4
  <1> HIDE DEF cells, element, heads, states
  <1>9. element \in Nat /\ heads \in Nat /\ states \in Nat
    BY <1>7 DEF element, heads, states
  <1>10. heads * element \in Nat /\ states * at.state \in Nat
    BY <1>5, <1>9
  <1>11. (heads * element) * cells \in Nat
    BY <1>6, <1>10
  <1> QED BY <1>8, <1>10, <1>11

\* Of a given model every slot takes as much.
LEMMA SlotsTakeAlike ==
    ASSUME NEW at, Header(at), NEW context \in Nat, NEW n \in Nat, NEW d \in Range(LlamaDtypes)
    PROVE  KvCacheSize(at, context, n, d, d) = n * KvCacheSize(at, context, 1, d, d)
  <1> DEFINE element == at.key * ElementSize[d] + at.value * ElementSize[d]
             recurrent == Cardinality(RecurrentLayers(at))
             swa == Cardinality(SwaLayers(at))
             full == Cardinality(FullLayers(at))
             window == SwaCells(at, context)
             cells == swa * window + full * (context \div CellTokens)
  <1>1. \A k \in Nat : KvCacheSize(at, context, k, d, d)
            = k * at.heads * element * cells + k * recurrent * at.state
    BY DEF KvCacheSize, RecurrentState
  <1>2. at.heads \in Nat /\ at.key \in Nat /\ at.value \in Nat /\ at.state \in Nat
    BY DEF Header
  <1>3. element \in Nat
    <2>1. ElementSize[d] \in Nat
      BY ElementsHaveSize
    <2> QED BY <1>2, <2>1
  <1>4. recurrent \in Nat /\ swa \in Nat /\ full \in Nat
    BY LayersAreCounted
  <1>5. window \in Nat
    <2>1. Min({context, at.window + UBatch}) \in Nat
      <3>1. {context, at.window + UBatch} \subseteq Nat
        BY DEF Header, UBatch
      <3> QED BY <3>1, MinIn
    <2> QED BY <2>1, RoundsUp DEF SwaCells, CellTokens
  <1>6. context \div CellTokens \in Nat
    BY Quotient DEF CellTokens
  <1> HIDE DEF element, recurrent, swa, full, window
  <1>7. cells \in Nat
    BY <1>4, <1>5, <1>6
  <1> HIDE DEF cells
  <1>8. \A h, e, c, r, s \in Nat : n * h * e * c + n * r * s = n * (1 * h * e * c + 1 * r * s)
    OBVIOUS
  <1> QED BY <1>1, <1>2, <1>3, <1>4, <1>7, <1>8

\* So fewer slots never take more.
LEMMA FewerTakeLess ==
    ASSUME NEW at, Header(at), NEW context \in Nat, NEW d \in Range(LlamaDtypes),
           NEW k \in Nat, NEW n \in Nat, k <= n
    PROVE  KvCacheSize(at, context, k, d, d) <= KvCacheSize(at, context, n, d, d)
  <1> DEFINE one == KvCacheSize(at, context, 1, d, d)
  <1>1. one \in Nat
    BY CacheIsANumber
  <1>2. /\ KvCacheSize(at, context, k, d, d) = k * one
        /\ KvCacheSize(at, context, n, d, d) = n * one
    BY SlotsTakeAlike
  <1> HIDE DEF one
  <1>3. n * one = k * one + (n - k) * one /\ (n - k) * one \in Nat /\ k * one \in Nat
    BY <1>1
  <1> QED BY <1>2, <1>3

\* So is what the weights leave of the GPU's.
LEMMA RoomIsANumber ==
    ASSUME NEW at, Header(at), NEW size \in Nat \ {0}, NEW u \in Nat
    PROVE  RemainingKv(at, size, Vram, u) \in Nat
  <1> DEFINE usable == Usable(Vram, u)
             share == (9 * usable * at.layers) \div (10 * size)
             n == GpuLayers(at, size, Vram, u)
  <1>1. usable \in Nat
    <2>1. Vram * u \in Nat
      BY VramAssumption
    <2> QED BY <2>1, Quotient DEF Usable
  <1>2. at.layers \in Nat \ {0}
    BY DEF Header
  <1> HIDE DEF usable
  <1>3. share \in Nat
    <2>1. 9 * usable \in Nat
      BY <1>1
    <2>2. (9 * usable) * at.layers \in Nat /\ 10 * size \in Nat \ {0}
      BY <1>2, <2>1
    <2> QED BY <2>2, Quotient
  <1>4. n \in Nat
    <2>1. n = Min({at.layers, share})
      BY DEF GpuLayers, usable
    <2> HIDE DEF share, n
    <2>2. {at.layers, share} \subseteq Nat
      BY <1>2, <1>3
    <2> QED BY <2>1, <2>2, MinIn
  <1> HIDE DEF n
  <1>5. n * size \in Nat
    BY <1>4
  <1>6. CeilDiv(n * size, at.layers) \in Nat /\ CeilDiv(Vram, 10) \in Nat
    BY <1>2, <1>5, RoundsUp, VramAssumption
  <1>7. usable - CeilDiv(n * size, at.layers) - CeilDiv(Vram, 10) \in Int
    BY <1>1, <1>6
  <1>8. RemainingKv(at, size, Vram, u)
            = Max({0, usable - CeilDiv(n * size, at.layers) - CeilDiv(Vram, 10)})
    BY DEF RemainingKv, n, usable
  <1> QED BY <1>7, <1>8, MaxWithZero

\* What a cell of the table says of the memory there is.
CellTells(at, room, context, dtype, n) ==
    LET bytes(k) == KvCacheSize(at, context, k, dtype, dtype)
    IN  \/ n = None /\ bytes(1) \notin 1 .. room
        \/ /\ n \in 1 .. MaxParallel /\ bytes(1) <= room /\ bytes(n) <= room
           /\ n = MaxParallel \/ bytes(n + 1) > room

LEMMA LlamaCells ==
    ASSUME NEW at, Header(at), NEW size \in Nat \ {0}, NEW u \in Nat
    PROVE  LET limits == LlamaLimits(at, size, Vram, u)
           IN  /\ DOMAIN limits = LlamaContexts(at)
               /\ \A c \in LlamaContexts(at) :
                     /\ DOMAIN limits[c] = Range(LlamaDtypes)
                     /\ \A d \in Range(LlamaDtypes) :
                           CellTells(at, RemainingKv(at, size, Vram, u), c, d, limits[c][d])
  <1> DEFINE limits == LlamaLimits(at, size, Vram, u)
             room == RemainingKv(at, size, Vram, u)
             slots(c, d) == MaxParallelSlots(at, room, c, d)
  <1>1. limits = [c \in LlamaContexts(at) |-> [d \in Range(LlamaDtypes) |->
                      IF slots(c, d) >= 1 THEN slots(c, d) ELSE None]]
    BY DEF LlamaLimits
  <1>2. room \in Nat
    BY RoomIsANumber
  <1>3. ASSUME NEW c \in LlamaContexts(at), NEW d \in Range(LlamaDtypes)
        PROVE  CellTells(at, room, c, d, IF slots(c, d) >= 1 THEN slots(c, d) ELSE None)
    <2> DEFINE bytes(k) == KvCacheSize(at, c, k, d, d)
               n == slots(c, d)
    <2>1. c \in Nat \ {0}
      BY <1>3, ContextsArePositive DEF LlamaContexts, MinCtx
    <2>2. Maximal(at, room, c, d, n)
      BY SlotsAreMaximalWhateverTheSizes
    <2> HIDE DEF n, room
    <2>3. CASE n = 0
      <3>1. room <= 0 \/ bytes(1) <= 0 \/ ~(bytes(1) <= room)
        BY <2>1, <2>2, <2>3 DEF Maximal
      <3>2. bytes(1) \in Nat
        BY <2>1, CacheIsANumber
      <3> HIDE DEF bytes
      <3>3. bytes(1) \notin 1 .. room
        BY <1>2, <3>1, <3>2
      <3>4. (IF n >= 1 THEN n ELSE None) = None
        BY <2>3
      <3> QED BY <3>3, <3>4 DEF CellTells, bytes, n
    <2>4. CASE n # 0
      <3>1. /\ n \in 1 .. MaxParallel /\ bytes(1) <= room /\ bytes(n) <= room
            /\ n = MaxParallel \/ ~(bytes(n + 1) <= room)
        BY <2>2, <2>4 DEF Maximal
      <3>2. n \in Nat /\ n >= 1
        BY <3>1, CandidatesGrow
      <3>3. bytes(n + 1) \in Nat
        BY <2>1, <3>2, CacheIsANumber
      <3>4. (IF n >= 1 THEN n ELSE None) = n
        BY <3>2
      <3> HIDE DEF bytes
      <3>5. n = MaxParallel \/ bytes(n + 1) > room
        BY <1>2, <3>1, <3>3
      <3> QED BY <3>1, <3>4, <3>5 DEF CellTells, bytes, n
    <2> QED BY <2>3, <2>4 DEF n, room
  <1> HIDE DEF slots, room
  <1> QED BY <1>1, <1>3 DEF room, slots

\* As many slots fit as the cell says, and no more.
CellExact(at, room, context, dtype, n) ==
    LET bytes(k) == KvCacheSize(at, context, k, dtype, dtype)
    IN  IF n = None THEN \A k \in 1 .. MaxParallel : bytes(k) \notin 1 .. room
        ELSE /\ n \in 1 .. MaxParallel
             /\ \A k \in 1 .. MaxParallel :
                   /\ k <= n => bytes(k) <= room
                   /\ k > n => bytes(k) > room

LEMMA CellsAreExact ==
    ASSUME NEW at, Header(at), NEW room \in Nat, NEW c \in Nat, NEW d \in Range(LlamaDtypes),
           NEW n, CellTells(at, room, c, d, n)
    PROVE  CellExact(at, room, c, d, n)
  <1> DEFINE bytes(k) == KvCacheSize(at, c, k, d, d)
  <1>1. \A k \in Nat : bytes(k) \in Nat /\ bytes(k) = k * bytes(1)
    BY CacheIsANumber, SlotsTakeAlike
  <1>2. \A k, m \in Nat : k <= m => bytes(k) <= bytes(m)
    BY FewerTakeLess
  <1>3. /\ 1 .. MaxParallel \subseteq Nat \ {0} /\ MaxParallel \in Nat
    BY DEF MaxParallel
  <1>4. CASE n = None
    <2>1. bytes(1) \notin 1 .. room
      <3>1. \A k \in 1 .. MaxParallel : k # None
        BY <1>3, NoneAssumption
      <3> QED BY <1>4, <3>1 DEF CellTells
    <2> HIDE DEF bytes
    <2>2. ASSUME NEW k \in 1 .. MaxParallel PROVE bytes(k) \notin 1 .. room
      <3>1. k \in Nat /\ 1 <= k
        BY <1>3
      <3>2. CASE bytes(1) = 0
        BY <1>1, <3>1, <3>2
      <3>3. CASE bytes(1) > room
        <4>1. bytes(1) <= bytes(k) /\ bytes(k) \in Nat /\ bytes(1) \in Nat
          BY <1>1, <1>2, <3>1
        <4> QED BY <3>3, <4>1
      <3>4. bytes(1) \in Nat
        BY <1>1
      <3> QED BY <2>1, <3>2, <3>3, <3>4
    <2> QED BY <1>4, <2>2 DEF CellExact, bytes
  <1>5. CASE n # None
    <2>1. /\ n \in 1 .. MaxParallel /\ bytes(n) <= room
          /\ n = MaxParallel \/ bytes(n + 1) > room
      BY <1>5 DEF CellTells
    <2>2. n \in Nat
      BY <1>3, <2>1
    <2> HIDE DEF bytes
    <2>3. ASSUME NEW k \in 1 .. MaxParallel, k <= n PROVE bytes(k) <= room
      <3>1. k \in Nat
        BY <1>3
      <3>2. bytes(k) <= bytes(n) /\ bytes(k) \in Nat /\ bytes(n) \in Nat
        BY <1>1, <1>2, <2>2, <2>3, <3>1
      <3> QED BY <2>1, <3>2
    <2>4. ASSUME NEW k \in 1 .. MaxParallel, k > n PROVE bytes(k) > room
      <3>1. k \in Nat /\ k <= MaxParallel
        BY <1>3
      <3>2. n # MaxParallel /\ n + 1 <= k /\ n + 1 \in Nat
        BY <1>3, <2>2, <2>4, <3>1
      <3>3. /\ bytes(n + 1) <= bytes(k)
            /\ bytes(n + 1) \in Nat /\ bytes(k) \in Nat
        BY <1>1, <1>2, <3>1, <3>2
      <3> QED BY <2>1, <3>2, <3>3
    <2> QED BY <1>5, <2>1, <2>3, <2>4 DEF CellExact, bytes
  <1> QED BY <1>4, <1>5

\* A table that was made was made of one of the files.
LEMMA LlamaTableIs ==
    ASSUME NEW at, Header(at), NEW u \in Nat, LlamaTable(at, Vram, u) # None
    PROVE  LET table == LlamaTable(at, Vram, u)
               size == SelectFiles(at).size
           IN  /\ size \in Nat \ {0}
               /\ table.limits = LlamaLimits(at, size, Vram, u)
  <1> DEFINE f == SelectFiles(at)
  <1>1. f # None
    BY Zenon DEF LlamaTable
  <1>2. f \in at.files
    BY <1>1, SelectsAFile
  <1>3. LlamaTable(at, Vram, u).limits = LlamaLimits(at, f.size, Vram, u)
    BY <1>1 DEF LlamaTable
  <1> QED BY <1>2, <1>3 DEF Header

LEMMA UtilsAreNumbers == Utils \subseteq Nat
  <1>1. 50 .. 99 \subseteq Nat
    OBVIOUS
  <1> QED BY <1>1, UtilsAssumption, Zenon
\* The table of a llama.cpp command that has one.
LEMMA LlamaOwnTable ==
    ASSUME model \in Models, Backend = "llamacpp", NEW q, Begun(q), OwnTable(q)
    PROVE  LET at == Attr[model][q.made.files]
               size == SelectFiles(at).size
           IN  /\ Header(at) /\ size \in Nat \ {0} /\ q.util \in Nat
               /\ TableOf(q.made).limits = LlamaLimits(at, size, Vram, q.util)
  <1> DEFINE at == Attr[model][q.made.files]
  <1>1. /\ q.made.files \in DOMAIN Attr[model] /\ TableOf(q.made) # None
        /\ TableOf(q.made) = LlamaTable(at, Vram, q.util)
    BY OwnTableIs DEF Tuned, Backend
  <1>2. Header(at)
    BY <1>1, HeaderOf DEF Backend
  <1>3. q.util \in Nat
    <2>1. q.util \in Utils
      BY DEF Begun
    <2> QED BY <2>1, UtilsAreNumbers
  <1> HIDE DEF at
  <1>4. LET table == LlamaTable(at, Vram, q.util)
        IN  /\ SelectFiles(at).size \in Nat \ {0}
            /\ table.limits = LlamaLimits(at, SelectFiles(at).size, Vram, q.util)
    BY <1>1, <1>2, <1>3, LlamaTableIs
  <1> QED BY <1>1, <1>2, <1>3, <1>4 DEF at

-----------------------------------------------------------------------------
(* The choices of a llama.cpp run.                                           *)

\* Nobody asked where the experts go.
Unasked(r) == r.cmd.kind = "wizard" \/ (r.cmd.o.override = None /\ r.cmd.o.nCpuMoe = None)

\* A choice takes its slots from its table, and leaves the experts to what the
\* table says it needs.
SoundLlama(r, table, x) ==
    /\ SlotsFromTable(r) => x.slots \in {1, SlotCeiling(table.limits, x.context, x.k)}
    /\ Unasked(r) =>
          /\ x.nCpuMoe = None
          /\ x.override # None =>
                table # None /\ NeedsMoeOffload(table, x.context, x.slots, x.k)

LEMMA LlamaScriptedIsSound ==
    ASSUME NEW r, r.cmd.kind = "run", NEW table, NEW x \in ScriptedLlama(r, table)
    PROVE  SoundLlama(r, table, x)
  <1> DEFINE o == r.cmd.o
             d == IF Required(r.cmd) THEN LlamaDefaults(table, o) ELSE GivenLlama(o, table)
             plans == Resolve(o.spec, "llamacpp", model, FALSE, None) \ {Refused}
  <1>1. d # None /\ x \in {LlamaChoices(o, table, d, plan) : plan \in plans}
    <2>1. ScriptedLlama(r, table) =
              IF d = None THEN {} ELSE {LlamaChoices(o, table, d, plan) : plan \in plans}
      BY Zenon DEF ScriptedLlama
    <2> HIDE DEF d, plans, o
    <2> QED BY <2>1, Zenon
  <1>2. PICK plan : x = LlamaChoices(o, table, d, plan)
    <2> HIDE DEF d, plans, o
    <2> QED BY <1>1
  <1>3. SlotsFromTable(r) => d.slots = SlotCeiling(table.limits, d.context, d.k)
    <2> SUFFICES ASSUME o.slots = None PROVE d.slots = SlotCeiling(table.limits, d.context, d.k)
      BY DEF SlotsFromTable
    <2>1. d = LlamaDefaults(table, o)
      BY DEF Required
    <2> HIDE DEF d
    <2> QED BY <1>1, <2>1 DEF LlamaDefaults
  <1> HIDE DEF d
  <1>4. /\ x.slots = d.slots /\ x.context = d.context /\ x.k = d.k
        /\ x.nCpuMoe = o.nCpuMoe /\ x.override = Override(o, table, d)
    BY <1>2 DEF LlamaChoices
  <1>5. Unasked(r) => o.override = None /\ o.nCpuMoe = None
    BY DEF Unasked
  <1> HIDE DEF o
  <1> QED BY <1>3, <1>4, <1>5 DEF SoundLlama, Override

LEMMA LlamaWizardIsSound ==
    ASSUME NEW r, r.cmd.kind # "run", NEW table, table # None, NEW x \in WizardLlama(table)
    PROVE  SoundLlama(r, table, x)
  <1> DEFINE kv == DefaultKv(table)
             Ceiling(c) == SlotCeiling(table.limits, c, kv)
  <1>1. PICK c : x \in RowChoices(table, c, Ceiling(c), kv)
    <2>1. x \in UNION {RowChoices(table, c, Ceiling(c), kv) :
                           c \in {c \in DOMAIN table.limits : Ceiling(c) # None}}
      BY Zenon DEF WizardLlama
    <2> HIDE DEF kv, Ceiling
    <2> QED BY <2>1
  <1> HIDE DEF kv
  <1>2. PICK n \in {1, Ceiling(c)} : \E layers : x = LlamaWizardChoice(table, c, n, layers, kv)
    BY <1>1 DEF RowChoices
  <1> DEFINE d(layers) == [context |-> c, slots |-> n, layers |-> layers, k |-> kv, v |-> kv]
  <1>3. PICK layers : x = LlamaChoices(PlainLlama, table, d(layers), NoSpec)
    BY <1>2 DEF LlamaWizardChoice
  <1>4. /\ x.context = c /\ x.slots = n /\ x.k = kv
        /\ x.nCpuMoe = None /\ x.override = Override(PlainLlama, table, d(layers))
    BY <1>3 DEF LlamaChoices, PlainLlama
  <1>5. x.override # None => NeedsMoeOffload(table, c, n, kv)
    BY <1>4 DEF Override, PlainLlama
  <1> QED BY <1>2, <1>4, <1>5 DEF SoundLlama

LEMMA LlamaWritten ==
    ASSUME WorkInv, Backend = "llamacpp", NEW q, Ready(q), NEW seen, NEW f \in ProfilesOf(q, seen)
    PROVE  \E x : /\ f = BuildLlama(At, x) /\ ~LlamaRejected(At, x)
                  /\ SoundLlama(q, IF q.made = None THEN None ELSE TableOf(q.made), x)
  <1> DEFINE table == IF q.made = None THEN None ELSE TableOf(q.made)
             chosen == IF q.cmd.kind = "run" THEN ScriptedLlama(q, table) ELSE WizardLlama(table)
  <1>1. PICK x \in chosen : f = BuildLlama(At, x) /\ ~LlamaRejected(At, x)
    <2>1. f \in LlamaProfiles(q, table)
      BY DEF ProfilesOf
    <2> HIDE DEF table
    <2>2. f \in {BuildLlama(At, choices) :
                     choices \in {y \in chosen : ~LlamaRejected(At, y)}}
      BY <2>1, Zenon DEF LlamaProfiles
    <2> HIDE DEF chosen
    <2> QED BY <2>2
  <1>2. CASE q.cmd.kind = "run"
    <2> HIDE DEF table
    <2>1. SoundLlama(q, table, x)
      BY <1>1, <1>2, LlamaScriptedIsSound
    <2> QED BY <1>1, <2>1 DEF table
  <1>3. CASE q.cmd.kind # "run"
    <2>1. q.made # None /\ OwnTable(q) /\ model \in Models /\ Begun(q)
      BY <1>3, FollowedAssumption DEF Ready, Required, WorkInv
    <2>2. table # None
      BY <2>1, OwnTableIs
    <2> HIDE DEF table
    <2>3. SoundLlama(q, table, x)
      BY <1>1, <1>3, <2>2, LlamaWizardIsSound
    <2> QED BY <1>1, <2>3 DEF table
  <1> QED BY <1>2, <1>3

\* The table of the files as they are.
LEMMA TheseFilesTell ==
    ASSUME TablesInv, WorkInv, Backend = "llamacpp", NEW q, Ready(q), OfTheseFiles(q)
    PROVE  LET size == SelectFiles(At).size
               limits == TableOf(q.made).limits
           IN  /\ DOMAIN limits = LlamaContexts(At)
               /\ \A c \in LlamaContexts(At) :
                     /\ DOMAIN limits[c] = Range(LlamaDtypes)
                     /\ \A d \in Range(LlamaDtypes) :
                           CellTells(At, RemainingKv(At, size, Vram, q.util), c, d, limits[c][d])
  <1>1. model \in Models /\ rev \in DOMAIN Attr[model]
    BY DEF TablesInv
  <1>2. q.made # None /\ Begun(q) /\ OwnTable(q)
    BY DEF OfTheseFiles, Ready
  <1>3. q.util \in Utils /\ q.util \in Nat
    <2>1. q.util \in Utils
      BY <1>2 DEF Begun
    <2> QED BY <2>1, UtilsAreNumbers
  <1>4. TableOf(q.made) = LlamaTable(At, Vram, q.util)
    <2>1. Tables[model][rev][rev][q.util][None]
              = Tuned(model, InfoOf(model, rev), rev, q.util, None)
      BY <1>1, <1>3 DEF Tables, Registries
    <2>2. Tuned(model, InfoOf(model, rev), rev, q.util, None) = LlamaTable(At, Vram, q.util)
      BY DEF Tuned, Backend, At
    <2> QED BY <2>1, <2>2 DEF OfTheseFiles
  <1>5. LlamaTable(At, Vram, q.util) # None
    BY <1>1, <1>2, <1>4, OwnTableIs
  <1>6. Header(At)
    BY <1>1, HeaderOf DEF Backend, At
  <1>7. LET table == LlamaTable(At, Vram, q.util)
            size == SelectFiles(At).size
        IN  size \in Nat \ {0} /\ table.limits = LlamaLimits(At, size, Vram, q.util)
    BY <1>3, <1>5, <1>6, LlamaTableIs
  <1> DEFINE size == SelectFiles(At).size
             room == RemainingKv(At, size, Vram, q.util)
  <1>8. LET limits == LlamaLimits(At, size, Vram, q.util)
        IN  /\ DOMAIN limits = LlamaContexts(At)
            /\ \A c \in LlamaContexts(At) :
                  /\ DOMAIN limits[c] = Range(LlamaDtypes)
                  /\ \A d \in Range(LlamaDtypes) : CellTells(At, room, c, d, limits[c][d])
    BY <1>3, <1>6, <1>7, LlamaCells
  <1> HIDE DEF room
  <1> QED BY <1>4, <1>7, <1>8 DEF room

\* What the largest complete variant of now leaves of the GPU.
Room(u) == RemainingKv(At, SelectFiles(At).size, Vram, u)

CellsExact(at, room, limits) ==
    \A c \in DOMAIN limits, d \in Range(LlamaDtypes) : CellExact(at, room, c, d, limits[c][d])

LEMMA TheseFilesAreExact ==
    ASSUME TablesInv, WorkInv, Backend = "llamacpp", NEW q, Ready(q), OfTheseFiles(q)
    PROVE  CellsExact(At, Room(q.util), TableOf(q.made).limits)
  <1> DEFINE limits == TableOf(q.made).limits
             room == Room(q.util)
  <1>1. model \in Models /\ rev \in DOMAIN Attr[model]
    BY DEF TablesInv
  <1>2. Header(At)
    BY <1>1, HeaderOf DEF Backend, At
  <1>3. q.made # None /\ Begun(q) /\ OwnTable(q)
    BY DEF OfTheseFiles, Ready
  <1>4. q.util \in Utils /\ q.util \in Nat
    <2>1. q.util \in Utils
      BY <1>3 DEF Begun
    <2> QED BY <2>1, UtilsAreNumbers
  <1>5. room \in Nat
    <2>1. TableOf(q.made) = LlamaTable(At, Vram, q.util)
      <3>1. Tables[model][rev][rev][q.util][None]
              = Tuned(model, InfoOf(model, rev), rev, q.util, None)
        BY <1>1, <1>4 DEF Tables, Registries
      <3>2. Tuned(model, InfoOf(model, rev), rev, q.util, None) = LlamaTable(At, Vram, q.util)
        BY DEF Tuned, Backend, At
      <3> QED BY <3>1, <3>2 DEF OfTheseFiles
    <2>2. LlamaTable(At, Vram, q.util) # None
      BY <1>1, <1>3, <2>1, OwnTableIs
    <2>3. SelectFiles(At).size \in Nat \ {0}
      BY <1>2, <1>4, <2>2, LlamaTableIs
    <2> QED BY <1>2, <1>4, <2>3, RoomIsANumber DEF Room
  <1>6. ASSUME NEW c \in DOMAIN limits, NEW d \in Range(LlamaDtypes)
        PROVE  CellExact(At, room, c, d, limits[c][d])
    <2>1. c \in LlamaContexts(At) /\ CellTells(At, room, c, d, limits[c][d])
      BY <1>6, TheseFilesTell DEF Room
    <2>2. c \in Nat
      BY <2>1, ContextsArePositive DEF LlamaContexts, MinCtx
    <2> HIDE DEF room, limits
    <2> QED BY <1>2, <1>5, <2>1, <2>2, CellsAreExact
  <1> HIDE DEF room, limits
  <1> QED BY <1>6 DEF CellsExact, room, limits

\* The slots of the profile that is written fit the memory that is left.
LEMMA LlamaSlotsNow ==
    ASSUME TablesInv, WorkInv, Backend = "llamacpp", NEW q, Ready(q), NEW seen, NEW f \in ProfilesOf(q, seen),
           SlotsFromTable(q), OfTheseFiles(q), f.k = f.v,
           Cell(TableOf(q.made).limits, f.context, f.k) # None
    PROVE  KvCacheSize(At, f.context, f.slots, f.k, f.v)
               <= RemainingKv(At, SelectFiles(At).size, Vram, q.util)
  <1> DEFINE limits == TableOf(q.made).limits
             room == RemainingKv(At, SelectFiles(At).size, Vram, q.util)
             c == f.context
             k == f.k
  <1>1. PICK x : /\ f = BuildLlama(At, x)
                 /\ SoundLlama(q, IF q.made = None THEN None ELSE TableOf(q.made), x)
    BY LlamaWritten
  <1>2. c = x.context /\ f.slots = x.slots /\ k = x.k
    BY <1>1 DEF BuildLlama
  <1>3. f.slots \in {1, SlotCeiling(limits, c, k)}
    BY <1>1, <1>2 DEF SoundLlama, OfTheseFiles
  <1>4. /\ c \in LlamaContexts(At) /\ k \in Range(LlamaDtypes)
        /\ Cell(limits, c, k) = limits[c][k]
        /\ CellTells(At, room, c, k, limits[c][k])
    <2>1. /\ DOMAIN limits = LlamaContexts(At)
          /\ \A e \in LlamaContexts(At) :
                /\ DOMAIN limits[e] = Range(LlamaDtypes)
                /\ \A d \in Range(LlamaDtypes) : CellTells(At, room, e, d, limits[e][d])
      BY TheseFilesTell
    <2> HIDE DEF limits, room, c, k
    <2>2. c \in DOMAIN limits /\ k \in DOMAIN limits[c] /\ Cell(limits, c, k) = limits[c][k]
      BY DEF Cell, limits, c, k
    <2> QED BY <2>1, <2>2
  <1>5. SlotCeiling(limits, c, k) = limits[c][k] /\ limits[c][k] # None
    <2> HIDE DEF limits, c, k
    <2>1. Cell(limits, c, k) # None
      BY DEF limits, c, k
    <2> QED BY <1>4, <2>1 DEF SlotCeiling
  <1> HIDE DEF limits, room, c, k
  <1>6. KvCacheSize(At, c, f.slots, k, k) <= room
    BY <1>3, <1>4, <1>5 DEF CellTells
  <1> QED BY <1>6 DEF room, c, k

\* The experts of a profile whose slots are its table's stay on a GPU that holds
\* every layer.
LEMMA ExpertsStay ==
    ASSUME WorkInv, Backend = "llamacpp", NEW q, Ready(q), NEW seen, NEW f \in ProfilesOf(q, seen),
           SlotsFromTable(q), q.made # None, TableOf(q.made).full, Unasked(q)
    PROVE  f.cpuMoe = None
  <1> DEFINE table == TableOf(q.made)
             limits == table.limits
             at == Attr[model][q.made.files]
             room == RemainingKv(at, SelectFiles(at).size, Vram, q.util)
  <1>1. PICK x : f = BuildLlama(At, x) /\ SoundLlama(q, table, x)
    BY LlamaWritten
  <1>2. /\ x.slots \in {1, SlotCeiling(limits, x.context, x.k)} /\ x.nCpuMoe = None
        /\ x.override # None => NeedsMoeOffload(table, x.context, x.slots, x.k)
    BY <1>1 DEF SoundLlama
  <1>3. /\ DOMAIN limits = LlamaContexts(at)
        /\ \A c \in LlamaContexts(at) :
              /\ DOMAIN limits[c] = Range(LlamaDtypes)
              /\ \A d \in Range(LlamaDtypes) : CellTells(at, room, c, d, limits[c][d])
    <2>1. model \in Models /\ Begun(q) /\ OwnTable(q)
      BY FollowedAssumption DEF WorkInv, Ready
    <2>2. LET size == SelectFiles(at).size
          IN  /\ Header(at) /\ size \in Nat \ {0} /\ q.util \in Nat
              /\ limits = LlamaLimits(at, size, Vram, q.util)
      BY <2>1, LlamaOwnTable
    <2> HIDE DEF at, limits
    <2> QED BY <2>2, LlamaCells
  <1> HIDE DEF limits, at, room
  <1>4. \A c, d : Cell(limits, c, d) # None => Cell(limits, c, d) \in 1 .. MaxParallel
    <2> SUFFICES ASSUME NEW c, NEW d, Cell(limits, c, d) # None
                 PROVE  Cell(limits, c, d) \in 1 .. MaxParallel
      OBVIOUS
    <2>1. c \in DOMAIN limits /\ d \in DOMAIN limits[c] /\ Cell(limits, c, d) = limits[c][d]
      BY DEF Cell
    <2>2. CellTells(at, room, c, d, limits[c][d])
      BY <1>3, <2>1
    <2> QED BY <2>1, <2>2 DEF CellTells
  <1>5. ~NeedsMoeOffload(table, x.context, x.slots, x.k)
    <2> DEFINE own == Cell(limits, x.context, x.k)
               cap == IF own # None THEN own ELSE Cell(limits, x.context, "f16")
    <2> SUFFICES ASSUME cap # None, x.slots > cap PROVE FALSE
      BY DEF NeedsMoeOffload, limits
    <2>1. SlotCeiling(limits, x.context, x.k) = cap
      BY DEF SlotCeiling
    <2>2. cap \in 1 .. MaxParallel
      BY <1>4
    <2> HIDE DEF cap
    <2>3. cap \in Nat /\ cap >= 1
      BY <2>2, CandidatesGrow
    <2> QED BY <1>2, <2>1, <2>3
  <1>6. x.nCpuMoe = None /\ x.override = None
    BY <1>2, <1>5
  <1>7. None # "experts"
    BY NoneAssumption
  <1> QED BY <1>1, <1>6, <1>7 DEF BuildLlama, CpuMoe

-----------------------------------------------------------------------------
(* The profiles of llama.cpp.                                                *)

\* What is known of what was written is known of who wrote it.
LEMMA WroteThis ==
    ASSUME UNCHANGED <<model, gpu, version, rev>>, NEW q, NEW f, written' = Wrote(q, f),
           NEW r \in Written("llamacpp")'
    PROVE  /\ Backend = "llamacpp" /\ At' = At
           /\ r.made = q.made /\ r.util = q.util /\ r.profile = f
           /\ TableOf(q.made)' = TableOf(q.made)
           /\ (SlotsFromTable(r) => SlotsFromTable(q)) /\ (Unasked(r) => Unasked(q))
           /\ OfTheseFiles(r)' => OfTheseFiles(q)
  <1>1. r = Wrote(q, f) /\ Backend = "llamacpp"
    BY DEF Written, Backend
  <1>2. r.cmd = q.cmd /\ r.made = q.made /\ r.util = q.util /\ r.profile = f
    BY <1>1 DEF Wrote
  <1>3. At' = At /\ TableOf(q.made)' = TableOf(q.made) /\ TableOf(r.made)' = TableOf(r.made)
    BY DEF At, TableOf
  <1>4. (SlotsFromTable(r) => SlotsFromTable(q)) /\ (Unasked(r) => Unasked(q))
    BY <1>2 DEF SlotsFromTable, Unasked
  <1>5. OfTheseFiles(r)' => OfTheseFiles(q)
    BY <1>2, <1>3 DEF OfTheseFiles
  <1> QED BY <1>1, <1>2, <1>3, <1>4, <1>5

\* The cells of the table that a profile was written from say how many slots fit.
SlotsAreExact ==
    \A r \in Written("llamacpp") :
        OfTheseFiles(r) => CellsExact(At, Room(r.util), TableOf(r.made).limits)

\* The slots a llama.cpp profile takes from its own column of the table fit the
\* memory that weights and reserve leave.
THEOREM LlamaSlotsHold == Spec => []LlamaSlotsFit
  <1>1. Init => LlamaSlotsFit
    BY DEF Init, LlamaSlotsFit, Written
  <1>2. TablesInv /\ WorkInv /\ LlamaSlotsFit /\ [Next]_vars => LlamaSlotsFit'
    <2> SUFFICES ASSUME TablesInv, WorkInv, LlamaSlotsFit, [Next]_vars PROVE LlamaSlotsFit'
      OBVIOUS
    <2>1. CASE written' = None
      BY <2>1 DEF LlamaSlotsFit, Written
    <2>2. CASE UNCHANGED vars
      BY <2>2 DEF LlamaSlotsFit, Written, vars, SlotsFromTable, OfTheseFiles, TableOf, At, Backend
    <2>3. ASSUME UNCHANGED <<model, gpu, version, rev>>, NEW q, NEW seen, NEW f \in ProfilesOf(q, seen),
                 Ready(q), written' = Wrote(q, f)
          PROVE  LlamaSlotsFit'
      <3> SUFFICES ASSUME NEW r \in Written("llamacpp")', SlotsFromTable(r), OfTheseFiles(r)',
                          r.profile.k = r.profile.v,
                          Cell(TableOf(r.made)'.limits, r.profile.context, r.profile.k) # None
                   PROVE  KvCacheSize(At', r.profile.context, r.profile.slots,
                                      r.profile.k, r.profile.v)
                              <= RemainingKv(At', SelectFiles(At').size, Vram, r.util)
        BY DEF LlamaSlotsFit
      <3>1. /\ Backend = "llamacpp" /\ At' = At /\ SlotsFromTable(q)
            /\ TableOf(q.made)' = TableOf(q.made) /\ OfTheseFiles(q)
            /\ r.made = q.made /\ r.util = q.util /\ r.profile = f
        BY <2>3, WroteThis
      <3> QED BY <2>3, <3>1, LlamaSlotsNow
    <2> QED BY <2>1, <2>2, <2>3, Writes
  <1> QED BY <1>1, <1>2, TablesInit, TablesStep, WorkInit, WorkStep, PTL DEF Spec

\* Every cell of the table a llama.cpp profile was written from is exact: as many
\* slots fit and none more, or none at all (_max_parallel_slots_for_context).
THEOREM CellsSayWhatFits == Spec => []SlotsAreExact
  <1>1. Init => SlotsAreExact
    BY DEF Init, SlotsAreExact, Written
  <1>2. TablesInv /\ WorkInv /\ SlotsAreExact /\ [Next]_vars => SlotsAreExact'
    <2> SUFFICES ASSUME TablesInv, WorkInv, SlotsAreExact, [Next]_vars PROVE SlotsAreExact'
      OBVIOUS
    <2>1. CASE written' = None
      BY <2>1 DEF SlotsAreExact, Written
    <2>2. CASE UNCHANGED vars
      <3> SUFFICES ASSUME NEW r \in Written("llamacpp")', OfTheseFiles(r)'
                   PROVE  CellsExact(At', Room(r.util)', TableOf(r.made)'.limits)
        BY DEF SlotsAreExact
      <3>1. /\ r \in Written("llamacpp") /\ OfTheseFiles(r)
            /\ At' = At /\ TableOf(r.made)' = TableOf(r.made)
        BY <2>2 DEF vars, Written, OfTheseFiles, TableOf, At, Backend
      <3>2. CellsExact(At, Room(r.util), TableOf(r.made).limits)
        BY <3>1 DEF SlotsAreExact
      <3> QED BY <3>1, <3>2 DEF Room
    <2>3. ASSUME UNCHANGED <<model, gpu, version, rev>>, NEW q, NEW seen, NEW f \in ProfilesOf(q, seen),
                 Ready(q), written' = Wrote(q, f)
          PROVE  SlotsAreExact'
      <3> SUFFICES ASSUME NEW r \in Written("llamacpp")', OfTheseFiles(r)'
                   PROVE  CellsExact(At', Room(r.util)', TableOf(r.made)'.limits)
        BY DEF SlotsAreExact
      <3>1. /\ Backend = "llamacpp" /\ At' = At
            /\ TableOf(q.made)' = TableOf(q.made) /\ OfTheseFiles(q)
            /\ r.made = q.made /\ r.util = q.util
        BY <2>3, WroteThis
      <3>2. CellsExact(At, Room(q.util), TableOf(q.made).limits)
        BY <2>3, <3>1, TheseFilesAreExact
      <3> QED BY <3>1, <3>2 DEF Room
    <2> QED BY <2>1, <2>2, <2>3, Writes
  <1> QED BY <1>1, <1>2, TablesInit, TablesStep, WorkInit, WorkStep, PTL DEF Spec

\* So with one slot more than the cell says the cache no longer fits.
THEOREM CellsAreMaximal == Spec => []SlotsAreMaximal
  <1>1. SlotsAreExact => SlotsAreMaximal
    <2> SUFFICES ASSUME SlotsAreExact, NEW r \in Written("llamacpp"), OfTheseFiles(r),
                        NEW c \in DOMAIN TableOf(r.made).limits, NEW d \in Range(LlamaDtypes)
                 PROVE  LET n == TableOf(r.made).limits[c][d]
                        IN  IF n = None THEN KvCacheSize(At, c, 1, d, d) \notin 1 .. Room(r.util)
                            ELSE n = MaxParallel \/ KvCacheSize(At, c, n + 1, d, d) > Room(r.util)
      BY DEF SlotsAreMaximal, Room
    <2> DEFINE n == TableOf(r.made).limits[c][d]
    <2>1. CellExact(At, Room(r.util), c, d, n)
      BY DEF SlotsAreExact, CellsExact
    <2> HIDE DEF n
    <2>2. 1 \in 1 .. MaxParallel
      BY DEF MaxParallel
    <2>3. \A m \in 1 .. MaxParallel : m # MaxParallel => m + 1 \in 1 .. MaxParallel /\ m + 1 > m
      BY DEF MaxParallel
    <2>4. IF n = None THEN KvCacheSize(At, c, 1, d, d) \notin 1 .. Room(r.util)
          ELSE n = MaxParallel \/ KvCacheSize(At, c, n + 1, d, d) > Room(r.util)
      BY <2>1, <2>2, <2>3 DEF CellExact
    <2> QED BY <2>4 DEF n
  <1> QED BY <1>1, CellsSayWhatFits, PTL

\* Nobody's experts are sent to the CPU unasked where the model fits the GPU and
\* the slots are the table's.
THEOREM OffloadHolds == Spec => []OffloadOnlyIfNeeded
  <1>1. Init => OffloadOnlyIfNeeded
    BY DEF Init, OffloadOnlyIfNeeded, Written
  <1>2. TablesInv /\ WorkInv /\ OffloadOnlyIfNeeded /\ [Next]_vars => OffloadOnlyIfNeeded'
    <2> SUFFICES ASSUME WorkInv, OffloadOnlyIfNeeded, [Next]_vars PROVE OffloadOnlyIfNeeded'
      OBVIOUS
    <2>1. CASE written' = None
      BY <2>1 DEF OffloadOnlyIfNeeded, Written
    <2>2. CASE UNCHANGED vars
      BY <2>2 DEF OffloadOnlyIfNeeded, Written, vars, SlotsFromTable, TableOf, Backend
    <2>3. ASSUME UNCHANGED <<model, gpu, version, rev>>, NEW q, NEW seen, NEW f \in ProfilesOf(q, seen),
                 Ready(q), written' = Wrote(q, f)
          PROVE  OffloadOnlyIfNeeded'
      <3> SUFFICES ASSUME NEW r \in Written("llamacpp")', SlotsFromTable(r), r.made # None,
                          TableOf(r.made)'.full, Unasked(r)
                   PROVE  r.profile.cpuMoe = None
        BY DEF OffloadOnlyIfNeeded, Unasked
      <3>1. /\ Backend = "llamacpp" /\ SlotsFromTable(q) /\ Unasked(q)
            /\ TableOf(q.made)' = TableOf(q.made)
            /\ r.made = q.made /\ r.profile = f
        BY <2>3, WroteThis
      <3> QED BY <2>3, <3>1, ExpertsStay
    <2> QED BY <2>1, <2>2, <2>3, Writes
  <1> QED BY <1>1, <1>2, TablesInit, TablesStep, WorkInit, WorkStep, PTL DEF Spec
=============================================================================
