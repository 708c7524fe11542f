------------------------ MODULE AdministrationProofs -------------------------
(***************************************************************************)
(* What administrators may rely on, for every number of requests and every *)
(* staff file: a weight matrix replaces the one that its request read, a   *)
(* stale cache has a cause, the rate limiter counts as it promises, and an *)
(* import of staff is whole, gives a phone one profile and a corporator    *)
(* one seat, and is forecast by its dry run.                               *)
(***************************************************************************)
EXTENDS MCAdministration, LifecycleProofs,
        FiniteSetTheorems, TLAPS

(***************************************************************************)
(* A request's own row is not in the table before its commit, and the row  *)
(* it is about to replace is.                                              *)
(***************************************************************************)
OwnRowIsNew ==
  \A q \in Setters :
    setting[q].at \in {"new", "read", "refused"} => matrix[q] = "absent"

ReplacedRowExists ==
  \A q \in Setters :
    setting[q].at = "read" /\ setting[q].replaces # NoMatrix =>
      matrix[setting[q].replaces] # "absent"

MatrixInv ==
  /\ matrix \in [Setters -> {"absent", "active", "inactive"}]
  /\ setting \in [Setters ->
       [at : {"new", "read", "committed", "refused", "done"},
        replaces : Setters \cup {NoMatrix}]]
  /\ OwnRowIsNew
  /\ ReplacedRowExists

------------------------------------------------------------------------------
(* The matrix that readers and setters find is an active one. *)
LEMMA ActiveIsCurrent ==
  /\ Current("matrix") \in Setters \cup {NoMatrix}
  /\ Current("matrix") # NoMatrix => matrix[Current("matrix")] = "active"
<1>1. CASE ActiveMatrices = {}
  BY <1>1 DEF Current
<1>2. CASE ActiveMatrices # {}
  <2>1. (CHOOSE q \in ActiveMatrices : TRUE) \in ActiveMatrices
    BY <1>2
  <2> QED
    BY <1>2, <2>1 DEF Current, ActiveMatrices
<1> QED
  BY <1>1, <1>2

(* A commit that the table takes. *)
Activates(q) ==
  /\ setting[q].at = "read"
  /\ ~ UniqueRefuses(q)
  /\ setting' = [setting EXCEPT ![q].at = "committed"]
  /\ matrix' = [r \in Setters |->
                  CASE r = q -> "active"
                    [] r = setting[q].replaces -> "inactive"
                    [] OTHER -> matrix[r]]

LEMMA ActivationReplaces ==
  ASSUME MatrixInv, NEW q \in Setters, Activates(q)
  PROVE  /\ ActiveMatrices \subseteq {setting[q].replaces}
         /\ ActiveMatrices' = {q}
         /\ MatrixInv'
<1>1. setting[q].replaces # q
  BY GovernanceConstants
     DEF MatrixInv, OwnRowIsNew, ReplacedRowExists, Activates
<1>2. \A r \in ActiveMatrices : r = setting[q].replaces
  BY DEF Activates, UniqueRefuses
<1>3. /\ matrix'[q] = "active"
      /\ \A r \in Setters : r = setting[q].replaces => matrix'[r] = "inactive"
      /\ \A r \in Setters : r # q /\ r # setting[q].replaces =>
                              matrix'[r] = matrix[r]
      /\ matrix' \in [Setters -> {"absent", "active", "inactive"}]
  BY <1>1 DEF MatrixInv, Activates
<1>4. ActiveMatrices' = {q}
  BY <1>1, <1>2, <1>3 DEF ActiveMatrices
<1>5. \A r \in Setters : /\ setting'[r].at = IF r = q THEN "committed"
                                                     ELSE setting[r].at
                         /\ setting'[r].replaces = setting[r].replaces
  BY DEF MatrixInv, Activates
<1>6. OwnRowIsNew'
  <2> SUFFICES ASSUME NEW r \in Setters,
                      setting'[r].at \in {"new", "read", "refused"}
               PROVE  matrix'[r] = "absent"
    BY DEF OwnRowIsNew
  <2>1. r # q /\ matrix[r] = "absent"
    BY <1>5 DEF MatrixInv, OwnRowIsNew
  <2>2. r # setting[q].replaces
    BY <2>1, GovernanceConstants DEF MatrixInv, ReplacedRowExists, Activates
  <2> QED
    BY <1>3, <2>1, <2>2
<1>7. ReplacedRowExists'
  BY <1>3, <1>5 DEF MatrixInv, ReplacedRowExists
<1>8. setting' \in [Setters ->
        [at : {"new", "read", "committed", "refused", "done"},
         replaces : Setters \cup {NoMatrix}]]
  BY DEF MatrixInv, Activates
<1> QED
  BY <1>2, <1>3, <1>4, <1>6, <1>7, <1>8 DEF MatrixInv

(***************************************************************************)
(* Every step takes a matrix, or lets one request go on and no row change. *)
(***************************************************************************)
LEMMA MatrixStepKinds ==
  ASSUME [GovernanceNext]_governanceVars
  PROVE  \/ UNCHANGED <<matrix, setting>>
         \/ \E q \in Setters :
              \/ Activates(q)
              \/ /\ UNCHANGED matrix
                 /\ \/ RefuseMatrix(q)
                    \/ ReadActiveMatrix(q)
                    \/ /\ setting[q].at = "read"
                       /\ setting' = [setting EXCEPT ![q].at = "refused"]
                    \/ FinishMatrix(q)
<1>1. CASE UNCHANGED governanceVars
  BY <1>1 DEF governanceVars
<1>2. CASE \E q \in Setters : RefuseMatrix(q) \/ FinishMatrix(q)
  BY <1>2 DEF RefuseMatrix, FinishMatrix
<1>3. CASE \E q \in Setters : ReadActiveMatrix(q)
  BY <1>3 DEF ReadActiveMatrix
<1>4. CASE \E q \in Setters : CommitMatrix(q)
  BY <1>4 DEF CommitMatrix, Activates
<1>5. CASE \E c \in Categories : ProposeCategory(c)
  BY <1>5 DEF ProposeCategory
<1>6. CASE \E a \in Approvers :
             \/ \E c \in Categories, rubric \in Rubrics :
                  ApproveCategory(a, c, rubric)
             \/ FinishApproval(a)
  BY <1>6 DEF ApproveCategory, FinishApproval
<1>7. CASE \E r \in Readers :
             (\E k \in Keys : ReadCache(r, k)) \/ Select(r) \/ StoreCache(r)
  BY <1>7 DEF ReadCache, Select, StoreCache
<1>8. CASE \E k \in Keys : ExpireKey(k)
  BY <1>8 DEF ExpireKey
<1> QED
  BY <1>1, <1>2, <1>3, <1>4, <1>5, <1>6, <1>7, <1>8 DEF GovernanceNext

(* The rows and the requests agree. *)
THEOREM MatrixInvariance == GovernanceSpec => []MatrixInv
<1>1. GovernanceInit => MatrixInv
  BY DEF GovernanceInit, MatrixInv, OwnRowIsNew, ReplacedRowExists, NewSetter
<1>2. MatrixInv /\ [GovernanceNext]_governanceVars => MatrixInv'
  <2> SUFFICES ASSUME MatrixInv, [GovernanceNext]_governanceVars
               PROVE  MatrixInv'
    OBVIOUS
  <2>1. CASE UNCHANGED <<matrix, setting>>
    BY <2>1 DEF MatrixInv, OwnRowIsNew, ReplacedRowExists
  <2>2. ASSUME NEW q \in Setters, UNCHANGED matrix, ReadActiveMatrix(q)
        PROVE  MatrixInv'
    BY <2>2, ActiveIsCurrent
       DEF MatrixInv, OwnRowIsNew, ReplacedRowExists, ReadActiveMatrix
  <2>3. ASSUME NEW q \in Setters, UNCHANGED matrix,
               \/ RefuseMatrix(q)
               \/ /\ setting[q].at = "read"
                  /\ setting' = [setting EXCEPT ![q].at = "refused"]
               \/ FinishMatrix(q)
        PROVE  MatrixInv'
    BY <2>3 DEF MatrixInv, OwnRowIsNew, ReplacedRowExists, RefuseMatrix,
                FinishMatrix
  <2> QED
    BY <2>1, <2>2, <2>3, ActivationReplaces, MatrixStepKinds
<1> QED
  BY <1>1, <1>2, PTL DEF GovernanceSpec

(***************************************************************************)
(* Whoever commits in between, a matrix that becomes active replaces       *)
(* exactly the one that its request had read.                              *)
(***************************************************************************)
THEOREM NoMatrixIsLost == GovernanceSpec => ReplacesWhatItRead
<1>1. ASSUME MatrixInv, [GovernanceNext]_governanceVars, NEW q \in Setters,
             matrix[q] # "active", matrix'[q] = "active"
      PROVE  /\ ActiveMatrices \subseteq {setting[q].replaces}
             /\ ActiveMatrices' = {q}
  <2>1. PICK r \in Setters : Activates(r)
    BY <1>1, MatrixStepKinds
  <2>2. /\ ActiveMatrices \subseteq {setting[r].replaces}
        /\ ActiveMatrices' = {r}
    BY <1>1, <2>1, ActivationReplaces
  <2>3. q \in ActiveMatrices'
    BY <1>1 DEF ActiveMatrices
  <2> QED
    BY <2>2, <2>3
<1>2. MatrixInv /\ [GovernanceNext]_governanceVars =>
        [ \A q \in Setters :
            matrix[q] # "active" /\ matrix'[q] = "active" =>
              /\ ActiveMatrices \subseteq {setting[q].replaces}
              /\ ActiveMatrices' = {q} ]_governanceVars
  BY <1>1
<1> QED
  BY <1>2, MatrixInvariance, PTL DEF ReplacesWhatItRead, GovernanceSpec

------------------------------------------------------------------------------
(***************************************************************************)
(* Stale caches.  A step either keeps what a key says and what it ought to *)
(* say, or leaves a writer that will delete it, or an excuse.              *)
(***************************************************************************)
Pending(k) ==
  IF k = "matrix" THEN \E q \in Setters : setting[q].at = "committed"
                  ELSE \E a \in Approvers : approving[a] = "committed"

Explained(k) == Stale(k) => excused[k] \/ Pending(k)

CacheInv ==
  /\ cache = [k \in Keys |-> cache[k]]
  /\ excused = [k \in Keys |-> excused[k]]
  /\ category = [c \in Categories |-> category[c]]
  /\ approving = [a \in Approvers |-> approving[a]]
  /\ setting \in [Setters ->
       [at : {"new", "read", "committed", "refused", "done"},
        replaces : Setters \cup {NoMatrix}]]
  /\ reading = [r \in Readers |-> reading[r]]
  /\ \A r \in Readers :
       /\ reading[r] = [f \in {"at", "key", "value"} |-> reading[r][f]]
       /\ reading[r].key \in Keys
  /\ \A k \in Keys : Explained(k)

LEMMA StaysExplained ==
  ASSUME NEW k, Explained(k), cache'[k] = cache[k], excused'[k] = excused[k],
         Current(k)' = Current(k), Pending(k) => Pending(k)'
  PROVE  Explained(k)'
BY DEF Explained, Stale

(* Each key has its own table, its own writers. *)
LEMMA SameTableSameAnswer ==
  /\ UNCHANGED matrix => Current("matrix")' = Current("matrix")
  /\ UNCHANGED category => Current("taxonomy")' = Current("taxonomy")
<1>1. ASSUME UNCHANGED matrix PROVE Current("matrix")' = Current("matrix")
  <2>1. ActiveMatrices' = ActiveMatrices
    BY <1>1 DEF ActiveMatrices
  <2> QED
    BY <2>1 DEF Current
<1>2. ASSUME UNCHANGED category
      PROVE  Current("taxonomy")' = Current("taxonomy")
  <2>1. Approved' = Approved
    BY <1>2 DEF Approved
  <2> QED
    BY <1>2, <2>1 DEF Current
<1> QED
  BY <1>1, <1>2

LEMMA SameWritersSamePending ==
  /\ UNCHANGED setting => Pending("matrix")' = Pending("matrix")
  /\ UNCHANGED approving => Pending("taxonomy")' = Pending("taxonomy")
BY DEF Pending

LEMMA SettersKeepInv ==
  ASSUME CacheInv, NEW q \in Setters,
         \/ RefuseMatrix(q) \/ ReadActiveMatrix(q) \/ CommitMatrix(q)
         \/ FinishMatrix(q)
  PROVE  CacheInv'
<1>1. /\ UNCHANGED <<category, approving, reading>>
      /\ cache'["taxonomy"] = cache["taxonomy"]
      /\ excused'["taxonomy"] = excused["taxonomy"]
      /\ cache' = [k \in Keys |-> cache'[k]]
      /\ excused' = [k \in Keys |-> excused'[k]]
  BY DEF CacheInv, RefuseMatrix, ReadActiveMatrix, CommitMatrix, FinishMatrix,
         Invalidate, LoseInvalidation, Keys
<1>2. setting' \in [Setters ->
        [at : {"new", "read", "committed", "refused", "done"},
         replaces : Setters \cup {NoMatrix}]]
  BY ActiveIsCurrent
     DEF CacheInv, RefuseMatrix, ReadActiveMatrix, CommitMatrix, FinishMatrix
<1>3. Explained("taxonomy")'
  BY <1>1, StaysExplained, SameTableSameAnswer, SameWritersSamePending
     DEF CacheInv, Keys
<1>4. Explained("matrix")'
  <2>1. CASE \/ RefuseMatrix(q) \/ ReadActiveMatrix(q)
             \/ CommitMatrix(q) /\ UNCHANGED matrix
    <3>1. /\ UNCHANGED <<matrix, cache, excused>>
          /\ \E s : setting' = [setting EXCEPT ![q] = s]
          /\ setting[q].at \in {"new", "read"}
      BY <2>1 DEF RefuseMatrix, ReadActiveMatrix, CommitMatrix
    <3>2. Pending("matrix") => Pending("matrix")'
      BY <3>1 DEF Pending, CacheInv
    <3> QED
      BY <3>1, <3>2, StaysExplained, SameTableSameAnswer DEF CacheInv, Keys
  <2>2. CASE CommitMatrix(q) /\ ~ UNCHANGED matrix
    <3>1. setting'[q].at = "committed"
      BY <2>2 DEF CommitMatrix, CacheInv
    <3> QED
      BY <3>1 DEF Explained, Pending
  <2>3. CASE FinishMatrix(q)
    <3>1. cache'["matrix"] = NoValue \/ excused'["matrix"]
      BY <2>3 DEF FinishMatrix, Invalidate, LoseInvalidation, CacheInv, Keys
    <3> QED
      BY <3>1 DEF Explained, Stale
  <2> QED
    BY <2>1, <2>2, <2>3
<1> QED
  BY <1>1, <1>2, <1>3, <1>4 DEF CacheInv, Keys

LEMMA TaxonomyKeepsInv ==
  ASSUME CacheInv,
         \/ \E c \in Categories : ProposeCategory(c)
         \/ \E a \in Approvers :
              \/ \E c \in Categories, rubric \in Rubrics :
                   ApproveCategory(a, c, rubric)
              \/ FinishApproval(a)
  PROVE  CacheInv'
<1>1. /\ UNCHANGED <<matrix, setting, reading>>
      /\ cache'["matrix"] = cache["matrix"]
      /\ excused'["matrix"] = excused["matrix"]
      /\ cache' = [k \in Keys |-> cache'[k]]
      /\ excused' = [k \in Keys |-> excused'[k]]
      /\ category' = [c \in Categories |-> category'[c]]
      /\ approving' = [a \in Approvers |-> approving'[a]]
  BY DEF CacheInv, ProposeCategory, ApproveCategory, FinishApproval,
         Invalidate, LoseInvalidation, Keys
<1>2. Explained("matrix")'
  BY <1>1, StaysExplained, SameTableSameAnswer, SameWritersSamePending
     DEF CacheInv, Keys
<1>3. Explained("taxonomy")'
  <2>1. ASSUME NEW c \in Categories, ProposeCategory(c)
        PROVE  Explained("taxonomy")'
    <3>1. \A d \in Categories :
            /\ category'[d] \in Rubrics <=> category[d] \in Rubrics
            /\ category[d] \in Rubrics => category'[d] = category[d]
      BY <2>1, GovernanceConstants DEF ProposeCategory, CacheInv
    <3>2. Approved' = Approved
      BY <3>1 DEF Approved
    <3>3. \A d \in Approved : category'[d] = category[d]
      BY <3>1 DEF Approved
    <3>4. Current("taxonomy")' = Current("taxonomy")
      BY <3>2, <3>3 DEF Current
    <3> QED
      BY <2>1, <3>4, StaysExplained, SameWritersSamePending
         DEF ProposeCategory, CacheInv, Keys
  <2>2. ASSUME NEW a \in Approvers, NEW c \in Categories, NEW rubric \in Rubrics,
               ApproveCategory(a, c, rubric)
        PROVE  Explained("taxonomy")'
    BY <2>2 DEF ApproveCategory, CacheInv, Explained, Pending
  <2>3. ASSUME NEW a \in Approvers, FinishApproval(a)
        PROVE  Explained("taxonomy")'
    <3>1. cache'["taxonomy"] = NoValue \/ excused'["taxonomy"]
      BY <2>3 DEF FinishApproval, Invalidate, LoseInvalidation, CacheInv, Keys
    <3> QED
      BY <3>1 DEF Explained, Stale
  <2> QED
    BY <2>1, <2>2, <2>3
<1> QED
  BY <1>1, <1>2, <1>3 DEF CacheInv, Keys

LEMMA ReadersKeepInv ==
  ASSUME CacheInv, NEW r \in Readers,
         (\E k \in Keys : ReadCache(r, k)) \/ Select(r) \/ StoreCache(r)
  PROVE  CacheInv'
<1>1. UNCHANGED <<matrix, category, setting, approving>>
  BY DEF ReadCache, Select, StoreCache
<1>2. ASSUME NEW k \in Keys
      PROVE  Current(k)' = Current(k) /\ Pending(k)' = Pending(k)
  BY <1>1, SameTableSameAnswer, SameWritersSamePending DEF Keys
<1>3. CASE (\E k \in Keys : ReadCache(r, k)) \/ Select(r)
  <2>1. UNCHANGED <<cache, excused>>
    BY <1>3 DEF ReadCache, Select
  <2> DEFINE Goes == \E d : /\ reading' = [reading EXCEPT ![r] = d]
                           /\ d = [f \in {"at", "key", "value"} |-> d[f]]
                           /\ d.key \in Keys
  <2>2. Goes
    <3>1. reading[r] = [f \in {"at", "key", "value"} |-> reading[r][f]]
          /\ reading[r].key \in Keys
      BY DEF CacheInv
    <3>2. ASSUME NEW k \in Keys, ReadCache(r, k) PROVE Goes
      <4> DEFINE d == [reading[r] EXCEPT !.at = "missed", !.key = k]
      <4>1. reading' = [reading EXCEPT ![r] = d]
        BY <3>2 DEF ReadCache
      <4>2. d = [f \in {"at", "key", "value"} |-> d[f]] /\ d.key \in Keys
        BY <3>1
      <4> QED
        BY <4>1, <4>2
    <3>3. CASE Select(r)
      <4> DEFINE v == Current(reading[r].key)
                 d == [reading[r] EXCEPT !.at = "selected", !.value = v]
      <4>1. reading' = [reading EXCEPT ![r] = d]
        BY <3>3 DEF Select
      <4> HIDE DEF v
      <4>2. d = [f \in {"at", "key", "value"} |-> d[f]] /\ d.key \in Keys
        BY <3>1
      <4> QED
        BY <4>1, <4>2
    <3> QED
      BY <1>3, <3>2, <3>3
  <2>3. /\ reading' = [s \in Readers |-> reading'[s]]
        /\ \A s \in Readers :
             /\ reading'[s] = [f \in {"at", "key", "value"} |-> reading'[s][f]]
             /\ reading'[s].key \in Keys
    BY <2>2 DEF CacheInv
  <2>4. \A k \in Keys : Explained(k)'
    BY <1>2, <2>1, StaysExplained DEF CacheInv
  <2> QED
    BY <1>1, <2>1, <2>3, <2>4 DEF CacheInv
<1>4. CASE StoreCache(r)
  <2>1. reading' = [reading EXCEPT ![r] = NewReader]
    BY <1>4 DEF StoreCache
  <2>2. /\ reading' = [s \in Readers |-> reading'[s]]
        /\ \A s \in Readers :
             /\ reading'[s] = [f \in {"at", "key", "value"} |-> reading'[s][f]]
             /\ reading'[s].key \in Keys
    BY <2>1 DEF CacheInv, NewReader, Keys
  <2> DEFINE j == reading[r].key
             v == reading[r].value
  <2>3. \/ UNCHANGED <<cache, excused>>
        \/ /\ cache' = [cache EXCEPT ![j] = Cached(v)]
           /\ excused' = [excused EXCEPT ![j] = v # Current(j)]
    BY <1>4 DEF StoreCache, Fill
  <2>4. j \in Keys
    BY DEF CacheInv
  <2> HIDE DEF j, v
  <2>5. /\ cache' = [k \in Keys |-> cache'[k]]
        /\ excused' = [k \in Keys |-> excused'[k]]
    BY <2>3 DEF CacheInv
  <2>6. ASSUME NEW k \in Keys PROVE Explained(k)'
    <3>1. CASE UNCHANGED <<cache, excused>> \/ k # j
      <4>1. cache'[k] = cache[k] /\ excused'[k] = excused[k]
        BY <2>3, <3>1 DEF CacheInv
      <4> QED
        BY <1>2, <4>1, StaysExplained DEF CacheInv
    <3>2. CASE ~ UNCHANGED <<cache, excused>> /\ k = j
      <4>1. cache'[k].value = v /\ excused'[k] = (v # Current(k))
        BY <2>3, <3>2 DEF CacheInv, Cached
      <4> QED
        BY <1>2, <4>1 DEF Explained, Stale
    <3> QED
      BY <3>1, <3>2
  <2> QED
    BY <1>1, <2>2, <2>5, <2>6 DEF CacheInv
<1> QED
  BY <1>3, <1>4

LEMMA ExpiryKeepsInv ==
  ASSUME CacheInv, NEW j \in Keys, ExpireKey(j)
  PROVE  CacheInv'
<1>1. /\ UNCHANGED <<matrix, category, setting, approving, reading>>
      /\ cache' = [cache EXCEPT ![j] = NoValue]
      /\ excused' = [excused EXCEPT ![j] = FALSE]
  BY DEF ExpireKey
<1>2. ASSUME NEW k \in Keys PROVE Explained(k)'
  <2>1. Current(k)' = Current(k) /\ Pending(k)' = Pending(k)
    BY <1>1, SameTableSameAnswer, SameWritersSamePending DEF Keys
  <2>2. CASE k = j
    BY <1>1, <2>2 DEF CacheInv, Explained, Stale
  <2>3. CASE k # j
    BY <1>1, <2>1, <2>3, StaysExplained DEF CacheInv
  <2> QED
    BY <2>2, <2>3
<1> QED
  BY <1>1, <1>2 DEF CacheInv

(***************************************************************************)
(* A cached answer that the database no longer gives has a writer about to *)
(* delete it, a delete that was lost, or a reader that was overtaken.      *)
(***************************************************************************)
THEOREM StaleIsExplained == GovernanceSpec => []StaleOnlyIfExcused
<1>1. GovernanceInit => CacheInv
  BY DEF GovernanceInit, CacheInv, Explained, Stale, NewSetter, NewReader, Keys
<1>2. CacheInv /\ UNCHANGED governanceVars => CacheInv'
  <2> SUFFICES ASSUME CacheInv, UNCHANGED governanceVars PROVE CacheInv'
    OBVIOUS
  <2>1. UNCHANGED <<matrix, category, cache, setting, approving, reading, excused>>
    BY DEF governanceVars
  <2>2. \A k \in Keys : Explained(k)'
    BY <2>1, StaysExplained, SameTableSameAnswer, SameWritersSamePending
       DEF CacheInv, Keys
  <2> QED
    BY <2>1, <2>2 DEF CacheInv
<1>3. CacheInv /\ [GovernanceNext]_governanceVars => CacheInv'
  BY <1>2, SettersKeepInv, TaxonomyKeepsInv, ReadersKeepInv, ExpiryKeepsInv
     DEF GovernanceNext
<1>4. CacheInv => StaleOnlyIfExcused
  BY DEF CacheInv, Explained, Pending, StaleOnlyIfExcused, Keys
<1> QED
  BY <1>1, <1>3, <1>4, PTL DEF GovernanceSpec

------------------------------------------------------------------------------
(* The counter, the admitted and the bounds have their types. *)
THEOREM RateTypes == RateSpec => []RateTypeOK
<1> DEFINE Numbers == /\ counter \in 0..MaxCount
                      /\ owing \subseteq Callers
                      /\ admitted \in 0..counter
                      /\ faults \in 0..MaxFaults
           Limited == ttl \in BOOLEAN /\ (ttl => counter > 0)
<1>1. RateTypeOK <=> Numbers /\ Limited
  BY DEF RateTypeOK
<1>2. RateInit => Numbers
  BY RateConstants DEF RateInit
<1>3. RateInit => Limited
  BY Zenon DEF RateInit
<1>4. ASSUME Numbers, [RateNext]_rateVars PROVE Numbers'
  <2>1. CASE UNCHANGED rateVars
    BY <1>4, <2>1 DEF rateVars
  <2>2. ASSUME NEW c \in Callers, Incr(c) PROVE Numbers'
    BY <1>4, <2>2, RateConstants DEF Incr
  <2>3. ASSUME NEW c \in Callers, Expire(c) PROVE Numbers'
    <3>1. faults' \in {faults, faults + 1}
          /\ (faults' = faults + 1 => faults < MaxFaults)
      BY <1>4, <2>3 DEF Expire
    <3>2. owing' \subseteq owing /\ UNCHANGED <<counter, admitted>>
      BY <2>3 DEF Expire
    <3> QED
      BY <1>4, <3>1, <3>2, RateConstants
  <2>4. CASE WindowOver
    BY <1>4, <2>4, RateConstants DEF WindowOver
  <2> QED
    BY <1>4, <2>1, <2>2, <2>3, <2>4 DEF RateNext
<1>5. ASSUME Numbers, Limited, [RateNext]_rateVars PROVE Limited'
  <2>1. CASE UNCHANGED rateVars
    BY <1>5, <2>1 DEF rateVars
  <2>2. ASSUME NEW c \in Callers, Incr(c) PROVE Limited'
    <3>1. counter' > 0
      BY <1>5, <2>2, RateConstants DEF Incr
    <3> QED
      BY <1>5, <2>2, <3>1, Zenon DEF Incr
  <2>3. ASSUME NEW c \in Callers, Expire(c) PROVE Limited'
    <3>1. counter' = counter
      BY <2>3 DEF Expire
    <3>2. CASE ttl' = ttl
      BY <1>5, <3>1, <3>2, Zenon
    <3>3. CASE ttl' = (counter > 0)
      <4>1. (counter > 0) \in BOOLEAN
        BY <1>5, SMT
      <4> QED
        BY <3>1, <3>3, <4>1, Zenon
    <3> QED
      BY <2>3, <3>2, <3>3, Zenon DEF Expire
  <2>4. CASE WindowOver
    BY <2>4, Zenon DEF WindowOver
  <2> QED
    BY <1>5, <2>1, <2>2, <2>3, <2>4 DEF RateNext
<1> QED
  BY <1>1, <1>2, <1>3, <1>4, <1>5, PTL DEF RateSpec

(***************************************************************************)
(* However requests interleave and whichever EXPIRE is lost, a window lets *)
(* through the limit of the requests it counted, no more and no fewer.     *)
(***************************************************************************)
THEOREM LimitIsExact == RateSpec => []WindowAdmitsTheLimit
<1>1. RateInit => WindowAdmitsTheLimit
  BY RateConstants DEF RateInit, WindowAdmitsTheLimit
<1>2. RateTypeOK /\ WindowAdmitsTheLimit /\ [RateNext]_rateVars
        => WindowAdmitsTheLimit'
  BY RateConstants
     DEF RateTypeOK, WindowAdmitsTheLimit, RateNext, rateVars, Incr, Expire,
         WindowOver, OverLimit
<1> QED
  BY <1>1, <1>2, RateTypes, PTL DEF RateSpec

------------------------------------------------------------------------------
(***************************************************************************)
(* The import of staff.  done: the rows of an import that have their       *)
(* profile; each profile is that of its row.                               *)
(***************************************************************************)
InsertedRows(q, m) == {k \in m.plan : \E p \in m.profiles : p.id = <<q, k>>}

RowProfile(q, m, k) == Profile(q, k, Rows[m.file][k])

SeatsOf(rows) == {[ward |-> p.ward, user |-> p.id] :
                    p \in {p \in rows : p.role = "corporator"}}

HasAccount(p, held) == \E a \in held : a.id = p.id /\ a.phone = p.phone

IsCorporator(m, k) == Rows[m.file][k].role = "corporator"

(* A real plan takes no ward twice; every row of it may be created. *)
PlanOK(m) ==
  /\ m.plan \subseteq DOMAIN Rows[m.file]
  /\ \A k \in m.plan :
       /\ HasIdentity(Rows[m.file][k])
       /\ IsCorporator(m, k) => Rows[m.file][k].ward \in WardNumbers
  /\ ~ m.dry =>
       \A j, k \in m.plan :
         IsCorporator(m, j) /\ IsCorporator(m, k)
           /\ Rows[m.file][j].ward = Rows[m.file][k].ward
             => j = k

(* The rows were judged on what the import had read. *)
IsJudged(m) == m.plan = Created(m.file, m.dry, m.known)

IsImport(m) ==
  /\ m = [at |-> m.at, file |-> m.file, dry |-> m.dry, plan |-> m.plan,
          known |-> m.known, certain |-> m.certain, profiles |-> m.profiles,
          seats |-> m.seats, pending |-> m.pending]
  /\ m.at \in {"new", "admitted", "listed", "planned", "answered", "done"}
  /\ m.at \notin {"new", "done"} => m.file \in Files /\ m.dry \in BOOLEAN

(* The row whose profile is due. *)
IsNext(q, m, k) ==
  /\ k \in m.plan \ InsertedRows(q, m)
  /\ \A j \in m.plan : j < k => j \in InsertedRows(q, m)

ImportOK(q, m, held) ==
  /\ IsImport(m)
  /\ m.at \in {"new", "admitted", "listed", "done"} \/ m.dry =>
       m.profiles = {} /\ m.seats = {} /\ m.pending = {}
  /\ m.at \in {"planned", "answered"} => PlanOK(m) /\ IsJudged(m)
  /\ m.profiles = {RowProfile(q, m, k) : k \in InsertedRows(q, m)}
  /\ m.seats \cup m.pending = SeatsOf(m.profiles)
  /\ \A p \in m.profiles : HasAccount(p, held)
  /\ m.at = "answered" =>
       /\ ~ m.dry
       /\ \E k \in m.plan : IsNext(q, m, k)
       /\ m.certain =>
            \A k : IsNext(q, m, k) => HasAccount(RowProfile(q, m, k), held)

AccountsOK == \A a, b \in accounts : a.phone = b.phone => a = b

ProfilesOK ==
  /\ \A p \in profiles :
       /\ p.id[1] \in Imports /\ importing[p.id[1]].at = "done"
       /\ HasAccount(p, accounts)
       /\ p.role \in AllowedBulkRoles /\ p.phone # Malformed
       /\ p.role = "corporator" => p.ward \in WardNumbers
  /\ \A p, r \in profiles : p.id = r.id => p = r

SeatsOK ==
  /\ seats = SeatsOf(profiles)
  /\ \A s, t \in seats : s.ward = t.ward => s = t
  /\ \A q \in Imports : \A s \in importing[q].seats :
       /\ \A t \in seats : t.ward # s.ward
       /\ \A r \in Imports \ {q} : \A t \in importing[r].seats : t.ward # s.ward

ProfilesBy(q) == {p \in profiles : p.id[1] = q}

LogsOK ==
  /\ \A l \in logs :
       /\ l.by \in Imports /\ l.file \in Files
       /\ importing[l.by].at = "done"
  /\ \A l, m \in logs : l.by = m.by => l = m
  /\ \A l, m \in logs : ~ l.dry /\ ~ m.dry /\ l.file = m.file => l = m
  /\ \A q \in Imports :
       IF \E l \in logs : l.by = q /\ ~ l.dry
         THEN \E l \in logs : l.by = q /\ l.created = Cardinality(ProfilesBy(q))
         ELSE ProfilesBy(q) = {}

(***************************************************************************)
(* The rows that an answer lists were judged on what the import had read,  *)
(* and those of a real import have their profiles.                         *)
(***************************************************************************)
AnswersOK ==
  \A l \in logs :
    /\ l.dry \in BOOLEAN
    /\ l.rows = Created(l.file, l.dry, l.known)
    /\ ~ l.dry => l.rows = Done(l.by)

ImportInv ==
  /\ importing = [q \in Imports |-> importing[q]]
  /\ departments \subseteq DepartmentCodes
  /\ \A q \in Imports : ImportOK(q, importing[q], accounts)
  /\ AccountsOK /\ ProfilesOK /\ SeatsOK /\ LogsOK /\ AnswersOK

------------------------------------------------------------------------------
(***************************************************************************)
(* What the numbers of an import say: it has as many profiles as rows that *)
(* have one, and while there are fewer than planned, there is a next row.  *)
(***************************************************************************)
LEMMA CountInserted ==
  ASSUME NEW q, NEW m, IsFiniteSet(m.plan),
         m.profiles = {RowProfile(q, m, k) : k \in InsertedRows(q, m)}
  PROVE  /\ IsFiniteSet(m.profiles)
         /\ Cardinality(m.plan) \in Nat /\ Cardinality(m.profiles) \in Nat
         /\ Cardinality(m.profiles) <= Cardinality(m.plan)
         /\ Cardinality(m.profiles) = Cardinality(m.plan)
              <=> InsertedRows(q, m) = m.plan
<1>1. PICK rows : rows = InsertedRows(q, m)
  OBVIOUS
<1>2. rows \in SUBSET m.plan
  BY <1>1 DEF InsertedRows
<1>3. PICK f : f = [k \in rows |-> RowProfile(q, m, k)]
  OBVIOUS
<1>4. f \in Surjection(rows, m.profiles)
  BY <1>1, <1>3 DEF Surjection
<1>5. f \in Injection(rows, m.profiles)
  <2>1. \A j, k \in rows : f[j] = f[k] => <<q, j>> = <<q, k>>
    BY <1>3 DEF RowProfile, Profile
  <2> QED
    BY <1>4, <2>1 DEF Surjection, Injection, IsInjective
<1>6. /\ IsFiniteSet(rows) /\ Cardinality(rows) <= Cardinality(m.plan)
      /\ Cardinality(m.plan) = Cardinality(rows) => m.plan = rows
  BY <1>2, FS_Subset
<1>7. IsFiniteSet(m.profiles) /\ Cardinality(m.profiles) = Cardinality(rows)
  BY <1>4, <1>5, <1>6, FS_Surjection
<1>8. /\ Cardinality(m.plan) \in Nat /\ Cardinality(m.profiles) \in Nat
      /\ Cardinality(rows) \in Nat
  BY <1>6, <1>7, FS_CardinalityType
<1> QED
  BY <1>1, <1>6, <1>7, <1>8

LEMMA PlanIsFinite ==
  ASSUME NEW m, m.file \in Files, PlanOK(m)
  PROVE  IsFiniteSet(m.plan) /\ m.plan \in SUBSET Nat
<1>1. IsFiniteSet(DOMAIN Rows[m.file]) /\ DOMAIN Rows[m.file] \subseteq Nat
  BY ImportConstants
<1>2. m.plan \in SUBSET DOMAIN Rows[m.file]
  BY DEF PlanOK
<1> QED
  BY <1>1, <1>2, FS_Subset

LEMMA NextRowExists ==
  ASSUME NEW q, NEW m, m.file \in Files, PlanOK(m),
         m.profiles = {RowProfile(q, m, k) : k \in InsertedRows(q, m)},
         Cardinality(m.profiles) < Cardinality(m.plan)
  PROVE  \E k \in m.plan : IsNext(q, m, k)
<1>1. IsFiniteSet(m.plan) /\ m.plan \in SUBSET Nat
  BY PlanIsFinite
<1>2. InsertedRows(q, m) # m.plan
  BY <1>1, CountInserted
<1>3. PICK rest : rest = m.plan \ InsertedRows(q, m)
  OBVIOUS
<1>4. rest \in SUBSET Nat /\ rest # {}
  BY <1>1, <1>2, <1>3 DEF InsertedRows
<1>5. PICK k \in rest : \A j \in rest : k <= j
  BY <1>4, LeastExists
<1>6. ASSUME NEW j \in m.plan, j < k PROVE j \in InsertedRows(q, m)
  <2>1. j \in Nat /\ k \in Nat
    BY <1>1, <1>4
  <2>2. ~ (k <= j)
    BY <1>6, <2>1
  <2> QED
    BY <1>3, <1>5, <2>2
<1> QED
  BY <1>3, <1>5, <1>6 DEF IsNext

(* The CHOOSE of NextRow is that row. *)
LEMMA NextRowIsNext ==
  ASSUME NEW q, \E k \in importing[q].plan : IsNext(q, importing[q], k)
  PROVE  IsNext(q, importing[q], NextRow(q)) /\ NextRow(q) \in importing[q].plan
<1>1. \A j \in importing[q].plan :
        j \in InsertedRows(q, importing[q])
          <=> <<q, j>> \in {p.id : p \in importing[q].profiles}
  BY DEF InsertedRows
<1>2. \E k \in importing[q].plan :
        /\ <<q, k>> \notin {p.id : p \in importing[q].profiles}
        /\ \A j \in importing[q].plan :
             j < k => <<q, j>> \in {p.id : p \in importing[q].profiles}
  BY <1>1 DEF IsNext
<1>3. /\ NextRow(q) \in importing[q].plan
      /\ <<q, NextRow(q)>> \notin {p.id : p \in importing[q].profiles}
      /\ \A j \in importing[q].plan :
           j < NextRow(q) => <<q, j>> \in {p.id : p \in importing[q].profiles}
  BY <1>2 DEF NextRow
<1> QED
  BY <1>1, <1>3 DEF IsNext

------------------------------------------------------------------------------
(***************************************************************************)
(* What a run would create, whatever the tables hold: a real plan takes no *)
(* ward twice.                                                             *)
(***************************************************************************)
LEMMA CreatedIsPlanOK ==
  ASSUME NEW m, m.file \in Files, m.dry \in BOOLEAN, IsJudged(m)
  PROVE  PlanOK(m)
<1>1. DOMAIN Rows[m.file] \subseteq Nat
  BY ImportConstants
<1>2. \A k \in m.plan : k \in DOMAIN Rows[m.file] /\ IsSound(m.file, k, m.known)
  BY DEF Created, IsJudged
<1>3. \A k \in m.plan :
        /\ HasIdentity(Rows[m.file][k])
        /\ IsCorporator(m, k) => Rows[m.file][k].ward \in WardNumbers
  BY <1>2 DEF IsSound, HasScope, IsCorporator
<1>4. ASSUME ~ m.dry, NEW j \in m.plan, NEW k \in m.plan, j < k,
             IsCorporator(m, j), IsCorporator(m, k)
      PROVE  Rows[m.file][j].ward # Rows[m.file][k].ward
  BY <1>2, <1>4 DEF Created, IsCorporator, IsJudged
<1>5. ASSUME ~ m.dry, NEW j \in m.plan, NEW k \in m.plan,
             IsCorporator(m, j), IsCorporator(m, k),
             Rows[m.file][j].ward = Rows[m.file][k].ward
      PROVE  j = k
  <2>1. j \in Nat /\ k \in Nat
    BY <1>1, <1>2
  <2>2. ~ (j < k) /\ ~ (k < j)
    BY <1>4, <1>5
  <2> QED
    BY <2>1, <2>2
<1> QED
  BY <1>2, <1>3, <1>5 DEF PlanOK

(***************************************************************************)
(* The rows a dry run finds good are those the import creates and, of the  *)
(* others, only corporators whose ward an earlier row of the file takes.   *)
(***************************************************************************)
Forecasts(f, dry, real) ==
  /\ real \subseteq dry
  /\ \A k \in dry \ real : SameWardBefore(f, k, real)

(* Judged on the same, for any directory and any wards taken. *)
LEMMA ForecastHolds ==
  ASSUME NEW f \in Files, NEW known,
         NEW real, real = Created(f, FALSE, known),
         NEW dry, dry = Created(f, TRUE, known)
  PROVE  Forecasts(f, dry, real)
<1>1. real = Created(f, FALSE, known)
  OBVIOUS
<1>2. dry = Created(f, TRUE, known)
  OBVIOUS
<1>3. DOMAIN Rows[f] \subseteq Nat
  BY ImportConstants
<1>4. real \subseteq dry
  BY <1>1, <1>2 DEF Created
<1>5. ASSUME NEW k \in dry \ real
      PROVE  SameWardBefore(f, k, real)
  <2>1. /\ k \in DOMAIN Rows[f] /\ IsSound(f, k, known)
        /\ Rows[f][k].role = "corporator" => Rows[f][k].ward \notin known.wards
    BY <1>2 DEF Created
  <2>2. PICK rivals :
          rivals = {j \in DOMAIN Rows[f] :
                      /\ j < k /\ IsSound(f, j, known)
                      /\ Rows[f][j].role = "corporator"
                      /\ Rows[f][j].ward = Rows[f][k].ward}
    OBVIOUS
  <2>3. Rows[f][k].role = "corporator" /\ rivals # {}
    BY <1>1, <2>1, <2>2 DEF Created
  <2>4. rivals \in SUBSET Nat
    BY <1>3, <2>2
  <2>5. PICK j \in rivals : \A i \in rivals : j <= i
    BY <2>3, <2>4, LeastExists
  <2>6. ASSUME NEW i \in DOMAIN Rows[f], i < j, IsSound(f, i, known),
               Rows[f][i].role = "corporator"
        PROVE  Rows[f][i].ward # Rows[f][j].ward
    <3>1. i \in Nat /\ j \in Nat /\ k \in Nat
      BY <1>3, <2>1, <2>4
    <3>2. i < k /\ ~ (j <= i)
      BY <2>2, <2>6, <3>1
    <3> QED
      BY <2>2, <2>5, <2>6, <3>2
  <2>7. j \in real
    BY <1>1, <2>1, <2>2, <2>3, <2>6 DEF Created
  <2> QED
    BY <2>2, <2>3, <2>7 DEF SameWardBefore
<1> QED
  BY <1>4, <1>5 DEF Forecasts

------------------------------------------------------------------------------
(* A transaction without profiles. *)
LEMMA EmptyImportOK ==
  ASSUME NEW q, NEW m, NEW held, IsImport(m), m.at # "answered",
         m.at = "planned" => PlanOK(m) /\ IsJudged(m),
         m.profiles = {}, m.seats = {}, m.pending = {}
  PROVE  ImportOK(q, m, held)
<1>1. InsertedRows(q, m) = {}
  BY DEF InsertedRows
<1>2. {RowProfile(q, m, k) : k \in InsertedRows(q, m)} = {}
  BY <1>1
<1>3. SeatsOf(m.profiles) = {}
  BY DEF SeatsOf
<1> QED
  BY <1>2, <1>3 DEF ImportOK, IsImport

LEMMA EndedIsOK ==
  ASSUME NEW q, NEW held
  PROVE  /\ ImportOK(q, EndedImport, held) /\ ImportOK(q, NewImport, held)
         /\ EndedImport.at = "done" /\ EndedImport.seats = {}
<1>1. PICK new : new = NewImport
  OBVIOUS
<1>2. PICK ended : ended = [new EXCEPT !.at = "done"]
  OBVIOUS
<1>3. /\ IsImport(new) /\ new.at = "new"
      /\ new.profiles = {} /\ new.seats = {} /\ new.pending = {}
  BY <1>1 DEF NewImport, IsImport
<1>4. /\ IsImport(ended) /\ ended.at = "done"
      /\ ended.profiles = {} /\ ended.seats = {} /\ ended.pending = {}
  BY <1>2, <1>3 DEF IsImport
<1>5. ended = EndedImport
  BY <1>1, <1>2 DEF EndedImport
<1> QED
  BY <1>1, <1>3, <1>4, <1>5, EmptyImportOK

LEMMA MoreAccounts ==
  ASSUME NEW q, NEW m, NEW held, NEW more, ImportOK(q, m, held),
         held \subseteq more
  PROVE  ImportOK(q, m, more)
<1>1. \A p : HasAccount(p, held) => HasAccount(p, more)
  BY DEF HasAccount
<1> QED
  BY <1>1 DEF ImportOK

LEMMA ImportInvInit == ImportInit => ImportInv
<1> SUFFICES ASSUME ImportInit PROVE ImportInv
  OBVIOUS
<1>1. \A q \in Imports : importing[q] = NewImport
  BY DEF ImportInit
<1>2. \A q \in Imports : ImportOK(q, importing[q], accounts)
  BY <1>1, EndedIsOK
<1>3. AccountsOK
  BY DEF ImportInit, AccountsOK
<1>4. ProfilesOK
  BY DEF ImportInit, ProfilesOK
<1>5. SeatsOK
  BY <1>1 DEF ImportInit, SeatsOK, SeatsOf, NewImport
<1>6. LogsOK
  BY DEF ImportInit, LogsOK, ProfilesBy
<1>7. AnswersOK
  BY DEF ImportInit, AnswersOK
<1> QED
  BY <1>2, <1>3, <1>4, <1>5, <1>6, <1>7 DEF ImportInit, ImportInv

(***************************************************************************)
(* One import moves and commits nothing.  The wards of the seats that it   *)
(* has flushed are taken by nobody else.                                   *)
(***************************************************************************)
FlushedApart(q, m) ==
  \A s \in m.seats :
    /\ \A t \in seats : t.ward # s.ward
    /\ \A r \in Imports \ {q} : \A t \in importing[r].seats : t.ward # s.ward

LEMMA ImportMoves ==
  ASSUME ImportInv, NEW q \in Imports, NEW m, ImportOK(q, m, accounts'),
         FlushedApart(q, m), importing[q].at = "done" => m.at = "done",
         importing' = [importing EXCEPT ![q] = m],
         accounts \subseteq accounts', AccountsOK',
         UNCHANGED <<profiles, seats, logs, departments>>
  PROVE  ImportInv'
<1>1. /\ importing' = [r \in Imports |-> importing'[r]]
      /\ importing'[q] = m
      /\ \A r \in Imports \ {q} : importing'[r] = importing[r]
  BY DEF ImportInv
<1>2. \A r \in Imports : importing[r].at = "done" => importing'[r].at = "done"
  BY <1>1
<1>3. ASSUME NEW r \in Imports PROVE ImportOK(r, importing'[r], accounts')
  <2>1. CASE r = q
    BY <1>1, <2>1
  <2>2. CASE r # q
    <3>1. PICK more : more = accounts'
      OBVIOUS
    <3>2. ImportOK(r, importing[r], more)
      BY <3>1, MoreAccounts DEF ImportInv
    <3> QED
      BY <1>1, <2>2, <3>1, <3>2
  <2> QED
    BY <2>1, <2>2
<1>4. ProfilesOK'
  BY <1>2 DEF ImportInv, ProfilesOK, HasAccount
<1>5. SeatsOK'
  <2>1. seats' = SeatsOf(profiles') /\ \A s, t \in seats' : s.ward = t.ward => s = t
    BY DEF ImportInv, SeatsOK
  <2>2. ASSUME NEW r \in Imports, NEW s \in importing'[r].seats
        PROVE  /\ \A t \in seats' : t.ward # s.ward
               /\ \A u \in Imports \ {r} : \A t \in importing'[u].seats :
                    t.ward # s.ward
    <3>1. CASE r = q
      BY <1>1, <2>2, <3>1 DEF FlushedApart
    <3>2. CASE r # q
      <4>1. /\ \A t \in seats : t.ward # s.ward
            /\ \A u \in Imports \ {r} : \A t \in importing[u].seats :
                 t.ward # s.ward
        BY <1>1, <2>2, <3>2 DEF ImportInv, SeatsOK
      <4>2. \A t \in m.seats : t.ward # s.ward
        BY <1>1, <2>2, <3>2 DEF FlushedApart
      <4> QED
        BY <1>1, <4>1, <4>2
    <3> QED
      BY <3>1, <3>2
  <2> QED
    BY <2>1, <2>2 DEF SeatsOK
<1>6. LogsOK'
  BY <1>2 DEF ImportInv, LogsOK, ProfilesBy
<1>7. AnswersOK'
  BY DEF ImportInv, AnswersOK, Done
<1> QED
  BY <1>1, <1>3, <1>4, <1>5, <1>6, <1>7 DEF ImportInv

(* What every live import is known to be. *)
LEMMA ImportFacts ==
  ASSUME ImportInv, NEW q \in Imports
  PROVE  /\ ImportOK(q, importing[q], accounts) /\ IsImport(importing[q])
         /\ FlushedApart(q, importing[q])
BY DEF ImportInv, ImportOK, SeatsOK, FlushedApart

LEMMA EndKeepsInv ==
  ASSUME ImportInv, NEW q \in Imports,
         importing' = [importing EXCEPT ![q] = EndedImport],
         UNCHANGED <<accounts, profiles, seats, logs, departments>>
  PROVE  ImportInv'
<1>1. ImportOK(q, EndedImport, accounts') /\ EndedImport.at = "done"
      /\ FlushedApart(q, EndedImport)
  BY EndedIsOK DEF FlushedApart
<1>2. AccountsOK'
  BY DEF ImportInv, AccountsOK
<1> QED
  BY <1>1, <1>2, ImportMoves

LEMMA BeginImportKeepsInv ==
  ASSUME ImportInv, NEW q \in Imports, NEW f \in Files, NEW dry \in BOOLEAN,
         BeginImport(q, f, dry)
  PROVE  ImportInv'
<1>1. CASE ~ dry /\ AlreadyImported(f)
  BY <1>1, EndKeepsInv DEF BeginImport
<1>2. CASE ~ (~ dry /\ AlreadyImported(f))
  <2>1. PICK old : old = importing[q]
    OBVIOUS
  <2>2. PICK m : m = [old EXCEPT !.at = "admitted", !.file = f, !.dry = dry]
    OBVIOUS
  <2>3. importing' = [importing EXCEPT ![q] = m] /\ old.at = "new"
    BY <1>2, <2>1, <2>2 DEF BeginImport
  <2>4. ImportOK(q, old, accounts) /\ IsImport(old)
    BY <2>1, ImportFacts
  <2>5. /\ IsImport(m) /\ m.at = "admitted"
        /\ m.profiles = {} /\ m.seats = {} /\ m.pending = {}
    BY <2>2, <2>3, <2>4 DEF ImportOK, IsImport
  <2>6. ImportOK(q, m, accounts') /\ FlushedApart(q, m)
    BY <2>5, EmptyImportOK DEF FlushedApart
  <2>7. AccountsOK' /\ accounts' = accounts
    BY DEF ImportInv, AccountsOK, BeginImport
  <2> QED
    BY <2>1, <2>3, <2>6, <2>7, ImportMoves DEF BeginImport
<1> QED
  BY <1>1, <1>2

LEMMA ReadKeepsImport ==
  ASSUME ImportInv, NEW q \in Imports, ReadDirectory(q)
  PROVE  ImportInv'
<1>1. PICK old : old = importing[q]
  OBVIOUS
<1>2. PICK m : m = [old EXCEPT !.at = "listed", !.known = Directory]
  OBVIOUS
<1>3. importing' = [importing EXCEPT ![q] = m] /\ old.at = "admitted"
  BY <1>1, <1>2 DEF ReadDirectory
<1>4. ImportOK(q, old, accounts) /\ IsImport(old)
  BY <1>1, ImportFacts
<1>5. /\ IsImport(m) /\ m.at = "listed"
      /\ m.profiles = {} /\ m.seats = {} /\ m.pending = {}
  BY <1>2, <1>3, <1>4 DEF ImportOK, IsImport
<1>6. ImportOK(q, m, accounts') /\ FlushedApart(q, m)
  BY <1>5, EmptyImportOK DEF FlushedApart
<1>7. AccountsOK' /\ accounts' = accounts
  BY DEF ImportInv, AccountsOK, ReadDirectory
<1> QED
  BY <1>1, <1>3, <1>6, <1>7, ImportMoves DEF ReadDirectory

LEMMA JudgeKeepsInv ==
  ASSUME ImportInv, NEW q \in Imports, JudgeRows(q)
  PROVE  ImportInv'
<1>1. PICK old : old = importing[q]
  OBVIOUS
<1>2. PICK known :
        known = [phones |-> old.known.phones,
                 departments |-> old.known.departments,
                 wards |-> {s.ward : s \in seats}]
  OBVIOUS
<1>3. PICK m : m = [old EXCEPT
                      !.at = "planned", !.known = known,
                      !.plan = Created(old.file, old.dry, known)]
  OBVIOUS
<1>4. importing' = [importing EXCEPT ![q] = m] /\ old.at = "listed"
  BY <1>1, <1>2, <1>3 DEF JudgeRows
<1>5. ImportOK(q, old, accounts) /\ IsImport(old)
  BY <1>1, ImportFacts
<1>6. /\ IsImport(m) /\ m.at = "planned" /\ m.file \in Files /\ m.dry \in BOOLEAN
      /\ m.profiles = {} /\ m.seats = {} /\ m.pending = {}
      /\ IsJudged(m)
  BY <1>3, <1>4, <1>5 DEF ImportOK, IsImport, IsJudged
<1>7. PlanOK(m)
  BY <1>6, CreatedIsPlanOK
<1>8. ImportOK(q, m, accounts') /\ FlushedApart(q, m)
  BY <1>6, <1>7, EmptyImportOK DEF FlushedApart
<1>9. AccountsOK' /\ accounts' = accounts
  BY DEF ImportInv, AccountsOK, JudgeRows
<1> QED
  BY <1>1, <1>4, <1>8, <1>9, ImportMoves DEF JudgeRows

------------------------------------------------------------------------------
(***************************************************************************)
(* The rows of a real import.                                              *)
(***************************************************************************)
LEMMA OneNext ==
  ASSUME NEW q, NEW m, m.plan \in SUBSET Nat, NEW j, NEW k,
         IsNext(q, m, j), IsNext(q, m, k)
  PROVE  j = k
<1>1. j \in Nat /\ k \in Nat
  BY DEF IsNext
<1>2. ~ (j < k) /\ ~ (k < j)
  BY DEF IsNext
<1> QED
  BY <1>1, <1>2

LEMMA CreateKeepsInv ==
  ASSUME ImportInv, NEW q \in Imports, CreateAccount(q)
  PROVE  ImportInv'
<1>1. PICK old : old = importing[q]
  OBVIOUS
<1>2. PICK row : row = RowInHand(q)
  OBVIOUS
<1>3. PICK created \in BOOLEAN, answered \in BOOLEAN :
        /\ created => ~ ProviderRefuses(row)
        /\ answered => created
        /\ accounts' = IF created
             THEN accounts \cup {[id |-> <<q, NextRow(q)>>,
                                  phone |-> row.phone, email |-> row.email]}
             ELSE accounts
        /\ importing' = [importing EXCEPT
             ![q] = [importing[q] EXCEPT !.at = "answered", !.certain = answered]]
  BY <1>2 DEF CreateAccount
<1>4. PICK m : m = [old EXCEPT !.at = "answered", !.certain = answered]
  OBVIOUS
<1>5. importing' = [importing EXCEPT ![q] = m]
  BY <1>1, <1>3, <1>4
<1>6. ImportOK(q, old, accounts) /\ IsImport(old) /\ FlushedApart(q, old)
  BY <1>1, ImportFacts
<1>7. old.at = "planned" /\ ~ old.dry
      /\ Cardinality(old.profiles) < Cardinality(old.plan)
      /\ UNCHANGED <<profiles, seats, logs, departments>>
  BY <1>1 DEF CreateAccount, MoreRows
<1>8. /\ m.at = "answered" /\ m.certain = answered
      /\ m.file = old.file /\ m.dry = old.dry /\ m.plan = old.plan
      /\ m.known = old.known
      /\ m.profiles = old.profiles /\ m.seats = old.seats
      /\ m.pending = old.pending
      /\ m = [at |-> m.at, file |-> m.file, dry |-> m.dry, plan |-> m.plan,
              known |-> m.known, certain |-> m.certain,
              profiles |-> m.profiles, seats |-> m.seats,
              pending |-> m.pending]
  BY <1>4, <1>6 DEF IsImport
<1>9. IsImport(m)
  BY <1>6, <1>7, <1>8 DEF IsImport
<1>10. /\ PlanOK(old) /\ IsJudged(old) /\ old.file \in Files
       /\ old.profiles = {RowProfile(q, old, k) : k \in InsertedRows(q, old)}
  BY <1>6, <1>7 DEF ImportOK, IsImport
<1>11. /\ PlanOK(m) /\ IsJudged(m)
       /\ InsertedRows(q, m) = InsertedRows(q, old)
       /\ \A k : RowProfile(q, m, k) = RowProfile(q, old, k)
       /\ \A k : IsNext(q, m, k) <=> IsNext(q, old, k)
  BY <1>8, <1>10
     DEF PlanOK, IsJudged, IsCorporator, InsertedRows, RowProfile, IsNext
<1>12. \E k \in old.plan : IsNext(q, old, k)
  BY <1>7, <1>10, NextRowExists
<1>13. PICK next : next = NextRow(q)
  OBVIOUS
<1>14. IsNext(q, old, next) /\ row = Rows[old.file][next]
  BY <1>1, <1>2, <1>12, <1>13, NextRowIsNext DEF RowInHand
<1>15. accounts \subseteq accounts'
  BY <1>3
<1>16. AccountsOK'
  BY <1>3 DEF ImportInv, AccountsOK, ProviderRefuses
<1>17. ASSUME answered, NEW k, IsNext(q, m, k)
       PROVE  HasAccount(RowProfile(q, m, k), accounts')
  <2>1. old.plan \in SUBSET Nat
    BY <1>10, PlanIsFinite
  <2>2. k = next
    BY <1>11, <1>14, <1>17, <2>1, OneNext
  <2>3. PICK a \in accounts' : a.id = <<q, next>> /\ a.phone = row.phone
    <3>1. created
      BY <1>3, <1>17
    <3>2. accounts' = accounts \cup {[id |-> <<q, next>>, phone |-> row.phone,
                                      email |-> row.email]}
      BY <1>3, <1>13, <3>1
    <3>3. [id |-> <<q, next>>, phone |-> row.phone, email |-> row.email]
            \in accounts'
      BY <3>2
    <3> QED
      BY <3>3
  <2>4. RowProfile(q, m, k).id = <<q, next>>
        /\ RowProfile(q, m, k).phone = row.phone
    BY <1>8, <1>14, <2>2 DEF RowProfile, Profile
  <2> QED
    BY <2>3, <2>4 DEF HasAccount
<1>18. \A p \in m.profiles : HasAccount(p, accounts')
  BY <1>6, <1>8, <1>15 DEF ImportOK, HasAccount
<1>19. ImportOK(q, m, accounts')
  <2>1. m.profiles = {RowProfile(q, m, k) : k \in InsertedRows(q, m)}
    BY <1>8, <1>10, <1>11
  <2>2. m.seats \cup m.pending = SeatsOf(m.profiles)
    BY <1>6, <1>8 DEF ImportOK
  <2>3. ~ m.dry /\ \E k \in m.plan : IsNext(q, m, k)
    BY <1>7, <1>8, <1>11, <1>12
  <2>4. m.certain => \A k : IsNext(q, m, k)
                              => HasAccount(RowProfile(q, m, k), accounts')
    BY <1>8, <1>17
  <2> QED
    BY <1>8, <1>9, <1>11, <1>18, <2>1, <2>2, <2>3, <2>4 DEF ImportOK
<1>20. FlushedApart(q, m)
  BY <1>6, <1>8 DEF FlushedApart
<1> QED
  BY <1>1, <1>5, <1>7, <1>15, <1>16, <1>19, <1>20, ImportMoves

(* The wards of an import's seats are apart: its plan takes none twice. *)
LEMMA OwnSeatsApart ==
  ASSUME NEW q, NEW m, ~ m.dry, PlanOK(m),
         m.profiles = {RowProfile(q, m, k) : k \in InsertedRows(q, m)},
         NEW s \in SeatsOf(m.profiles), NEW t \in SeatsOf(m.profiles),
         s.ward = t.ward
  PROVE  s = t
<1>1. PICK j \in InsertedRows(q, m) :
        /\ RowProfile(q, m, j).role = "corporator"
        /\ s = [ward |-> RowProfile(q, m, j).ward,
                user |-> RowProfile(q, m, j).id]
  BY DEF SeatsOf
<1>2. PICK k \in InsertedRows(q, m) :
        /\ RowProfile(q, m, k).role = "corporator"
        /\ t = [ward |-> RowProfile(q, m, k).ward,
                user |-> RowProfile(q, m, k).id]
  BY DEF SeatsOf
<1>3. j \in m.plan /\ k \in m.plan
  BY DEF InsertedRows
<1>4. /\ IsCorporator(m, j) /\ IsCorporator(m, k)
      /\ Rows[m.file][j].ward = Rows[m.file][k].ward
  BY <1>1, <1>2 DEF IsCorporator, RowProfile, Profile
<1>5. j = k
  BY <1>3, <1>4 DEF PlanOK
<1> QED
  BY <1>1, <1>2, <1>5

LEMMA InsertKeepsImport ==
  ASSUME ImportInv, NEW q \in Imports, InsertProfile(q),
         ~ SeatTaken(q), ~ UnknownUser(q)
  PROVE  ImportInv'
<1>1. PICK old : old = importing[q]
  OBVIOUS
<1>2. PICK next : next = NextRow(q)
  OBVIOUS
<1>3. PICK row : row = Rows[old.file][next]
  OBVIOUS
<1>4. PICK p : p = Profile(q, next, row)
  OBVIOUS
<1>5. PICK seat : seat = IF row.role = "corporator" THEN {Seat(q, next, row)} ELSE {}
  OBVIOUS
<1>6. PICK m : m = [old EXCEPT !.at = "planned",
                               !.profiles = @ \cup {p},
                               !.seats = @ \cup old.pending,
                               !.pending = seat]
  OBVIOUS
<1>7. importing' = [importing EXCEPT ![q] = m]
  BY <1>1, <1>2, <1>3, <1>4, <1>5, <1>6 DEF InsertProfile, RowInHand
<1>8. /\ old.at = "answered" /\ ~ FlushWaits(q) /\ old.certain
      /\ UNCHANGED <<accounts, profiles, seats, logs, departments>>
  BY <1>1 DEF InsertProfile, UnknownUser
<1>9. ImportOK(q, old, accounts) /\ IsImport(old) /\ FlushedApart(q, old)
  BY <1>1, ImportFacts
<1>10. /\ m.at = "planned" /\ m.file = old.file /\ m.dry = old.dry
       /\ m.plan = old.plan /\ m.known = old.known
       /\ m.profiles = old.profiles \cup {p}
       /\ m.seats = old.seats \cup old.pending /\ m.pending = seat
       /\ m = [at |-> m.at, file |-> m.file, dry |-> m.dry, plan |-> m.plan,
               known |-> m.known, certain |-> m.certain,
               profiles |-> m.profiles, seats |-> m.seats,
               pending |-> m.pending]
  BY <1>6, <1>9 DEF IsImport
<1>11. IsImport(m)
  BY <1>8, <1>9, <1>10 DEF IsImport
<1>12. /\ PlanOK(old) /\ IsJudged(old) /\ ~ old.dry /\ old.file \in Files
       /\ old.profiles = {RowProfile(q, old, k) : k \in InsertedRows(q, old)}
       /\ old.seats \cup old.pending = SeatsOf(old.profiles)
       /\ \A r \in old.profiles : HasAccount(r, accounts)
       /\ \E k \in old.plan : IsNext(q, old, k)
       /\ \A k : IsNext(q, old, k) => HasAccount(RowProfile(q, old, k), accounts)
  BY <1>8, <1>9 DEF ImportOK, IsImport
<1>13. IsNext(q, old, next) /\ next \in old.plan
  BY <1>1, <1>2, <1>12, NextRowIsNext
<1>14. p = RowProfile(q, old, next) /\ p.id = <<q, next>>
       /\ p.role = row.role /\ p.ward = row.ward
  BY <1>3, <1>4 DEF RowProfile, Profile
<1>15. InsertedRows(q, m) = InsertedRows(q, old) \cup {next}
  <2>1. \A k : p.id = <<q, k>> <=> k = next
    BY <1>14
  <2> QED
    BY <1>10, <1>13, <2>1 DEF InsertedRows
<1>16. \A k : RowProfile(q, m, k) = RowProfile(q, old, k)
  BY <1>10 DEF RowProfile
<1>17. m.profiles = {RowProfile(q, m, k) : k \in InsertedRows(q, m)}
  <2>1. {RowProfile(q, m, k) : k \in InsertedRows(q, m)}
          = {RowProfile(q, old, k) : k \in InsertedRows(q, old)}
              \cup {RowProfile(q, old, next)}
    BY <1>15, <1>16
  <2> QED
    BY <1>10, <1>12, <1>14, <2>1
<1>18. m.seats \cup m.pending = SeatsOf(m.profiles)
  <2>1. SeatsOf(m.profiles) = SeatsOf(old.profiles) \cup SeatsOf({p})
    BY <1>10 DEF SeatsOf
  <2>2. SeatsOf({p}) = seat
    <3>1. CASE row.role = "corporator"
      BY <1>5, <1>14, <3>1 DEF SeatsOf, Seat
    <3>2. CASE row.role # "corporator"
      BY <1>5, <1>14, <3>2 DEF SeatsOf
    <3> QED
      BY <3>1, <3>2
  <2> QED
    BY <1>10, <1>12, <2>1, <2>2
<1>19. PlanOK(m) /\ IsJudged(m)
  BY <1>10, <1>12 DEF PlanOK, IsJudged, IsCorporator
<1>20. \A r \in m.profiles : HasAccount(r, accounts')
  BY <1>8, <1>10, <1>12, <1>13, <1>14
<1>21. ImportOK(q, m, accounts')
  BY <1>10, <1>11, <1>12, <1>17, <1>18, <1>19, <1>20 DEF ImportOK
<1>22. FlushedApart(q, m)
  <2>1. ASSUME NEW s \in old.pending
        PROVE  /\ \A t \in seats : t.ward # s.ward
               /\ \A r \in Imports \ {q} : \A t \in importing[r].seats :
                    t.ward # s.ward
    BY <1>1, <1>8, <2>1 DEF SeatTaken, FlushWaits
  <2> QED
    BY <1>9, <1>10, <2>1 DEF FlushedApart
<1>23. AccountsOK' /\ accounts \subseteq accounts'
  BY <1>8 DEF ImportInv, AccountsOK
<1>24. importing[q].at = "done" => m.at = "done"
  BY <1>1, <1>8
<1> QED
  BY <1>7, <1>8, <1>21, <1>22, <1>23, <1>24, ImportMoves

------------------------------------------------------------------------------
(***************************************************************************)
(* COMMIT.                                                                 *)
(***************************************************************************)
LEMMA SuccessKeepsInv ==
  ASSUME ImportInv, NEW q \in Imports, CommitImport(q),
         ~ SeatTaken(q), ~ LogRefused(q)
  PROVE  ImportInv'
<1>1. PICK m : m = importing[q]
  OBVIOUS
<1>2. PICK log : log = ImportLog(q, m.file, m.dry, m.plan, m.known)
  OBVIOUS
<1>3. /\ m.at = "planned" /\ ~ MoreRows(q) /\ ~ FlushWaits(q)
      /\ profiles' = profiles \cup m.profiles
      /\ seats' = seats \cup (m.seats \cup m.pending)
      /\ logs' = logs \cup {log}
      /\ importing' = [importing EXCEPT ![q] = EndedImport]
      /\ UNCHANGED <<accounts, departments>>
  BY <1>1, <1>2 DEF CommitImport
<1>4. ImportOK(q, m, accounts) /\ IsImport(m) /\ FlushedApart(q, m)
  BY <1>1, ImportFacts
<1>5. /\ m.file \in Files /\ m.dry \in BOOLEAN /\ PlanOK(m) /\ IsJudged(m)
      /\ m.profiles = {RowProfile(q, m, k) : k \in InsertedRows(q, m)}
      /\ m.seats \cup m.pending = SeatsOf(m.profiles)
      /\ \A p \in m.profiles : HasAccount(p, accounts)
      /\ m.dry => m.profiles = {}
  BY <1>3, <1>4 DEF ImportOK, IsImport
<1>6. /\ importing' = [r \in Imports |-> importing'[r]]
      /\ importing'[q] = EndedImport
      /\ \A r \in Imports \ {q} : importing'[r] = importing[r]
  BY <1>3 DEF ImportInv
<1>7. EndedImport.at = "done" /\ EndedImport.seats = {}
  BY EndedIsOK
<1>8. \A r \in Imports : ImportOK(r, importing'[r], accounts)
  BY <1>6, EndedIsOK DEF ImportInv
<1>9. AccountsOK'
  BY <1>3 DEF ImportInv, AccountsOK
<1>10. \A p \in profiles : p.id[1] \in Imports \ {q}
  BY <1>1, <1>3 DEF ImportInv, ProfilesOK
<1>11. ASSUME NEW p \in m.profiles
       PROVE  /\ p.id[1] = q
              /\ p.role \in AllowedBulkRoles /\ p.phone # Malformed
              /\ p.role = "corporator" => p.ward \in WardNumbers
              /\ \A r \in m.profiles : p.id = r.id => p = r
  <2>1. PICK k \in InsertedRows(q, m) : p = RowProfile(q, m, k)
    BY <1>5
  <2>2. /\ p.id = <<q, k>> /\ p.role = Rows[m.file][k].role
        /\ p.phone = Rows[m.file][k].phone /\ p.ward = Rows[m.file][k].ward
    BY <2>1 DEF RowProfile, Profile
  <2>3. /\ HasIdentity(Rows[m.file][k])
        /\ IsCorporator(m, k) => Rows[m.file][k].ward \in WardNumbers
    BY <1>5 DEF PlanOK, InsertedRows
  <2>4. ASSUME NEW r \in m.profiles, p.id = r.id PROVE p = r
    <3>1. PICK j \in InsertedRows(q, m) : r = RowProfile(q, m, j)
      BY <1>5
    <3>2. r.id = <<q, j>>
      BY <3>1 DEF RowProfile, Profile
    <3>3. j = k
      BY <2>2, <2>4, <3>2
    <3> QED
      BY <2>1, <3>1, <3>3
  <2> QED
    BY <2>2, <2>3, <2>4 DEF HasIdentity, IsCorporator
<1>12. ProfilesOK'
  <2>1. ASSUME NEW p \in profiles'
        PROVE  /\ p.id[1] \in Imports /\ importing'[p.id[1]].at = "done"
               /\ HasAccount(p, accounts)
               /\ p.role \in AllowedBulkRoles /\ p.phone # Malformed
               /\ p.role = "corporator" => p.ward \in WardNumbers
    <3>1. CASE p \in profiles
      BY <1>6, <1>10, <3>1 DEF ImportInv, ProfilesOK
    <3>2. CASE p \in m.profiles
      BY <1>5, <1>6, <1>7, <1>11, <3>2
    <3> QED
      BY <1>3, <3>1, <3>2
  <2>2. ASSUME NEW p \in profiles', NEW r \in profiles', p.id = r.id
        PROVE  p = r
    <3>1. CASE p.id[1] = q
      <4>1. p \in m.profiles /\ r \in m.profiles
        BY <1>3, <1>10, <2>2, <3>1
      <4> QED
        BY <1>11, <2>2, <4>1
    <3>2. CASE p.id[1] # q
      <4>1. p \in profiles /\ r \in profiles
        BY <1>3, <1>11, <2>2, <3>2
      <4> QED
        BY <2>2, <4>1 DEF ImportInv, ProfilesOK
    <3> QED
      BY <3>1, <3>2
  <2>3. accounts' = accounts
    BY <1>3
  <2> QED
    BY <2>1, <2>2, <2>3 DEF ProfilesOK
<1>13. seats' = seats \cup SeatsOf(m.profiles)
  BY <1>3, <1>5
<1>14. ASSUME NEW s \in SeatsOf(m.profiles)
       PROVE  /\ \A t \in seats : t.ward # s.ward
              /\ \A r \in Imports \ {q} : \A t \in importing[r].seats :
                   t.ward # s.ward
  <2>1. CASE s \in m.seats
    BY <1>4, <2>1 DEF FlushedApart
  <2>2. CASE s \in m.pending
    BY <1>1, <1>3, <2>2 DEF SeatTaken, FlushWaits
  <2> QED
    BY <1>5, <2>1, <2>2
<1>15. ASSUME NEW s \in SeatsOf(m.profiles), NEW t \in SeatsOf(m.profiles),
              s.ward = t.ward
       PROVE  s = t
  <2>1. ~ m.dry
    BY <1>5 DEF SeatsOf
  <2> QED
    BY <1>5, <1>15, <2>1, OwnSeatsApart
<1>16. SeatsOK'
  <2>1. seats' = SeatsOf(profiles')
    <3>1. SeatsOf(profiles') = SeatsOf(profiles) \cup SeatsOf(m.profiles)
      BY <1>3 DEF SeatsOf
    <3> QED
      BY <1>13, <3>1 DEF ImportInv, SeatsOK
  <2>2. ASSUME NEW s \in seats', NEW t \in seats', s.ward = t.ward PROVE s = t
    BY <1>13, <1>14, <1>15, <2>2 DEF ImportInv, SeatsOK
  <2>3. ASSUME NEW r \in Imports, NEW s \in importing'[r].seats
        PROVE  /\ \A t \in seats' : t.ward # s.ward
               /\ \A u \in Imports \ {r} : \A t \in importing'[u].seats :
                    t.ward # s.ward
    <3>1. r # q /\ s \in importing[r].seats
      BY <1>6, <1>7, <2>3
    <3>2. /\ \A t \in seats : t.ward # s.ward
          /\ \A u \in Imports \ {r} : \A t \in importing[u].seats :
               t.ward # s.ward
      BY <3>1 DEF ImportInv, SeatsOK
    <3>3. \A t \in SeatsOf(m.profiles) : t.ward # s.ward
      BY <1>14, <3>1
    <3> QED
      BY <1>6, <1>7, <1>13, <3>2, <3>3
  <2> QED
    BY <2>1, <2>2, <2>3 DEF SeatsOK
<1>17. /\ log.by = q /\ log.file = m.file /\ log.dry = m.dry
       /\ log.created = Cardinality(m.plan)
       /\ log.rows = m.plan /\ log.known = m.known
  BY <1>2 DEF ImportLog
<1>18. \A l \in logs : l.by \in Imports \ {q}
  BY <1>1, <1>3 DEF ImportInv, LogsOK
<1>19. ProfilesBy(q)' = m.profiles
       /\ \A r \in Imports \ {q} : ProfilesBy(r)' = ProfilesBy(r)
  BY <1>3, <1>10, <1>11 DEF ProfilesBy
<1>20. ~ m.dry => /\ Cardinality(m.profiles) = Cardinality(m.plan)
                  /\ InsertedRows(q, m) = m.plan
  <2>1. IsFiniteSet(m.plan)
    BY <1>5, PlanIsFinite
  <2>2. /\ Cardinality(m.plan) \in Nat /\ Cardinality(m.profiles) \in Nat
        /\ Cardinality(m.profiles) <= Cardinality(m.plan)
        /\ Cardinality(m.profiles) = Cardinality(m.plan)
             <=> InsertedRows(q, m) = m.plan
    BY <1>5, <2>1, CountInserted
  <2> QED
    BY <1>1, <1>3, <2>2 DEF MoreRows
<1>21. LogsOK'
  <2>1. ASSUME NEW l \in logs'
        PROVE  /\ l.by \in Imports /\ l.file \in Files
               /\ importing'[l.by].at = "done"
    <3>1. CASE l \in logs
      BY <1>6, <1>18, <3>1 DEF ImportInv, LogsOK
    <3>2. CASE l = log
      BY <1>5, <1>6, <1>7, <1>17, <3>2
    <3> QED
      BY <1>3, <3>1, <3>2
  <2>2. ASSUME NEW l \in logs', NEW n \in logs', l.by = n.by PROVE l = n
    BY <1>3, <1>17, <1>18, <2>2 DEF ImportInv, LogsOK
  <2>3. ASSUME NEW l \in logs', NEW n \in logs', ~ l.dry, ~ n.dry,
               l.file = n.file
        PROVE  l = n
    <3>1. ~ m.dry => \A k \in logs : k.file = m.file => k.dry
      BY <1>1 DEF LogRefused, AlreadyImported
    <3>2. CASE l \in logs /\ n \in logs
      BY <2>3, <3>2 DEF ImportInv, LogsOK
    <3>3. CASE l = log \/ n = log
      BY <1>3, <1>17, <2>3, <3>1, <3>3
    <3> QED
      BY <1>3, <3>2, <3>3
  <2>4. ASSUME NEW r \in Imports
        PROVE  IF \E l \in logs' : l.by = r /\ ~ l.dry
                 THEN \E l \in logs' :
                        l.by = r /\ l.created = Cardinality(ProfilesBy(r)')
                 ELSE ProfilesBy(r)' = {}
    <3>1. CASE r = q
      <4>1. CASE m.dry
        <5>1. ~ \E l \in logs' : l.by = r /\ ~ l.dry
          BY <1>3, <1>17, <1>18, <3>1, <4>1
        <5>2. ProfilesBy(r)' = {}
          BY <1>5, <1>19, <3>1, <4>1
        <5> QED
          BY <5>1, <5>2
      <4>2. CASE ~ m.dry
        <5>1. log \in logs' /\ log.by = r /\ ~ log.dry
              /\ log.created = Cardinality(ProfilesBy(r)')
          BY <1>3, <1>17, <1>19, <1>20, <3>1, <4>2
        <5> QED
          BY <5>1
      <4> QED
        BY <4>1, <4>2
    <3>2. CASE r # q
      <4>1. \A l : l \in logs' /\ l.by = r <=> l \in logs /\ l.by = r
        BY <1>3, <1>17, <3>2
      <4>2. ProfilesBy(r)' = ProfilesBy(r)
        BY <1>19, <3>2
      <4>3. IF \E l \in logs : l.by = r /\ ~ l.dry
              THEN \E l \in logs :
                     l.by = r /\ l.created = Cardinality(ProfilesBy(r))
              ELSE ProfilesBy(r) = {}
        BY DEF ImportInv, LogsOK
      <4> QED
        BY <4>1, <4>2, <4>3
    <3> QED
      BY <3>1, <3>2
  <2> QED
    BY <2>1, <2>2, <2>3, <2>4 DEF LogsOK
<1>22. departments' \subseteq DepartmentCodes
  BY <1>3 DEF ImportInv
<1>23. accounts' = accounts
  BY <1>3
<1>24. \A r \in Imports \ {q} : Done(r)' = Done(r)
  BY <1>3, <1>11 DEF Done
<1>25. ~ m.dry => Done(q)' = m.plan
  <2>1. Done(q)' = {p.id[2] : p \in m.profiles}
    BY <1>19 DEF Done, ProfilesBy
  <2>2. {p.id[2] : p \in m.profiles} = InsertedRows(q, m)
    <3>1. \A k : RowProfile(q, m, k).id = <<q, k>>
      BY DEF RowProfile, Profile
    <3>2. ASSUME NEW k \in InsertedRows(q, m)
          PROVE  k \in {p.id[2] : p \in m.profiles}
      <4>1. PICK p \in m.profiles : p.id = <<q, k>>
        BY <3>2 DEF InsertedRows
      <4>2. p.id[2] = k
        BY <4>1
      <4> QED
        BY <4>2
    <3>3. ASSUME NEW p \in m.profiles PROVE p.id[2] \in InsertedRows(q, m)
      <4>1. PICK k \in InsertedRows(q, m) : p = RowProfile(q, m, k)
        BY <1>5
      <4>2. p.id[2] = k
        BY <3>1, <4>1
      <4> QED
        BY <4>1, <4>2
    <3> QED
      BY <3>2, <3>3
  <2> QED
    BY <1>20, <2>1, <2>2
<1>26. AnswersOK'
  <2>1. ASSUME NEW l \in logs'
        PROVE  /\ l.dry \in BOOLEAN
               /\ l.rows = Created(l.file, l.dry, l.known)
               /\ ~ l.dry => l.rows = Done(l.by)'
    <3>1. CASE l \in logs
      BY <1>18, <1>24, <3>1 DEF ImportInv, AnswersOK
    <3>2. CASE l = log
      BY <1>5, <1>17, <1>25, <3>2 DEF IsJudged
    <3> QED
      BY <1>3, <3>1, <3>2
  <2> QED
    BY <2>1 DEF AnswersOK
<1> QED
  BY <1>6, <1>8, <1>9, <1>12, <1>16, <1>21, <1>22, <1>23, <1>26 DEF ImportInv

------------------------------------------------------------------------------
LEMMA ImportStepKeepsInv ==
  ASSUME ImportInv, ImportNext
  PROVE  ImportInv'
<1>1. ASSUME NEW code \in DepartmentCodes, CreateDepartment(code)
      PROVE  ImportInv'
  <2>1. departments' \subseteq DepartmentCodes
        /\ UNCHANGED <<accounts, profiles, seats, logs, importing>>
    BY <1>1 DEF CreateDepartment, ImportInv
  <2> QED
    BY <2>1 DEF ImportInv, AccountsOK, ProfilesOK, SeatsOK, LogsOK, ProfilesBy,
                AnswersOK, Done
<1>2. ASSUME NEW q \in Imports, InsertProfile(q) PROVE ImportInv'
  <2>1. CASE SeatTaken(q) \/ UnknownUser(q)
    BY <1>2, <2>1, EndKeepsInv DEF InsertProfile
  <2>2. CASE ~ SeatTaken(q) /\ ~ UnknownUser(q)
    BY <1>2, <2>2, InsertKeepsImport
  <2> QED
    BY <2>1, <2>2
<1>3. ASSUME NEW q \in Imports, CommitImport(q) PROVE ImportInv'
  <2>1. CASE SeatTaken(q) \/ LogRefused(q)
    BY <1>3, <2>1, EndKeepsInv DEF CommitImport
  <2>2. CASE ~ SeatTaken(q) /\ ~ LogRefused(q)
    BY <1>3, <2>2, SuccessKeepsInv
  <2> QED
    BY <2>1, <2>2
<1>4. ASSUME NEW q \in Imports, AbortImport(q) PROVE ImportInv'
  BY <1>4, EndKeepsInv DEF AbortImport
<1> QED
  BY <1>1, <1>2, <1>3, <1>4, BeginImportKeepsInv, ReadKeepsImport,
     JudgeKeepsInv, CreateKeepsInv DEF ImportNext

(***************************************************************************)
(* The invariant of the import, for any files and any number of imports,   *)
(* whatever calls to the provider fail and wherever an import ends.        *)
(***************************************************************************)
THEOREM ImportInvariance == ImportSpec => []ImportInv
<1>1. ImportInv /\ [ImportNext]_importVars => ImportInv'
  <2>1. ImportInv /\ UNCHANGED importVars => ImportInv'
    BY DEF ImportInv, AccountsOK, ProfilesOK, SeatsOK, LogsOK, ProfilesBy,
           AnswersOK, Done, importVars
  <2> QED
    BY <2>1, ImportStepKeepsInv
<1> QED
  BY <1>1, ImportInvInit, PTL DEF ImportSpec

(* The rows of the import's tables have their types. *)
THEOREM ImportTypes == ImportSpec => []ImportTypeOK
<1>1. ASSUME ImportInv PROVE ImportTypeOK
  <2>1. \A p \in profiles : p.role \in AllowedBulkRoles /\ p.phone # Malformed
    BY <1>1 DEF ImportInv, ProfilesOK
  <2>2. \A s \in seats : s.ward \in WardNumbers
    BY <1>1 DEF ImportInv, ProfilesOK, SeatsOK, SeatsOf
  <2>3. \A l \in logs : l.by \in Imports /\ l.file \in Files
    BY <1>1 DEF ImportInv, LogsOK
  <2>4. \A q \in Imports : IsImport(importing[q])
    BY <1>1, ImportFacts
  <2> QED
    BY <1>1, <2>1, <2>2, <2>3, <2>4 DEF ImportInv, ImportTypeOK, IsImport
<1> QED
  BY <1>1, ImportInvariance, PTL

(***************************************************************************)
(* No phone gets two profiles: each has the provider's account of its id   *)
(* and phone, and the provider has a phone once.                           *)
(***************************************************************************)
THEOREM PhonesAreOnce == ImportSpec => []OneProfilePerPhone
<1>1. ASSUME ImportInv, NEW p \in profiles, NEW r \in profiles,
             p.phone = r.phone
      PROVE  p = r
  <2>1. PICK a \in accounts : a.id = p.id /\ a.phone = p.phone
    BY <1>1 DEF ImportInv, ProfilesOK, HasAccount
  <2>2. PICK b \in accounts : b.id = r.id /\ b.phone = r.phone
    BY <1>1 DEF ImportInv, ProfilesOK, HasAccount
  <2>3. a = b
    BY <1>1, <2>1, <2>2 DEF ImportInv, AccountsOK
  <2> QED
    BY <1>1, <2>1, <2>2, <2>3 DEF ImportInv, ProfilesOK
<1>2. ImportInv => OneProfilePerPhone
  BY <1>1 DEF OneProfilePerPhone
<1> QED
  BY <1>2, ImportInvariance, PTL

(* The seats are those of the committed corporators, one for each ward. *)
THEOREM SeatsMatch == ImportSpec => []SeatsMatchCorporators
<1>1. ImportInv => SeatsMatchCorporators
  BY DEF ImportInv, SeatsOK, SeatsOf, SeatsMatchCorporators
<1> QED
  BY <1>1, ImportInvariance, PTL

(* An import takes effect whole or not at all, and each file once. *)
THEOREM WholeOrNothing == ImportSpec => []ImportsAreWhole
<1>1. ASSUME ImportInv, NEW q \in Imports
      PROVE  Cardinality(ProfilesBy(q)) =
               IF \E l \in logs : l.by = q /\ ~ l.dry
                 THEN (CHOOSE l \in logs : l.by = q).created
                 ELSE 0
  <2>1. CASE \E l \in logs : l.by = q /\ ~ l.dry
    <3>1. PICK l \in logs : l.by = q /\ l.created = Cardinality(ProfilesBy(q))
      BY <1>1, <2>1 DEF ImportInv, LogsOK
    <3>2. (CHOOSE k \in logs : k.by = q) = l
      <4>1. \A k \in logs : k.by = q => k = l
        BY <1>1, <3>1 DEF ImportInv, LogsOK
      <4> QED
        BY <3>1, <4>1
    <3> QED
      BY <2>1, <3>1, <3>2
  <2>2. CASE ~ \E l \in logs : l.by = q /\ ~ l.dry
    <3>1. ProfilesBy(q) = {}
      BY <1>1, <2>2 DEF ImportInv, LogsOK
    <3> QED
      BY <2>2, <3>1, FS_EmptySet
  <2> QED
    BY <2>1, <2>2
<1>2. ImportInv => ImportsAreWhole
  BY <1>1 DEF ImportInv, LogsOK, ImportsAreWhole, ProfilesBy
<1> QED
  BY <1>2, ImportInvariance, PTL

(***************************************************************************)
(* What a dry run announces binds an import of the file that commits and   *)
(* has read the same, whatever the files and whoever runs beside them: the *)
(* rows with an account are those the import judged good (AnswersOK), and  *)
(* ForecastHolds compares the two judgements.                              *)
(***************************************************************************)
THEOREM ForecastsHold == ImportSpec => []ForecastBinds
<1>1. ASSUME ImportInv, NEW d \in logs, NEW l \in logs,
             d.dry, ~ l.dry, d.file = l.file, d.known = l.known
      PROVE  /\ Done(l.by) \subseteq d.rows
             /\ \A k \in d.rows \ Done(l.by) :
                  SameWardBefore(l.file, k, Done(l.by))
  <2>1. /\ d.dry = TRUE /\ l.dry = FALSE /\ l.file \in Files
        /\ d.rows = Created(d.file, d.dry, d.known)
        /\ l.rows = Created(l.file, l.dry, l.known) /\ l.rows = Done(l.by)
    BY <1>1 DEF ImportInv, AnswersOK, LogsOK
  <2>2. /\ d.rows = Created(l.file, TRUE, l.known)
        /\ l.rows = Created(l.file, FALSE, l.known)
    BY <1>1, <2>1
  <2>3. Forecasts(l.file, d.rows, l.rows)
    BY <2>1, <2>2, ForecastHolds
  <2> QED
    BY <2>1, <2>3 DEF Forecasts
<1>2. ImportInv => ForecastBinds
  BY <1>1 DEF ForecastBinds
<1> QED
  BY <1>2, ImportInvariance, PTL

------------------------------------------------------------------------------
(***************************************************************************)
(* GovernanceTypeOK is not inductive: it does not say that cache and       *)
(* reading are functions, so that an EXCEPT of one of them could have any  *)
(* value.  The rows of the matrices are MatrixInv's part of it.            *)
(***************************************************************************)
CacheTypes ==
  /\ cache = [k \in Keys |-> cache[k]]
  /\ \A k \in Keys : cache[k] = NoValue \/ cache[k] = Cached(cache[k].value)
  /\ excused \in [Keys -> BOOLEAN]

ReadingTypes ==
  /\ reading = [r \in Readers |-> reading[r]]
  /\ \A r \in Readers :
       /\ reading[r].at \in {"new", "missed", "selected"}
       /\ reading[r].key \in Keys
       /\ DOMAIN reading[r] = {"at", "key", "value"}

TaxonomyTypes ==
  /\ category \in [Categories -> CategoryStatus]
  /\ approving \in [Approvers -> {"new", "committed", "done"}]

(* One key is written, with a value that expires or with none. *)
LEMMA CacheWrite ==
  ASSUME CacheTypes, NEW k \in Keys, NEW value, NEW late \in BOOLEAN,
         value = NoValue \/ value = Cached(value.value),
         cache' = [cache EXCEPT ![k] = value],
         excused' = [excused EXCEPT ![k] = late]
  PROVE  CacheTypes'
<1>1. \A j \in Keys : cache'[j] = IF j = k THEN value ELSE cache[j]
  BY DEF CacheTypes
<1>2. cache' = [j \in Keys |-> cache'[j]]
  BY DEF CacheTypes
<1>3. excused' \in [Keys -> BOOLEAN]
  BY DEF CacheTypes
<1> QED
  BY <1>1, <1>2, <1>3 DEF CacheTypes

LEMMA InvalidationTypes ==
  ASSUME CacheTypes, NEW k \in Keys, Invalidate(k) \/ LoseInvalidation(k)
  PROVE  CacheTypes'
<1>1. CASE Invalidate(k)
  <2>1. PICK value : value = NoValue
    OBVIOUS
  <2> QED
    BY <1>1, <2>1, CacheWrite DEF Invalidate
<1>2. CASE LoseInvalidation(k)
  BY <1>2 DEF CacheTypes, LoseInvalidation
<1> QED
  BY <1>1, <1>2

LEMMA FillTypes ==
  ASSUME CacheTypes, NEW k \in Keys, NEW v, Fill(k, v)
  PROVE  CacheTypes'
<1>1. PICK late : late = (v # Current(k))
  OBVIOUS
<1>2. PICK value : value = Cached(v)
  OBVIOUS
<1>3. value.value = v /\ late \in BOOLEAN
  BY <1>1, <1>2 DEF Cached
<1>4. /\ cache' = [cache EXCEPT ![k] = value]
      /\ excused' = [excused EXCEPT ![k] = late]
  BY <1>1, <1>2 DEF Fill
<1> QED
  BY <1>2, <1>3, <1>4, CacheWrite

LEMMA ExpiryTypes ==
  ASSUME CacheTypes, NEW k \in Keys, ExpireKey(k)
  PROVE  CacheTypes'
<1>1. Invalidate(k)
  BY DEF ExpireKey, Invalidate
<1> QED
  BY <1>1, InvalidationTypes

(* One reader goes on. *)
LEMMA ReadingStep ==
  ASSUME ReadingTypes, NEW r \in Readers, NEW row,
         DOMAIN row = {"at", "key", "value"},
         row.at \in {"new", "missed", "selected"}, row.key \in Keys,
         reading' = [reading EXCEPT ![r] = row]
  PROVE  ReadingTypes'
<1>1. \A s \in Readers : reading'[s] = IF s = r THEN row ELSE reading[s]
  BY DEF ReadingTypes
<1>2. reading' = [s \in Readers |-> reading'[s]]
  BY DEF ReadingTypes
<1> QED
  BY <1>1, <1>2 DEF ReadingTypes

LEMMA ReadCacheTypes ==
  ASSUME ReadingTypes, NEW r \in Readers, NEW k \in Keys, ReadCache(r, k)
  PROVE  ReadingTypes'
<1>1. PICK row : row = [reading[r] EXCEPT !.at = "missed", !.key = k]
  OBVIOUS
<1>2. /\ DOMAIN row = {"at", "key", "value"}
      /\ row.at = "missed" /\ row.key = k
  BY <1>1 DEF ReadingTypes
<1>3. reading' = [reading EXCEPT ![r] = row]
  BY <1>1 DEF ReadCache
<1> QED
  BY <1>2, <1>3, ReadingStep

LEMMA SelectTypes ==
  ASSUME ReadingTypes, NEW r \in Readers, Select(r)
  PROVE  ReadingTypes'
<1>1. PICK found : found = Current(reading[r].key)
  OBVIOUS
<1>2. PICK row : row = [reading[r] EXCEPT !.at = "selected", !.value = found]
  OBVIOUS
<1>3. /\ DOMAIN row = {"at", "key", "value"}
      /\ row.at = "selected" /\ row.key = reading[r].key
      /\ reading[r].key \in Keys
  BY <1>2 DEF ReadingTypes
<1>4. reading' = [reading EXCEPT ![r] = row]
  BY <1>1, <1>2 DEF Select
<1> QED
  BY <1>3, <1>4, ReadingStep

LEMMA StoreTypes ==
  ASSUME CacheTypes, ReadingTypes, NEW r \in Readers, StoreCache(r)
  PROVE  CacheTypes' /\ ReadingTypes'
<1>1. CacheTypes'
  <2>1. CASE UNCHANGED <<cache, excused>>
    BY <2>1 DEF CacheTypes
  <2>2. CASE Fill(reading[r].key, reading[r].value)
    BY <2>2, FillTypes DEF ReadingTypes
  <2> QED
    BY <2>1, <2>2 DEF StoreCache
<1>2. ReadingTypes'
  BY ReadingStep DEF StoreCache, NewReader, Keys
<1> QED
  BY <1>1, <1>2

(* The rows, the keys and the requests have their types. *)
THEOREM GovernanceTypes == GovernanceSpec => []GovernanceTypeOK
<1>1. GovernanceInit => CacheTypes /\ ReadingTypes /\ TaxonomyTypes
  BY DEF GovernanceInit, CacheTypes, ReadingTypes, TaxonomyTypes, NewReader,
         Keys, CategoryStatus
<1>2. ASSUME CacheTypes, ReadingTypes, TaxonomyTypes,
             [GovernanceNext]_governanceVars
      PROVE  CacheTypes' /\ ReadingTypes' /\ TaxonomyTypes'
  <2>1. CASE UNCHANGED governanceVars
    BY <1>2, <2>1 DEF governanceVars, CacheTypes, ReadingTypes, TaxonomyTypes
  <2>2. ASSUME NEW q \in Setters,
               RefuseMatrix(q) \/ ReadActiveMatrix(q) \/ CommitMatrix(q)
        PROVE  CacheTypes' /\ ReadingTypes' /\ TaxonomyTypes'
    BY <1>2, <2>2 DEF RefuseMatrix, ReadActiveMatrix, CommitMatrix, CacheTypes,
                      ReadingTypes, TaxonomyTypes
  <2>3. ASSUME NEW q \in Setters, FinishMatrix(q)
        PROVE  CacheTypes' /\ ReadingTypes' /\ TaxonomyTypes'
    <3>1. CacheTypes'
      BY <1>2, <2>3, InvalidationTypes DEF FinishMatrix, Keys
    <3> QED
      BY <1>2, <2>3, <3>1 DEF FinishMatrix, ReadingTypes, TaxonomyTypes
  <2>4. ASSUME NEW c \in Categories, ProposeCategory(c)
        PROVE  CacheTypes' /\ ReadingTypes' /\ TaxonomyTypes'
    BY <1>2, <2>4 DEF ProposeCategory, CacheTypes, ReadingTypes, TaxonomyTypes,
                      CategoryStatus
  <2>5. ASSUME NEW a \in Approvers, NEW c \in Categories, NEW rubric \in Rubrics,
               ApproveCategory(a, c, rubric)
        PROVE  CacheTypes' /\ ReadingTypes' /\ TaxonomyTypes'
    BY <1>2, <2>5 DEF ApproveCategory, CacheTypes, ReadingTypes, TaxonomyTypes,
                      CategoryStatus
  <2>6. ASSUME NEW a \in Approvers, FinishApproval(a)
        PROVE  CacheTypes' /\ ReadingTypes' /\ TaxonomyTypes'
    <3>1. CacheTypes'
      BY <1>2, <2>6, InvalidationTypes DEF FinishApproval, Keys
    <3> QED
      BY <1>2, <2>6, <3>1 DEF FinishApproval, ReadingTypes, TaxonomyTypes
  <2>7. ASSUME NEW r \in Readers, NEW k \in Keys, ReadCache(r, k)
        PROVE  CacheTypes' /\ ReadingTypes' /\ TaxonomyTypes'
    <3>1. ReadingTypes'
      BY <1>2, <2>7, ReadCacheTypes
    <3> QED
      BY <1>2, <2>7, <3>1 DEF ReadCache, CacheTypes, TaxonomyTypes
  <2>8. ASSUME NEW r \in Readers, Select(r)
        PROVE  CacheTypes' /\ ReadingTypes' /\ TaxonomyTypes'
    <3>1. ReadingTypes'
      BY <1>2, <2>8, SelectTypes
    <3> QED
      BY <1>2, <2>8, <3>1 DEF Select, CacheTypes, TaxonomyTypes
  <2>9. ASSUME NEW r \in Readers, StoreCache(r)
        PROVE  CacheTypes' /\ ReadingTypes' /\ TaxonomyTypes'
    <3>1. CacheTypes' /\ ReadingTypes'
      BY <1>2, <2>9, StoreTypes
    <3> QED
      BY <1>2, <2>9, <3>1 DEF StoreCache, TaxonomyTypes
  <2>10. ASSUME NEW k \in Keys, ExpireKey(k)
         PROVE  CacheTypes' /\ ReadingTypes' /\ TaxonomyTypes'
    <3>1. CacheTypes'
      BY <1>2, <2>10, ExpiryTypes
    <3> QED
      BY <1>2, <2>10, <3>1 DEF ExpireKey, ReadingTypes, TaxonomyTypes
  <2> QED
    BY <1>2, <2>1, <2>2, <2>3, <2>4, <2>5, <2>6, <2>7, <2>8, <2>9, <2>10
       DEF GovernanceNext
<1>3. MatrixInv /\ CacheTypes /\ ReadingTypes /\ TaxonomyTypes
        => GovernanceTypeOK
  BY DEF MatrixInv, CacheTypes, ReadingTypes, TaxonomyTypes, GovernanceTypeOK
<1>4. GovernanceSpec => [](CacheTypes /\ ReadingTypes /\ TaxonomyTypes)
  BY <1>1, <1>2, PTL DEF GovernanceSpec
<1> QED
  BY <1>3, <1>4, MatrixInvariance, PTL

------------------------------------------------------------------------------
(* Side by side, each of the three behaves as it does alone. *)
LEMMA EachAdministers ==
  AdministrationSpec => GovernanceSpec /\ RateSpec /\ ImportSpec
<1>1. AdministrationInit => GovernanceInit /\ RateInit /\ ImportInit
  BY DEF AdministrationInit
<1>2. [AdministrationNext]_allAdministration =>
        /\ [GovernanceNext]_governanceVars
        /\ [RateNext]_rateVars
        /\ [ImportNext]_importVars
  BY DEF AdministrationNext, MoveGovernance, MoveRates, MoveImports,
         allAdministration
<1> QED
  BY <1>1, <1>2, PTL
     DEF AdministrationSpec, GovernanceSpec, RateSpec, ImportSpec

(***************************************************************************)
(* The rows and keys of the three stay what the tables and Redis hold, and *)
(* no import ever makes an administrator.                                  *)
(***************************************************************************)
THEOREM AdministrationTypes == AdministrationSpec => []AdministrationTypeOK
<1>1. GovernanceTypeOK /\ RateTypeOK /\ ImportTypeOK => AdministrationTypeOK
  BY DEF AdministrationTypeOK
<1> QED
  BY <1>1, EachAdministers, GovernanceTypes, RateTypes, ImportTypes, PTL
==============================================================================
