------------------------------ MODULE Governance ------------------------------
(***************************************************************************)
(* What an organisation's administrators configure, and the cache that the *)
(* public reads: the AHP weight matrix (POST /prioritization/ahp/matrix)   *)
(* and the taxonomy of categories (propose, approve).  Every write is a    *)
(* transaction, then a separate call that deletes a cache key; every read  *)
(* is a cache call, then a SELECT, then a cache call.  Between any two of  *)
(* them other requests run, and any cache call may fail or be lost with    *)
(* its process.                                                            *)
(*                                                                         *)
(* One organisation: no row and no key of one is used for another.         *)
(***************************************************************************)
EXTENDS Integers

CONSTANTS
  Setters,      \* bound: requests that set a matrix, each used once
  Ratio,        \* Ratio[q]: consistency ratio of q's matrix, in 10^-7
  Categories,   \* category codes
  Rubrics,      \* severity rubrics that an approval may carry
  Approvers,    \* bound: approvals, each used once
  Readers,      \* concurrent readers
  NoMatrix,     \* no row, and the default matrix that stands in for it
  NoValue       \* a key that is not in the cache

ASSUME GovernanceConstants ==
  /\ Ratio \in [Setters -> Nat]
  /\ NoMatrix \notin Setters
  /\ Rubrics \cap {"absent", "proposed"} = {}

Keys == {"matrix", "taxonomy"}

VARIABLES
  matrix,     \* matrix[q]: the row that q inserted
  category,   \* category[c]: its status; for an approved one, its rubric
  cache,      \* the two keys in Redis
  setting,    \* the requests that set a matrix
  approving,  \* the requests that approve a category
  reading,    \* the requests that read
  excused     \* excused[k]: a call that would have kept k current failed

governanceVars ==
  <<matrix, category, cache, setting, approving, reading, excused>>

CategoryStatus == {"absent", "proposed"} \cup Rubrics

(* What the two public reads select. *)
ActiveMatrices == {q \in Setters : matrix[q] = "active"}

Approved == {c \in Categories : category[c] \in Rubrics}

Current(k) ==
  IF k = "matrix"
    THEN IF ActiveMatrices = {} THEN NoMatrix
                                ELSE CHOOSE q \in ActiveMatrices : TRUE
    ELSE [c \in Approved |-> category[c]]

Cached(value) == [value |-> value, expires |-> TRUE]

NewSetter == [at |-> "new", replaces |-> NoMatrix]

NewReader == [at |-> "new", key |-> "matrix", value |-> NoValue]

GovernanceTypeOK ==
  /\ matrix \in [Setters -> {"absent", "active", "inactive"}]
  /\ category \in [Categories -> CategoryStatus]
  /\ \A k \in Keys : cache[k] = NoValue \/ cache[k] = Cached(cache[k].value)
  /\ setting \in [Setters ->
       [at : {"new", "read", "committed", "refused", "done"},
        replaces : Setters \cup {NoMatrix}]]
  /\ approving \in [Approvers -> {"new", "committed", "done"}]
  /\ \A r \in Readers :
       /\ reading[r].at \in {"new", "missed", "selected"}
       /\ reading[r].key \in Keys
  /\ excused \in [Keys -> BOOLEAN]

GovernanceInit ==
  /\ matrix = [q \in Setters |-> "absent"]
  /\ category = [c \in Categories |-> "absent"]
  /\ cache = [k \in Keys |-> NoValue]
  /\ setting = [q \in Setters |-> NewSetter]
  /\ approving = [a \in Approvers |-> "new"]
  /\ reading = [r \in Readers |-> NewReader]
  /\ excused = [k \in Keys |-> FALSE]

------------------------------------------------------------------------------
(***************************************************************************)
(* AHPMatrix.solve compares the exact ratio with 0.10 and stores it        *)
(* rounded to six digits; the table then compares the stored one.          *)
(***************************************************************************)
IsConsistent(q) == Ratio[q] < 1000000

StoredRatioIsAccepted(q) == (Ratio[q] + 5) \div 10 < 100000

RefuseMatrix(q) ==
  /\ setting[q].at = "new" /\ ~ IsConsistent(q)
  /\ setting' = [setting EXCEPT ![q].at = "refused"]
  /\ UNCHANGED <<matrix, category, cache, approving, reading, excused>>

(* SELECT the active row. *)
ReadActiveMatrix(q) ==
  /\ setting[q].at = "new" /\ IsConsistent(q)
  /\ setting' = [setting EXCEPT
                   ![q] = [at |-> "read", replaces |-> Current("matrix")]]
  /\ UNCHANGED <<matrix, category, cache, approving, reading, excused>>

(***************************************************************************)
(* uq_ahp_org_active: one active row per organisation, and one inactive    *)
(* row.  The UPDATE of the row read comes first; it refuses nothing when   *)
(* that row is inactive already.                                           *)
(***************************************************************************)
Deactivated(q) == matrix[setting[q].replaces] = "active"

(* Mutant of UniqueRefuses: the key covers only the inactive rows. *)
UniqueRefusesInactiveOnly(q) ==
  /\ setting[q].replaces # NoMatrix /\ Deactivated(q)
  /\ \E r \in Setters : matrix[r] = "inactive"

UniqueRefuses(q) ==
  \/ /\ setting[q].replaces # NoMatrix /\ Deactivated(q)
     /\ \E r \in Setters : matrix[r] = "inactive"
  \/ \E r \in ActiveMatrices : r # setting[q].replaces

CommitMatrix(q) ==
  /\ setting[q].at = "read"
  /\ IF UniqueRefuses(q) \/ ~ StoredRatioIsAccepted(q)
       THEN /\ setting' = [setting EXCEPT ![q].at = "refused"]
            /\ UNCHANGED matrix
       ELSE /\ setting' = [setting EXCEPT ![q].at = "committed"]
            /\ matrix' = [r \in Setters |->
                            CASE r = q -> "active"
                              [] r = setting[q].replaces -> "inactive"
                              [] OTHER -> matrix[r]]
  /\ UNCHANGED <<category, cache, approving, reading, excused>>

------------------------------------------------------------------------------
(***************************************************************************)
(* A proposal: uq_taxonomy_org_code refuses a second one of the same code. *)
(***************************************************************************)
ProposeCategory(c) ==
  /\ category[c] = "absent"
  /\ category' = [category EXCEPT ![c] = "proposed"]
  /\ UNCHANGED <<matrix, cache, setting, approving, reading, excused>>

(* An approval needs a rubric; it may also replace that of an approved one. *)
ApproveCategory(a, c, rubric) ==
  /\ approving[a] = "new" /\ category[c] # "absent"
  /\ category' = [category EXCEPT ![c] = rubric]
  /\ approving' = [approving EXCEPT ![a] = "committed"]
  /\ UNCHANGED <<matrix, cache, setting, reading, excused>>

------------------------------------------------------------------------------
(***************************************************************************)
(* cache_delete after the commit; or it fails, which nobody is told, or    *)
(* the process ends before it.                                             *)
(***************************************************************************)
(* Mutant of Invalidate: the other key is deleted. *)
InvalidateOtherKey(k) ==
  /\ cache' = [j \in Keys |-> IF j = k THEN cache[j] ELSE NoValue]
  /\ excused' = [excused EXCEPT ![k] = FALSE]

Invalidate(k) ==
  /\ cache' = [cache EXCEPT ![k] = NoValue]
  /\ excused' = [excused EXCEPT ![k] = FALSE]

LoseInvalidation(k) ==
  /\ excused' = [excused EXCEPT ![k] = TRUE]
  /\ UNCHANGED cache

FinishMatrix(q) ==
  /\ setting[q].at = "committed"
  /\ Invalidate("matrix") \/ LoseInvalidation("matrix")
  /\ setting' = [setting EXCEPT ![q].at = "done"]
  /\ UNCHANGED <<matrix, category, approving, reading>>

FinishApproval(a) ==
  /\ approving[a] = "committed"
  /\ Invalidate("taxonomy") \/ LoseInvalidation("taxonomy")
  /\ approving' = [approving EXCEPT ![a] = "done"]
  /\ UNCHANGED <<matrix, category, setting, reading>>

------------------------------------------------------------------------------
(***************************************************************************)
(* A public read.  A hit is the answer; a miss, or a cache that cannot be  *)
(* reached, leads to the SELECT; what it found is stored for two or three  *)
(* minutes, whatever has been committed since.                             *)
(***************************************************************************)
ReadCache(r, k) ==
  /\ reading[r].at = "new"
  /\ reading' = [reading EXCEPT ![r] = [@ EXCEPT !.at = "missed", !.key = k]]
  /\ UNCHANGED <<matrix, category, cache, setting, approving, excused>>

Select(r) ==
  /\ reading[r].at = "missed"
  /\ reading' = [reading EXCEPT
       ![r] = [@ EXCEPT !.at = "selected",
                        !.value = Current(reading[r].key)]]
  /\ UNCHANGED <<matrix, category, cache, setting, approving, excused>>

(* Mutant of Fill: the key is stored without a time to live. *)
FillForEver(k, value) ==
  /\ cache' = [cache EXCEPT ![k] = [value |-> value, expires |-> FALSE]]
  /\ excused' = [excused EXCEPT ![k] = value # Current(k)]

Fill(k, value) ==
  /\ cache' = [cache EXCEPT ![k] = Cached(value)]
  /\ excused' = [excused EXCEPT ![k] = value # Current(k)]

StoreCache(r) ==
  /\ reading[r].at = "selected"
  /\ \/ Fill(reading[r].key, reading[r].value)
     \/ UNCHANGED <<cache, excused>>
  /\ reading' = [reading EXCEPT ![r] = NewReader]
  /\ UNCHANGED <<matrix, category, setting, approving>>

ExpireKey(k) ==
  /\ cache[k] # NoValue /\ cache[k].expires
  /\ cache' = [cache EXCEPT ![k] = NoValue]
  /\ excused' = [excused EXCEPT ![k] = FALSE]
  /\ UNCHANGED <<matrix, category, setting, approving, reading>>

------------------------------------------------------------------------------
GovernanceNext ==
  \/ \E q \in Setters :
       RefuseMatrix(q) \/ ReadActiveMatrix(q) \/ CommitMatrix(q)
         \/ FinishMatrix(q)
  \/ \E c \in Categories : ProposeCategory(c)
  \/ \E a \in Approvers :
       \/ \E c \in Categories, rubric \in Rubrics : ApproveCategory(a, c, rubric)
       \/ FinishApproval(a)
  \/ \E r \in Readers :
       \/ \E k \in Keys : ReadCache(r, k)
       \/ Select(r)
       \/ StoreCache(r)
  \/ \E k \in Keys : ExpireKey(k)

(***************************************************************************)
(* A request that has begun goes on; Redis drops a key when its time is    *)
(* up.  Nothing makes anyone send a request.                               *)
(***************************************************************************)
GovernanceFairness ==
  /\ \A q \in Setters : WF_governanceVars(CommitMatrix(q) \/ FinishMatrix(q))
  /\ \A a \in Approvers : WF_governanceVars(FinishApproval(a))
  /\ \A r \in Readers : WF_governanceVars(Select(r) \/ StoreCache(r))
  /\ \A k \in Keys : WF_governanceVars(ExpireKey(k))

GovernanceSpec == GovernanceInit /\ [][GovernanceNext]_governanceVars
                    /\ GovernanceFairness

------------------------------------------------------------------------------
(***************************************************************************)
(* No administrator's matrix is silently lost to another's: a matrix that  *)
(* becomes active replaces exactly the one its request had read as active  *)
(* (or none, where it had read none), whoever committed in between.        *)
(***************************************************************************)
ReplacesWhatItRead ==
  [][ \A q \in Setters :
        matrix[q] # "active" /\ matrix'[q] = "active" =>
          /\ ActiveMatrices \subseteq {setting[q].replaces}
          /\ ActiveMatrices' = {q} ]_governanceVars

(***************************************************************************)
(* A cached answer that is no longer what the database says is explained   *)
(* by a writer that is just about to delete it, by a delete that was lost, *)
(* or by a reader that stored what it had selected before the commit.      *)
(***************************************************************************)
Stale(k) == cache[k] # NoValue /\ cache[k].value # Current(k)

StaleOnlyIfExcused ==
  /\ Stale("matrix") =>
       excused["matrix"] \/ \E q \in Setters : setting[q].at = "committed"
  /\ Stale("taxonomy") =>
       excused["taxonomy"] \/ \E a \in Approvers : approving[a] = "committed"

(***************************************************************************)
(* Whatever was lost, when the administrators have finished the caches     *)
(* come to agree with the database and stay so.                            *)
(***************************************************************************)
CachesCatchUp == <>[](\A k \in Keys : ~ Stale(k))

(***************************************************************************)
(* docs/specs/phase-6.md: an administrator can update the matrix.  When    *)
(* nobody else has changed it since the request read it, a consistent      *)
(* matrix is not refused.  (The third one is.)                             *)
(***************************************************************************)
UncontestedMatrixIsTaken ==
  [][ \A q \in Setters :
        setting[q].at = "read" /\ setting[q].replaces = Current("matrix")
          => setting'[q].at # "refused" ]_governanceVars
==============================================================================
