----------------------------- MODULE StaffImport -----------------------------
(***************************************************************************)
(* Staff accounts from a CSV file: POST /admin/users/import.  A dry run    *)
(* only forecasts.  A real import is one transaction over all its rows,    *)
(* but each row first creates an account at the identity provider, outside *)
(* of the transaction; the answer of a failed call is replaced by an id    *)
(* that the provider does not know, which the foreign key on auth.users    *)
(* then refuses.  The tables are those the migrations create.              *)
(*                                                                         *)
(* Left out: the setup token of each row (a cache entry, sent even when    *)
(* the import rolls back later), the limits on file size and rows, role    *)
(* scopes other than department, zone and ward.                            *)
(***************************************************************************)
EXTENDS Integers, FiniteSets

CONSTANTS
  Imports,       \* bound: requests, each used once
  Files,         \* CSV files
  Rows,          \* Rows[f]: the rows of file f
  CitizenPhones, \* phones with an account at the provider before any import
  WardNumbers,   \* wards of the organisation
  ZoneCodes,     \* its zones
  DepartmentCodes, \* codes of departments it may have
  NoWard, NoEmail,
  Malformed      \* a phone or an email that does not parse

(***************************************************************************)
(* An empty cell and one that names nothing are alike for zone, ward and   *)
(* department.  A phone is the normalised one.                             *)
(***************************************************************************)
ASSUME ImportConstants ==
  \A f \in Files :
    /\ IsFiniteSet(DOMAIN Rows[f])
    /\ \A k \in DOMAIN Rows[f] :
         /\ k \in Nat
         /\ DOMAIN Rows[f][k] =
              {"named", "role", "phone", "email", "department", "zone", "ward"}
         /\ Rows[f][k].named \in BOOLEAN

VARIABLES
  accounts,     \* the provider's accounts
  profiles,     \* committed rows of user_account, with their assignment
  seats,        \* committed rows of elected_representative
  logs,         \* committed rows of staff_bulk_import_log
  departments,  \* codes of the active departments
  importing     \* the transaction of each import

importVars == <<accounts, profiles, seats, logs, departments, importing>>

AllowedBulkRoles ==
  {"dispatcher", "department_staff", "zonal_supervisor", "field_worker",
   "corporator"}

(***************************************************************************)
(* at: new, admitted (the hash is new), listed (departments and phones     *)
(* read), planned (wards read, rows judged), answered (the provider has    *)
(* replied for the row), done.  known: what was read.  plan: the rows to   *)
(* create.                                                                 *)
(* certain: the provider's reply held an id.  pending: the seat of the     *)
(* last row, not yet inserted.                                             *)
(***************************************************************************)
NewImport ==
  [at |-> "new", file |-> 0, dry |-> FALSE, plan |-> {},
   known |-> [phones |-> {}, departments |-> {}, wards |-> {}],
   certain |-> FALSE, profiles |-> {}, seats |-> {}, pending |-> {}]

EndedImport == [NewImport EXCEPT !.at = "done"]

(* A row of UserAccount and its UserRoleAssignment. *)
Profile(q, k, row) ==
  [id |-> <<q, k>>, phone |-> row.phone, role |-> row.role, ward |-> row.ward]

Seat(q, k, row) == [ward |-> row.ward, user |-> <<q, k>>]

(***************************************************************************)
(* The log row holds the number created; rows and known are history: the   *)
(* rows the answer lists as created or would_create, and what the import   *)
(* had read when it judged them.                                           *)
(***************************************************************************)
ImportLog(q, f, dry, plan, known) ==
  [by |-> q, file |-> f, dry |-> dry, created |-> Cardinality(plan),
   rows |-> plan, known |-> known]

ImportTypeOK ==
  /\ \A p \in profiles : p.role \in AllowedBulkRoles /\ p.phone # Malformed
  /\ \A s \in seats : s.ward \in WardNumbers
  /\ \A l \in logs : l.by \in Imports /\ l.file \in Files
  /\ departments \subseteq DepartmentCodes
  /\ \A q \in Imports :
       importing[q].at \in
         {"new", "admitted", "listed", "planned", "answered", "done"}

ImportInit ==
  /\ accounts = {[id |-> phone, phone |-> phone, email |-> NoEmail] :
                   phone \in CitizenPhones}
  /\ profiles = {} /\ seats = {} /\ logs = {}
  /\ departments = {}
  /\ importing = [q \in Imports |-> NewImport]

------------------------------------------------------------------------------
(***************************************************************************)
(* What a row needs to be created: name, role and phone, in this order,    *)
(* then a phone that neither the table nor an earlier such row has, then   *)
(* its email and the scope of its role.                                    *)
(***************************************************************************)
(* Mutant of HasIdentity: any role. *)
HasNameAndPhone(row) == row.named /\ row.phone # Malformed

HasIdentity(row) ==
  row.named /\ row.role \in AllowedBulkRoles /\ row.phone # Malformed

(* Mutant of PhoneIsNew: a row counts as seen only when it is created. *)
PhoneIsNewInTable(f, k, known) == Rows[f][k].phone \notin known.phones

PhoneIsNew(f, k, known) ==
  /\ Rows[f][k].phone \notin known.phones
  /\ \A j \in DOMAIN Rows[f] :
       j < k /\ HasIdentity(Rows[f][j]) => Rows[f][j].phone # Rows[f][k].phone

HasScope(row, known) ==
  CASE row.role = "department_staff" -> row.department \in known.departments
    [] row.role = "zonal_supervisor" -> row.zone \in ZoneCodes
    [] row.role = "field_worker" ->
         row.department \in known.departments /\ row.ward \in WardNumbers
    [] row.role = "corporator" -> row.ward \in WardNumbers
    [] OTHER -> TRUE

IsSound(f, k, known) ==
  LET row == Rows[f][k]
  IN  HasIdentity(row) /\ PhoneIsNew(f, k, known)
        /\ row.email # Malformed /\ HasScope(row, known)

(***************************************************************************)
(* The rows a run would create.  A corporator needs a ward without one; a  *)
(* real import takes the ward for the row, a dry run does not.             *)
(***************************************************************************)
(* Mutant of Created: a dry run does not look at the wards taken. *)
CreatedUnseated(f, dry, known) ==
  {k \in DOMAIN Rows[f] :
     /\ IsSound(f, k, known)
     /\ Rows[f][k].role = "corporator" =>
          dry \/ /\ Rows[f][k].ward \notin known.wards
                 /\ \A j \in DOMAIN Rows[f] :
                      j < k /\ IsSound(f, j, known)
                        /\ Rows[f][j].role = "corporator"
                        => Rows[f][j].ward # Rows[f][k].ward}

Created(f, dry, known) ==
  {k \in DOMAIN Rows[f] :
     /\ IsSound(f, k, known)
     /\ Rows[f][k].role = "corporator" =>
          /\ Rows[f][k].ward \notin known.wards
          /\ dry \/ \A j \in DOMAIN Rows[f] :
               j < k /\ IsSound(f, j, known) /\ Rows[f][j].role = "corporator"
                 => Rows[f][j].ward # Rows[f][k].ward}

------------------------------------------------------------------------------
(* create_department: uq_department_org_code refuses the code a second time. *)
CreateDepartment(code) ==
  /\ code \notin departments
  /\ departments' = departments \cup {code}
  /\ UNCHANGED <<accounts, profiles, seats, logs, importing>>

AlreadyImported(f) == \E l \in logs : l.file = f /\ ~ l.dry

BeginImport(q, f, dry) ==
  /\ importing[q].at = "new"
  /\ importing' = [importing EXCEPT
       ![q] = IF ~ dry /\ AlreadyImported(f)
                THEN EndedImport
                ELSE [importing[q] EXCEPT
                        !.at = "admitted", !.file = f, !.dry = dry]]
  /\ UNCHANGED <<accounts, profiles, seats, logs, departments>>

Directory ==
  [phones |-> {p.phone : p \in profiles}, departments |-> departments,
   wards |-> {}]

ReadDirectory(q) ==
  /\ importing[q].at = "admitted"
  /\ importing' = [importing EXCEPT
       ![q] = [importing[q] EXCEPT !.at = "listed", !.known = Directory]]
  /\ UNCHANGED <<accounts, profiles, seats, logs, departments>>

(* The wards taken are read next; then every row is judged. *)
JudgeRows(q) ==
  /\ importing[q].at = "listed"
  /\ LET mine == importing[q]
         known == [phones |-> mine.known.phones,
                   departments |-> mine.known.departments,
                   wards |-> {s.ward : s \in seats}]
     IN  importing' = [importing EXCEPT
           ![q] = [mine EXCEPT
                     !.at = "planned", !.known = known,
                     !.plan = Created(mine.file, mine.dry, known)]]
  /\ UNCHANGED <<accounts, profiles, seats, logs, departments>>

------------------------------------------------------------------------------
(***************************************************************************)
(* The next row of a real import: those before it have their profile.      *)
(***************************************************************************)
NextRow(q) ==
  CHOOSE k \in importing[q].plan :
    /\ <<q, k>> \notin {p.id : p \in importing[q].profiles}
    /\ \A j \in importing[q].plan :
         j < k => <<q, j>> \in {p.id : p \in importing[q].profiles}

MoreRows(q) ==
  ~ importing[q].dry
    /\ Cardinality(importing[q].profiles) < Cardinality(importing[q].plan)

RowInHand(q) == Rows[importing[q].file][NextRow(q)]

(* Without an email, the account gets one made of the phone. *)
ProviderRefuses(row) ==
  \E a \in accounts :
    a.phone = row.phone \/ (row.email # NoEmail /\ a.email = row.email)

(***************************************************************************)
(* admin.create_user.  Its answer, not its effect, decides what the import *)
(* knows; a call that fails for any reason leaves an unknown id.           *)
(***************************************************************************)
CreateAccount(q) ==
  LET row == RowInHand(q)
  IN  /\ importing[q].at = "planned" /\ MoreRows(q)
      /\ \E created, answered \in BOOLEAN :
           /\ created => ~ ProviderRefuses(row)
           /\ answered => created
           /\ accounts' = IF created
                THEN accounts \cup {[id |-> <<q, NextRow(q)>>,
                                     phone |-> row.phone, email |-> row.email]}
                ELSE accounts
           /\ importing' = [importing EXCEPT
                ![q] = [importing[q] EXCEPT
                          !.at = "answered", !.certain = answered]]
      /\ UNCHANGED <<profiles, seats, logs, departments>>

(***************************************************************************)
(* A flush inserts the seat of the row before.  It waits for another       *)
(* import's uncommitted seat of the ward; a committed one refuses it       *)
(* (uq_elected_representative_ward).                                       *)
(***************************************************************************)
FlushWaits(q) ==
  \E s \in importing[q].pending, r \in Imports \ {q} :
    \E t \in importing[r].seats : t.ward = s.ward

(* Mutant of SeatTaken: the table has no such key. *)
SeatNeverTaken(q) == FALSE

SeatTaken(q) ==
  \E s \in importing[q].pending, t \in seats : t.ward = s.ward

(* Mutant of UnknownUser: no foreign key on auth.users. *)
UserNeverUnknown(q) == FALSE

UnknownUser(q) == ~ importing[q].certain

(* The profile of the row; or a refusal, which rolls back every row. *)
InsertProfile(q) ==
  LET row == RowInHand(q)
      k == NextRow(q)
  IN  /\ importing[q].at = "answered"
      /\ ~ FlushWaits(q)
      /\ importing' = [importing EXCEPT
           ![q] = IF SeatTaken(q) \/ UnknownUser(q)
                    THEN EndedImport
                    ELSE [importing[q] EXCEPT
                            !.at = "planned",
                            !.profiles = @ \cup {Profile(q, k, row)},
                            !.seats = @ \cup importing[q].pending,
                            !.pending = IF row.role = "corporator"
                                          THEN {Seat(q, k, row)} ELSE {}]]
      /\ UNCHANGED <<accounts, profiles, seats, logs, departments>>

(* Mutant of LogRefused: the table has no such key. *)
LogNeverRefused(q) == FALSE

(* uq_import_org_hash_live: this file has been imported since. *)
LogRefused(q) == ~ importing[q].dry /\ AlreadyImported(importing[q].file)

(* The log row, and COMMIT. *)
CommitImport(q) ==
  LET mine == importing[q]
  IN  /\ mine.at = "planned" /\ ~ MoreRows(q)
      /\ ~ FlushWaits(q)
      /\ IF SeatTaken(q) \/ LogRefused(q)
           THEN UNCHANGED <<profiles, seats, logs>>
           ELSE /\ profiles' = profiles \cup mine.profiles
                /\ seats' = seats \cup mine.seats \cup mine.pending
                /\ logs' = logs \cup
                     {ImportLog(q, mine.file, mine.dry, mine.plan, mine.known)}
      /\ importing' = [importing EXCEPT ![q] = EndedImport]
      /\ UNCHANGED <<accounts, departments>>

(* A crash, a lost connection, the victim of a deadlock. *)
AbortImport(q) ==
  /\ importing[q].at \notin {"new", "done"}
  /\ importing' = [importing EXCEPT ![q] = EndedImport]
  /\ UNCHANGED <<accounts, profiles, seats, logs, departments>>

ImportNext ==
  \/ \E code \in DepartmentCodes : CreateDepartment(code)
  \/ \E q \in Imports :
       \/ \E f \in Files, dry \in BOOLEAN : BeginImport(q, f, dry)
       \/ ReadDirectory(q)
       \/ JudgeRows(q)
       \/ CreateAccount(q)
       \/ InsertProfile(q)
       \/ CommitImport(q)
       \/ AbortImport(q)

ImportSpec == ImportInit /\ [][ImportNext]_importVars

------------------------------------------------------------------------------
(***************************************************************************)
(* user_account has no unique phone, and an import reads the phones only   *)
(* once; still no phone gets two profiles, whatever files overlap: the     *)
(* provider has the phone once, and a profile needs the provider's id.     *)
(***************************************************************************)
OneProfilePerPhone ==
  \A p, r \in profiles : p.phone = r.phone => p = r

(***************************************************************************)
(* The elected representatives are those of the committed corporator       *)
(* profiles, one for each of their wards.                                  *)
(***************************************************************************)
SeatsMatchCorporators ==
  /\ \A s, t \in seats : s.ward = t.ward => s = t
  /\ seats = {[ward |-> p.ward, user |-> p.id] :
                p \in {p \in profiles : p.role = "corporator"}}

(***************************************************************************)
(* An import takes effect whole or not at all, and each file once: the     *)
(* profiles of an import are as many as its log row says, there are none   *)
(* without a log row, and no two real log rows are of one file.            *)
(***************************************************************************)
ImportsAreWhole ==
  /\ \A q \in Imports :
       Cardinality({p \in profiles : p.id[1] = q}) =
         IF \E l \in logs : l.by = q /\ ~ l.dry
           THEN (CHOOSE l \in logs : l.by = q).created
           ELSE 0
  /\ \A l, m \in logs : ~ l.dry /\ ~ m.dry /\ l.file = m.file => l = m

(***************************************************************************)
(* What a dry run announces binds the import of the file: when both have   *)
(* committed and read the same, every row with an account now was          *)
(* announced, and a row announced that got none is a corporator's, whose   *)
(* ward went to an earlier row of the file (a dry run does not take it).   *)
(* An import that is refused as a whole is not bound.                      *)
(***************************************************************************)
Done(q) == {p.id[2] : p \in {p \in profiles : p.id[1] = q}}

SameWardBefore(f, k, rows) ==
  \E j \in rows :
    j < k /\ Rows[f][j].role = "corporator" /\ Rows[f][k].role = "corporator"
      /\ Rows[f][j].ward = Rows[f][k].ward

ForecastBinds ==
  \A d, l \in logs :
    d.dry /\ ~ l.dry /\ d.file = l.file /\ d.known = l.known =>
      /\ Done(l.by) \subseteq d.rows
      /\ \A k \in d.rows \ Done(l.by) : SameWardBefore(l.file, k, Done(l.by))

==============================================================================
