---------------------------- MODULE StaffMaster ----------------------------
(***************************************************************************)
(* One staff member, the departments and the designations                  *)
(* (app/routers/staff.py).  Departments and designations are only ever     *)
(* added, so looking one up a statement later finds at least as much: the  *)
(* look-ups of a request are one step with its load.                       *)
(***************************************************************************)
EXTENDS Requests

CONSTANTS
    Departments,
    Designations,
    None,           \* no department, no designation
    MaxStaffVersion \* bound on the version of the member

VARIABLES
    departments,    \* the departments there are
    designation,    \* the department of each designation, NoRow if it is not there
    profile,        \* the member's row
    updates         \* how many STAFF_UPDATED events the member has

staffTables == <<departments, designation, profile, updates, stale>>

staffVars == <<departments, designation, profile, updates, req, stale>>

ProfileRow ==
    [department : Departments \cup {None}, designation : Designations \cup {None}, version : Nat]

StaffRequest ==
    [op : {"ADD_DESIGNATION"}, designation : Designations, department : Departments \cup {None}]
    \cup [op : {"CREATE_STAFF"}, to : ProfileRow] \cup [op : {"UPDATE_STAFF"}, row : ProfileRow, to : ProfileRow]

\* Mutant: the designation is not compared with the department.
LinksExist(row) ==
    /\ row.department \in departments \cup {None}
    /\ row.designation # None => designation[row.designation] # NoRow

\* _validate_links.  A designation without a department goes with every one.
LinksAreValid(row) ==
    /\ row.department \in departments \cup {None}
    /\ row.designation # None =>
          /\ designation[row.designation] # NoRow
          /\ row.department # None =>
                designation[row.designation].department \in {None, row.department}

-----------------------------------------------------------------------------
StaffInit ==
    /\ departments = {}
    /\ designation = [g \in Designations |-> NoRow]
    /\ profile = NoRow
    /\ updates = 0
    /\ req = [w \in Workers |-> Idle]
    /\ stale = FALSE

\* One insert; a second row for the same key is refused by the commit.
CreateDepartment(w, d) ==
    /\ req[w] = Idle
    /\ departments' = departments \cup {d}
    /\ UNCHANGED <<designation, profile, updates, req, stale>>

\* create_designation looks its department up first.
CreateDesignation(w, g, d) ==
    /\ d \in departments \cup {None}
    /\ Begin(w, [op |-> "ADD_DESIGNATION", designation |-> g, department |-> d])
    /\ UNCHANGED staffTables

CommitDesignation(w) ==
    LET r == req[w]
    IN  /\ r.op = "ADD_DESIGNATION"
        /\ designation' = IF designation[r.designation] # NoRow THEN designation
                          ELSE [designation EXCEPT ![r.designation] = [department |-> r.department]]
        /\ Finish(w)
        /\ UNCHANGED <<departments, profile, updates, stale>>

CreateStaff(w, d, g) ==
    LET row == [department |-> d, designation |-> g, version |-> 1]
    IN  /\ req[w] = Idle /\ profile = NoRow
        /\ LinksAreValid(row)
        /\ profile' = row
        /\ UNCHANGED <<departments, designation, updates, req, stale>>

\* update_staff by a client that has seen the version there is; what the
\* request leaves out stays as loaded.
UpdateStaff(w, d, g) ==
    LET to == [department |-> d, designation |-> g, version |-> profile.version + 1]
    IN  /\ profile # NoRow /\ profile.version < MaxStaffVersion
        /\ LinksAreValid(to)
        /\ Begin(w, [op |-> "UPDATE_STAFF", row |-> profile, to |-> to])
        /\ UNCHANGED staffTables

CommitStaff(w) ==
    LET r == req[w]
    IN  /\ r.op = "UPDATE_STAFF"
        /\ profile' = [c \in DOMAIN profile |-> Column(profile[c], r.row[c], r.to[c])]
        /\ updates' = updates + 1
        /\ stale' = (stale \/ profile # r.row)
        /\ Finish(w)
        /\ UNCHANGED <<departments, designation>>

StaffNext == \E w \in Workers :
    \/ \E d \in Departments : CreateDepartment(w, d)
    \/ \E d \in Departments \cup {None}, g \in Designations : CreateDesignation(w, g, d)
    \/ \E d \in Departments \cup {None}, g \in Designations \cup {None} :
          CreateStaff(w, d, g) \/ UpdateStaff(w, d, g)
    \/ CommitDesignation(w)
    \/ CommitStaff(w)

StaffSpec == StaffInit /\ [][StaffNext]_staffVars
-----------------------------------------------------------------------------
(* Properties.                                                             *)

StaffTypeOK ==
    /\ departments \subseteq Departments
    /\ designation \in [Designations -> [department : Departments \cup {None}] \cup {NoRow}]
    /\ profile \in ProfileRow \cup {NoRow}
    /\ updates \in Nat
    /\ req \in [Workers -> {Idle} \cup StaffRequest]
    /\ stale \in BOOLEAN

\* Unless stale, the member's department and designation fit together,
\* although an update may change one of them and keep the other as it was
\* loaded, and the version counts the updates the events tell of.
StaffFitsTogether ==
    ~stale /\ profile # NoRow =>
        /\ profile.designation # None /\ profile.department # None =>
              designation[profile.designation].department \in {None, profile.department}
        /\ profile.version = updates + 1
=============================================================================
