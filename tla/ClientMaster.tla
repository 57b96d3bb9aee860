---------------------------- MODULE ClientMaster ----------------------------
(***************************************************************************)
(* Clients and their identifiers (app/routers/clients.py).  A client is    *)
(* created with all its identifiers in one transaction, whose inserts take *)
(* unique keys one after the other and hold them until it ends.            *)
(***************************************************************************)
EXTENDS Requests

CONSTANTS
    Clients,            \* ids of the clients that can exist
    Types,              \* identifier types: TIN, BIN, ...
    Cores, Spellings,   \* a value as it was typed: its letters and digits, and the rest
    Details,            \* what update_client can change of a client
    Lists,              \* the lists of identifiers that creations come with
    MaxClientVersion    \* bound: no update starts from a later version

VARIABLES
    client,         \* the committed clients, NoRow for an id without one
    identifiers,    \* the committed identifiers of each client
    statuses        \* to_status of each client's ClientStatusHistory, in commit order

clientTables == <<client, identifiers, statuses, stale>>

clientVars == <<client, identifiers, statuses, req, stale>>

\* _ALLOWED_TRANSITIONS, of which archive_client asks for the way to ARCHIVED.
MayFollow ==
    [PROSPECT       |-> {"CONFLICT_CHECK", "ARCHIVED"},
     CONFLICT_CHECK |-> {"APPROVED", "ARCHIVED"},
     APPROVED       |-> {"ONBOARDING", "ARCHIVED"},
     ONBOARDING     |-> {"ACTIVE", "SUSPENDED", "ARCHIVED"},
     ACTIVE         |-> {"SUSPENDED", "TERMINATED"},
     SUSPENDED      |-> {"ACTIVE", "TERMINATED"},
     TERMINATED     |-> {"ARCHIVED"},
     ARCHIVED       |-> {}]

ClientStatus == DOMAIN MayFollow

ClientRow == [status : ClientStatus, archived : BOOLEAN, details : Details, version : Nat]

Identifier == [type : Types, value : [core : Cores, spelling : Spellings]]

\* _normalize_identifier keeps letters and digits, in capitals.
Normalized(value) == value.core

\* Mutant: the value is compared as it was typed.
KeyAsTyped(x) == <<x.type, x.value>>

\* uq_client_identifier_type_value.
Key(x) == <<x.type, Normalized(x.value)>>

ASSUME ClientsAssumption == Lists \subseteq Seq(Identifier) /\ MaxClientVersion \in Nat

CreateRequest == [op : {"CREATE_CLIENT"}, client : Clients, details : Details,
                  identifiers : Lists, inserted : Nat]

UpdateRequest == [op : {"UPDATE_CLIENT"}, client : Clients, row : ClientRow, details : Details]

ClientArchiveRequest == [op : {"ARCHIVE_CLIENT"}, client : Clients, row : ClientRow]

ClientRequest == CreateRequest \cup UpdateRequest \cup ClientArchiveRequest

\* Worker w has inserted an identifier with key k and not committed it yet.
HoldsKey(w, k) ==
    /\ req[w].op = "CREATE_CLIENT"
    /\ \E n \in 1 .. req[w].inserted : Key(req[w].identifiers[n]) = k

Inserting(w) == req[w].op = "CREATE_CLIENT" /\ req[w].inserted < Len(req[w].identifiers)

NextIdentifier(w) == req[w].identifiers[req[w].inserted + 1]

\* The next insert of v waits for the transaction of w.
WaitsFor(v, w) == v # w /\ Inserting(v) /\ HoldsKey(w, Key(NextIdentifier(v)))

\* The key is committed, or the list has the type twice
\* (uq_client_identifier_client_type).
Collides(w) ==
    \/ \E c \in Clients : \E x \in identifiers[c] : Key(x) = Key(NextIdentifier(w))
    \/ \E n \in 1 .. req[w].inserted : req[w].identifiers[n].type = NextIdentifier(w).type

-----------------------------------------------------------------------------
ClientsInit ==
    /\ client = [c \in Clients |-> NoRow]
    /\ identifiers = [c \in Clients |-> {}]
    /\ statuses = [c \in Clients |-> <<>>]
    /\ req = [w \in Workers |-> Idle]
    /\ stale = FALSE

\* create_client, up to its commit: partner and manager are in order, the
\* warnings about similar names only inform.  An id is given once.
CreateClient(w, c, details, list) ==
    /\ client[c] = NoRow
    /\ \A v \in Workers : req[v].op = "CREATE_CLIENT" => req[v].client # c
    /\ Begin(w, [op |-> "CREATE_CLIENT", client |-> c, details |-> details,
                 identifiers |-> list, inserted |-> 0])
    /\ UNCHANGED clientTables

\* The flush of the commit inserts the identifiers in their order.  One that
\* collides rolls everything back, the client included; one whose key another
\* transaction holds waits for the outcome.
InsertIdentifier(w) ==
    /\ Inserting(w)
    /\ \/ Collides(w) /\ Finish(w)
       \/ /\ ~Collides(w) /\ \A v \in Workers : ~WaitsFor(w, v)
          /\ req' = [req EXCEPT ![w].inserted = @ + 1]
    /\ UNCHANGED clientTables

\* PostgreSQL ends a transaction that waits for itself through others; the
\* error is not an IntegrityError, and the session is closed without a commit.
BreakDeadlock(w) ==
    /\ \E S \in SUBSET Workers :
          /\ w \in S
          /\ \A v \in S : (\E u \in S : WaitsFor(v, u)) /\ (\E u \in S : WaitsFor(u, v))
    /\ Finish(w)
    /\ UNCHANGED clientTables

CommitClient(w) ==
    LET r == req[w]
    IN  /\ r.op = "CREATE_CLIENT" /\ r.inserted = Len(r.identifiers)
        /\ client' = [client EXCEPT ![r.client] = [status |-> "PROSPECT", archived |-> FALSE,
                                                   details |-> r.details, version |-> 1]]
        /\ identifiers' = [identifiers EXCEPT ![r.client] =
                              {r.identifiers[n] : n \in 1 .. r.inserted}]
        /\ statuses' = [statuses EXCEPT ![r.client] = <<"PROSPECT">>]
        /\ Finish(w)
        /\ UNCHANGED stale

\* update_client: version and archive are those of the loaded row.
UpdateClient(w, c, details) ==
    /\ client[c] # NoRow /\ ~client[c].archived
    /\ client[c].version <= MaxClientVersion
    /\ Begin(w, [op |-> "UPDATE_CLIENT", client |-> c, row |-> client[c], details |-> details])
    /\ UNCHANGED clientTables

\* Mutant: the whole row is written back.
CommitClientUpdateInFull(w) ==
    LET r == req[w]
    IN  /\ r.op = "UPDATE_CLIENT"
        /\ client' = [client EXCEPT ![r.client] =
                         [r.row EXCEPT !.details = r.details, !.version = @ + 1]]
        /\ stale' = (stale \/ client[r.client] # r.row)
        /\ Finish(w)
        /\ UNCHANGED <<identifiers, statuses>>

CommitClientUpdate(w) ==
    LET r == req[w]
    IN  /\ r.op = "UPDATE_CLIENT"
        /\ client' = [client EXCEPT ![r.client].details = Column(@, r.row.details, r.details),
                                    ![r.client].version = r.row.version + 1]
        /\ stale' = (stale \/ client[r.client] # r.row)
        /\ Finish(w)
        /\ UNCHANGED <<identifiers, statuses>>

\* archive_client.
ArchiveClient(w, c) ==
    /\ client[c] # NoRow /\ ~client[c].archived
    /\ "ARCHIVED" \in MayFollow[client[c].status]
    /\ Begin(w, [op |-> "ARCHIVE_CLIENT", client |-> c, row |-> client[c]])
    /\ UNCHANGED clientTables

CommitClientArchive(w) ==
    LET r == req[w]
    IN  /\ r.op = "ARCHIVE_CLIENT"
        /\ client' = [client EXCEPT ![r.client].status = "ARCHIVED", ![r.client].archived = TRUE,
                                    ![r.client].version = r.row.version + 1]
        /\ statuses' = [statuses EXCEPT ![r.client] = Append(@, "ARCHIVED")]
        /\ stale' = (stale \/ client[r.client] # r.row)
        /\ Finish(w)
        /\ UNCHANGED identifiers

ClientRequestArrives(w) ==
    \E c \in Clients :
        \/ \E d \in Details, list \in Lists : CreateClient(w, c, d, list)
        \/ \E d \in Details : UpdateClient(w, c, d)
        \/ ArchiveClient(w, c)

ClientRequestStep(w) ==
    \/ InsertIdentifier(w)
    \/ BreakDeadlock(w)
    \/ CommitClient(w)
    \/ CommitClientUpdate(w)
    \/ CommitClientArchive(w)

ClientsNext == \E w \in Workers : ClientRequestArrives(w) \/ ClientRequestStep(w)

ClientsSpec == ClientsInit /\ [][ClientsNext]_clientVars

\* Threads are scheduled, and who waits for a key gets its turn.
ClientsFairness == \A w \in Workers : SF_clientVars(ClientRequestStep(w))
-----------------------------------------------------------------------------
(* Properties.                                                             *)

ClientsTypeOK ==
    /\ client \in [Clients -> ClientRow \cup {NoRow}]
    /\ identifiers \in [Clients -> SUBSET Identifier]
    /\ statuses \in [Clients -> Seq(ClientStatus)]
    /\ req \in [Workers -> {Idle} \cup ClientRequest]
    /\ stale \in BOOLEAN

\* No two clients share an identifier, however it is spelled, and no client
\* has two of one type, whatever creations overlap; an id without a client has
\* none, so a refused creation leaves nothing behind.
IdentifiersAreUnique ==
    \A c \in Clients :
        /\ client[c] = NoRow => identifiers[c] = {}
        /\ \A x \in identifiers[c], d \in Clients : \A y \in identifiers[d] :
              x.type = y.type /\ (c = d \/ Normalized(x.value) = Normalized(y.value))
              => c = d /\ x = y

\* Nothing takes a client out of the archive or writes another status over it,
\* not even an update that loaded the client before; and unless stale nothing
\* of an archived client changes.
ClientArchiveIsFinal ==
    [][\A c \in Clients :
          client[c] # NoRow /\ client[c].archived
          => /\ client'[c].archived /\ client'[c].status = "ARCHIVED"
             /\ ~stale' => client'[c] = client[c] /\ statuses'[c] = statuses[c]]_clientVars
=============================================================================
