------------------------------ MODULE RealmMove ------------------------------
(***************************************************************************)
(* The revisions 0009 and 0010 of the schema, up and down, while the       *)
(* program keeps running: the administrators leave the table user for one  *)
(* of their own, and the audit log drops its key on user.  Whatever was    *)
(* noted by id (sessions, tokens, audit entries) outlives the move.        *)
(*                                                                         *)
(* On PostgreSQL a revision is one transaction under READ COMMITTED, and   *)
(* keys are enforced.  ALTER TABLE locks user to the end, but nothing      *)
(* locks admin_identity between the statement that copies it and the one   *)
(* that drops it.  On SQLite no key is enforced, what stands before the    *)
(* first INSERT or UPDATE is committed on its own, and the rest keeps      *)
(* every other writer out.                                                 *)
(***************************************************************************)
EXTENDS Naturals

CONSTANTS People,    \* the values of the unique columns, username and email
          Engine,    \* "postgresql" or "sqlite"
          MaxId      \* bound on the ids

RealmAssumption == Engine \in {"postgresql", "sqlite"} /\ MaxId \in Nat \ {0}

VARIABLES revision,  \* alembic_version
          leftover,  \* SQLite: half of a revision is committed
          user,      \* the table; admin: the role column, where there is one
          admins,    \* the table admin_identity, empty where there is none
          sequence,  \* PostgreSQL: the next id of either table
          tokens,    \* customers' refresh tokens, by user id
          audit,     \* audit entries: the name of the actor and its id
          cookies,   \* sessions of administrators, by id
          merging,   \* 0009 on its way down has copied the administrators
          copied,    \* the rows it read
          dismissed, \* history: who has ever been deleted as administrator
          lost       \* history: who was appointed and dropped with the table

marks == <<tokens, audit, cookies>>
merge == <<merging, copied>>
history == <<dismissed, lost>>
moveVars == <<revision, leftover, user, admins, sequence, marks, merge, history>>

Ids == 1 .. MaxId
NoActor == 0
Accounts == [id : Ids, who : People]
Users == [id : Ids, who : People, admin : BOOLEAN]
Owned == [user : Ids, who : People]
ActorEntries == [by : People, actor : Ids \union {NoActor}]

Enforced == Engine = "postgresql"
HasActorKey == revision < 10

Account(r) == [id |-> r.id, who |-> r.who]
IdsOf(rows) == {r.id : r \in rows}
NamesOf(rows) == {r.who : r \in rows}
Distinct(rows) == \A r, s \in rows : r.id = s.id \/ r.who = s.who => r = s

OldAdmins == {r \in user : r.admin}
Customers == {Account(r) : r \in user \ OldAdmins}
Staff == admins \union {Account(r) : r \in OldAdmins}

TypeOK == /\ revision \in 8 .. 10 /\ leftover \in BOOLEAN
          /\ user \subseteq Users /\ admins \subseteq Accounts
          /\ sequence \in [user : 1 .. MaxId + 1, admin : 1 .. MaxId + 1]
          /\ tokens \subseteq Owned /\ audit \subseteq ActorEntries /\ cookies \subseteq Accounts
          /\ merging \in BOOLEAN /\ copied \subseteq Accounts
          /\ dismissed \subseteq People /\ lost \subseteq People

-----------------------------------------------------------------------------
\* One past the largest id; first, where there is no row.
Follows(n, rows, first) == IF rows = {} THEN n = first
                           ELSE n - 1 \in IdsOf(rows) /\ \A r \in rows : r.id < n

\* The id the engine gives to the next row: SQLite looks at the rows there are.
NextId(n, rows, next) == IF Enforced THEN n = next ELSE Follows(n, rows, 1)

\* setval(COALESCE(MAX(id), 1)): an empty table goes on with 2.
Reset(table, rows) ==
    \E n \in 1 .. MaxId + 1 :
        /\ Follows(n, rows, 2)
        /\ sequence' = IF Enforced THEN [sequence EXCEPT ![table] = n] ELSE sequence

\* What deleting these ids from user does to the rows that refer to them.
References(ids) ==
    /\ tokens' = IF Enforced THEN {t \in tokens : t.user \notin ids} ELSE tokens
    /\ audit' = IF Enforced /\ HasActorKey
                THEN {IF e.actor \in ids THEN [e EXCEPT !.actor = NoActor] ELSE e : e \in audit}
                ELSE audit

\* Revision 8 as an earlier program left it, with what it noted by id.
MoveInit ==
    /\ revision = 8 /\ leftover = FALSE /\ admins = {}
    /\ merging = FALSE /\ copied = {} /\ lost = {}
    /\ user \in SUBSET Users /\ Distinct(user)
    /\ dismissed \in SUBSET (People \ NamesOf(OldAdmins))
    /\ sequence \in [user : 1 .. MaxId + 1, admin : {1}]
    /\ \A r \in user : r.id < sequence.user
    /\ tokens \in SUBSET {[user |-> r.id, who |-> r.who] : r \in user}
    /\ cookies \in SUBSET {a \in Accounts : a.who \in dismissed \/ a \in Staff}
    /\ audit \in SUBSET {e \in ActorEntries :
                            \/ e.actor = NoActor
                            \/ [id |-> e.actor, who |-> e.by] \in Staff
                            \/ ~Enforced /\ e.by \in dismissed}

-----------------------------------------------------------------------------
(* The program.  It needs revision 9 to register a customer and for all it *)
(* does with administrators; a handler that is under way when 0009 comes   *)
(* down may still delete a customer or note an id.  What needs the table   *)
(* user waits for a merge; on SQLite every write does.                     *)

Register(p) ==
    /\ revision >= 9 /\ ~merging /\ p \notin NamesOf(user)
    /\ \E n \in Ids :
        /\ NextId(n, user, sequence.user)
        /\ user' = user \union {[id |-> n, who |-> p, admin |-> FALSE]}
        /\ sequence' = IF Enforced THEN [sequence EXCEPT !.user = n + 1] ELSE sequence
    /\ UNCHANGED <<revision, leftover, admins, marks, merge, history>>

IssueToken(r) ==
    /\ ~merging
    /\ tokens' = tokens \union {[user |-> r.id, who |-> r.who]}
    /\ UNCHANGED <<revision, leftover, user, admins, sequence, audit, cookies, merge, history>>

DeleteUser(r) ==
    /\ ~merging /\ ~r.admin
    /\ user' = user \ {r} /\ References({r.id})
    /\ UNCHANGED <<revision, leftover, admins, sequence, cookies, merge, history>>

Appoint(p) ==
    /\ revision >= 9 /\ p \notin NamesOf(admins)
    /\ Enforced \/ ~merging
    /\ \E n \in Ids :
        /\ NextId(n, admins, sequence.admin)
        /\ admins' = admins \union {[id |-> n, who |-> p]}
        /\ sequence' = IF Enforced THEN [sequence EXCEPT !.admin = n + 1] ELSE sequence
    /\ UNCHANGED <<revision, leftover, user, marks, merge, history>>

Dismiss(a) ==
    /\ revision >= 9
    /\ Enforced \/ ~merging
    /\ admins' = admins \ {a} /\ dismissed' = dismissed \union {a.who}
    /\ UNCHANGED <<revision, leftover, user, sequence, marks, merge, lost>>

Login(a) ==
    /\ revision >= 9
    /\ cookies' = cookies \union {a}
    /\ UNCHANGED <<revision, leftover, user, admins, sequence, tokens, audit, merge, history>>

\* A page looks the administrator up by the id alone, and notes who it is.
RefreshCookie(c, a) ==
    /\ revision >= 9 /\ a.id = c.id
    /\ cookies' = (cookies \ {c}) \union {a}
    /\ UNCHANGED <<revision, leftover, user, admins, sequence, tokens, audit, merge, history>>

\* log never raises: an entry that the key refuses is lost.
NoteActor(c) ==
    /\ ~merging
    /\ audit' = IF Enforced /\ HasActorKey /\ c.id \notin IdsOf(user) THEN audit
                ELSE audit \union {[by |-> c.who, actor |-> c.id]}
    /\ UNCHANGED <<revision, leftover, user, admins, sequence, tokens, cookies, merge, history>>

-----------------------------------------------------------------------------
(* The migrations, one at a time. *)

MoveOut ==
    /\ revision = 8 /\ ~leftover
    /\ revision' = 9
    /\ admins' = {Account(r) : r \in OldAdmins}
    /\ user' = user \ OldAdmins
    /\ Reset("admin", admins') /\ References(IdsOf(OldAdmins))
    /\ UNCHANGED <<leftover, cookies, merge, history>>

\* create_table and add_column are committed by SQLite as they run: what stops
\* the revision after them (a crash, or on the way down a clash) leaves them
\* behind, and it can never run again.
StopHalfway ==
    /\ ~Enforced /\ revision \in {8, 9} /\ ~leftover /\ ~merging
    /\ leftover' = TRUE
    /\ UNCHANGED <<revision, user, admins, sequence, marks, merge, history>>

\* The two tables share neither an id nor a name: else the INSERT fails.
Mergeable == IdsOf(user) \intersect IdsOf(admins) = {} /\ NamesOf(user) \intersect NamesOf(admins) = {}

AsUser(a) == [id |-> a.id, who |-> a.who, admin |-> TRUE]

\* INSERT ... SELECT, and the sequence of user, which no rollback takes back.
CopyBack ==
    /\ revision = 9 /\ ~leftover /\ ~merging /\ Mergeable
    /\ merging' = TRUE /\ copied' = admins
    /\ Reset("user", user \union {AsUser(a) : a \in admins})
    /\ UNCHANGED <<revision, leftover, user, admins, marks, history>>

\* The tables of the realm are dropped, with whoever was appointed since the
\* copy, and the copy is committed, with whoever was dismissed since.
DropBack ==
    /\ merging /\ merging' = FALSE /\ copied' = {}
    /\ revision' = 8
    /\ user' = user \union {AsUser(a) : a \in copied}
    /\ admins' = {}
    /\ lost' = lost \union NamesOf(admins \ copied)
    /\ UNCHANGED <<leftover, sequence, marks, dismissed>>

\* The downgrade dies after the copy: on SQLite the columns it added stay.
AbortBack ==
    /\ merging /\ merging' = FALSE /\ copied' = {}
    /\ leftover' = ~Enforced
    /\ UNCHANGED <<revision, user, admins, sequence, marks, history>>

DropActorKey ==
    /\ revision = 9 /\ ~merging /\ revision' = 10
    /\ UNCHANGED <<leftover, user, admins, sequence, marks, merge, history>>

\* PostgreSQL refuses the key while an entry violates it.
RestoreActorKey ==
    /\ revision = 10 /\ revision' = 9
    /\ Enforced => \A e \in audit : e.actor \in IdsOf(user) \union {NoActor}
    /\ UNCHANGED <<leftover, user, admins, sequence, marks, merge, history>>

MoveNext ==
    \/ \E p \in People : Register(p) \/ Appoint(p)
    \/ \E r \in user : IssueToken(r) \/ DeleteUser(r)
    \/ \E a \in admins : Dismiss(a) \/ Login(a) \/ \E c \in cookies : RefreshCookie(c, a)
    \/ \E c \in cookies : NoteActor(c)
    \/ MoveOut \/ CopyBack \/ DropBack \/ AbortBack \/ StopHalfway
    \/ DropActorKey \/ RestoreActorKey

MoveSpec == MoveInit /\ [][MoveNext]_moveVars

-----------------------------------------------------------------------------
\* Upgrades, downgrades and crashes between their steps are no step of the two
\* realms, and every row keeps its id (0009:81): the migrations move nobody.
\* The one exception is a downgrade whose copy was overtaken by an appointment
\* or a dismissal: it brings back the staff of the moment of the copy
\* (0009:151).
Realms == INSTANCE TwoRealms WITH customers <- Customers, staff <- Staff

StaleCopyCommits ==
    /\ merging /\ ~merging' /\ revision' = 8
    /\ copied # Staff /\ Staff' = copied
    /\ Customers' = Customers

NobodyIsMoved ==
    Realms!Init /\ [][Realms!Next \/ StaleCopyCommits]_<<Customers, Staff>>

\* A session resolves to the administrator it was opened for, whatever was
\* migrated since (0009:81), unless that administrator was deleted, or was
\* appointed behind the copy of a downgrade and dropped with the table.
SessionsKeepTheirAdmin ==
    \A c \in cookies : c.who \notin dismissed \union lost =>
        c \in Staff /\ \A a \in Staff : a.id = c.id => a = c

\* The actor id of an entry is an id of the administrators' realm, and there it
\* is the one the entry names, with the same exceptions.  While the realm is
\* part of user (revision 8) no customer has that id.  At revision 9 the key
\* on user is on the wrong table: wherever it is enforced it holds because
\* some customer has the id, and says nothing of the administrator (0010:14).
EntriesKeepTheirActor ==
    \A e \in audit : e.actor # NoActor =>
        /\ e.by \notin dismissed \union lost =>
              /\ [id |-> e.actor, who |-> e.by] \in Staff
              /\ \A a \in Staff : a.who = e.by <=> a.id = e.actor
              /\ revision = 8 => e.actor \notin IdsOf(Customers)
        /\ Enforced /\ revision = 9 => e.actor \in IdsOf(Customers)

\* Where keys are enforced, a refresh token belongs to the customer it was
\* issued to, although a sequence that was reset gives ids again (0009:110).
TokensKeepTheirOwner ==
    Enforced => \A t \in tokens : \E r \in user : r.id = t.user /\ r.who = t.who
=============================================================================
