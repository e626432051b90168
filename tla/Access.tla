------------------------------- MODULE Access -------------------------------
(***************************************************************************)
(* Roles, what they may do, and who is let through.  The catalogue of      *)
(* permissions comes with one of the migrations and is repaired by the     *)
(* seeder; superadmins rename roles and replace their permissions; a token *)
(* carries the name of its role, and the name is looked up per request.    *)
(***************************************************************************)
EXTENDS Migrations

CONSTANTS
  Requests,    \* bound: each slot serves one request
  Names,       \* names of roles, as they are spelled
  Lower,       \* [Names -> Names], LOWER and EqualFold
  Fixture,     \* the roles of the seeder, in its order; a seeded role's id is its name
  Codes,       \* the permissions the application recognises
  Catalogue,   \* the migration that inserts them
  Accounts,
  RoleOf,      \* [Accounts -> the seeded roles]
  Submitted,   \* bound: the sets of permissions that are sent
  Together     \* bound: the sets of actors at work at once

VARIABLES
  role,        \* roles: id -> name
  permissions, \* rows of the catalogue
  grants,      \* role_permissions: <<role, code, who inserted the row>>
  people,      \* the accounts there are
  token,       \* account -> the role its access token names
  req,
  chosen,      \* role -> what was last decided for it (history variable)
  mixed,       \* roles that were written by two at once (history variable)
  crowded,     \* names that two checked at once (history variable)
  passed,      \* names that went from one role to another (history variable)
  rooted       \* roles that were given everything as superadmin (history variable)

history == <<chosen, mixed, crowded, passed, rooted>>
tables  == <<role, permissions, grants, people>>
avars   == <<mvars, tables, token, req, history>>

SuperAdminRoleName == "superadmin"
Seeded == {Fixture[n] : n \in 1..Len(Fixture)}
RoleIds == Seeded \cup Requests

ASSUME AccessConfig ==
  /\ Lower \in [Names -> Names] /\ SuperAdminRoleName \in Seeded
  /\ \A m, n \in Seeded : Lower[m] = Lower[n] => m = n
  /\ Fixture \in Seq(Names) /\ RoleOf \in [Accounts -> Seeded]
  /\ Catalogue \in Versions
  /\ (Names \cup Runners) \cap Requests = {} /\ None \notin Names \cup Requests
  /\ Codes \in Submitted /\ \E codes \in Submitted : codes \subseteq Codes /\ codes \notin {{}, Codes}

Stage == {"idle", "finding", "checking", "writing", "using", "deleting", "clearing", "locking",
          "granting", "answered"}
Request == [at: Stage, op: {"create", "rename", "delete", "replace", None}, id: RoleIds \cup {None},
            name: Names \cup {None}, codes: Submitted \cup {{}},
            saw: SUBSET (RoleIds \X Codes \X (Requests \cup {None}))]
NoRequest == [at |-> "idle", op |-> None, id |-> None, name |-> None, codes |-> {}, saw |-> {}]

At(q, stage) == req[q].at = stage
Goto(q, stage) == req' = [req EXCEPT ![q].at = stage]
Done(q) == req' = [req EXCEPT ![q] = [NoRequest EXCEPT !.at = "answered"]]
Id(q) == req[q].id
Name(q) == req[q].name

Exists(id) == role[id] # None
Same(n, m) == Lower[n] = Lower[m]
GrantsOf(id) == {g \in grants : g[1] = id}
CodesOf(id) == {g[2] : g \in GrantsOf(id)}
Roots == {id \in RoleIds : Exists(id) /\ Same(role[id], SuperAdminRoleName)}

-----------------------------------------------------------------------------
(* Requests                                                                *)

\* RequireRole compares the role in the token with the name as it is spelled.
RequireRole == \E a \in Accounts : token[a] = SuperAdminRoleName

Asks(q, stage, op, id, name, codes) ==
  req' = [req EXCEPT ![q] = [at |-> stage, op |-> op, id |-> id, name |-> name,
                             codes |-> codes, saw |-> {}]]

Arrive(q) ==
  /\ At(q, "idle")
  /\ RequireRole
  /\ \/ \E n \in Names : Asks(q, "checking", "create", q, n, {})
     \/ \E id \in RoleIds : Exists(id) /\
          \/ \E n \in Names : Asks(q, "finding", "rename", id, n, {})
          \/ Asks(q, "finding", "delete", id, None, {})
          \/ \E codes \in Submitted : Asks(q, "finding", "replace", id, None, codes)
  /\ UNCHANGED <<mvars, tables, token, history>>

\* A code the catalogue does not have refuses the whole list.
KnownCodes(q) == req[q].codes \subseteq Codes

\* Mutant of Guarded: any role may be left short.
Guarded_Not(q) == FALSE

\* guardSuperAdmin: the root role keeps everything.
Guarded(q) ==
  req[q].op = "replace" /\ Same(role[Id(q)], SuperAdminRoleName) /\ req[q].codes # Codes

\* The role is loaded; the rest relies on the name it had.
Find(q) ==
  /\ At(q, "finding")
  /\ IF ~Exists(Id(q)) \/ ~KnownCodes(q) \/ Guarded(q) THEN Done(q)
     ELSE Goto(q, CASE req[q].op = "rename" -> "checking" [] req[q].op = "delete" -> "using"
                    [] OTHER -> "clearing")
  /\ UNCHANGED <<mvars, tables, token, history>>

\* Mutant of ExistsByName: the spelling counts.
ExistsByName_Exact(n, except) == \E id \in RoleIds \ {except} : Exists(id) /\ role[id] = n

ExistsByName(n, except) == \E id \in RoleIds \ {except} : Exists(id) /\ Same(role[id], n)

CheckName(q) ==
  /\ At(q, "checking")
  /\ IF ExistsByName(Name(q), Id(q)) THEN Done(q) /\ UNCHANGED crowded
     ELSE /\ Goto(q, "writing")
          /\ crowded' = IF \E o \in Requests \ {q} : At(o, "writing") /\ Same(Name(o), Name(q))
                        THEN crowded \cup {Lower[Name(q)]} ELSE crowded
  /\ UNCHANGED <<mvars, tables, token, chosen, mixed, passed, rooted>>

\* INSERT, or UPDATE of the name.  Only the unique constraint, which knows one
\* spelling, is left to refuse.
WriteName(q) ==
  LET id == Id(q)  old == role[id] IN
  /\ At(q, "writing")
  /\ Done(q)
  /\ IF (req[q].op = "create" \/ Exists(id)) /\ \A i \in RoleIds \ {id} : role[i] # Name(q)
     THEN /\ role' = [role EXCEPT ![id] = Name(q)]
          /\ passed' = IF old \in {None, Name(q)} THEN passed ELSE passed \cup {Lower[old]}
          /\ rooted' = IF Same(Name(q), SuperAdminRoleName) THEN rooted ELSE rooted \ {id}
     ELSE UNCHANGED <<role, passed, rooted>>
  /\ UNCHANGED <<mvars, permissions, grants, people, token, chosen, mixed, crowded>>

InUse(id) == \E a \in people : RoleOf[a] = id

CheckUse(q) ==
  /\ At(q, "using")
  /\ IF InUse(Id(q)) THEN Done(q) ELSE Goto(q, "deleting")
  /\ UNCHANGED <<mvars, tables, token, history>>

\* Accounts that came since hold the role through their foreign key; grants
\* cascade.
DeleteRole(q) ==
  /\ At(q, "deleting")
  /\ Done(q)
  /\ IF ~Exists(Id(q)) \/ InUse(Id(q)) THEN UNCHANGED <<role, grants, chosen, passed, rooted>>
     ELSE /\ role' = [role EXCEPT ![Id(q)] = None]
          /\ grants' = grants \ GrantsOf(Id(q))
          /\ chosen' = [chosen EXCEPT ![Id(q)] = {}]
          /\ passed' = passed \cup {Lower[role[Id(q)]]}
          /\ rooted' = rooted \ {Id(q)}
  /\ UNCHANGED <<mvars, permissions, people, token, mixed, crowded>>

\* ReplaceForRole begins: the DELETE sees the rows that are committed now ...
Clear(q) ==
  /\ At(q, "clearing")
  /\ req' = [req EXCEPT ![q].at = "locking", ![q].saw = GrantsOf(Id(q))]
  /\ UNCHANGED <<mvars, tables, token, history>>

\* ... and waits for whoever is deleting one of them.  A row that is gone then
\* is passed over; a row that came meanwhile is not looked for.
Lock(q) ==
  /\ At(q, "locking")
  /\ \A o \in Requests \ {q} : At(o, "granting") => req[o].saw \cap req[q].saw = {}
  /\ req' = [req EXCEPT ![q].at = "granting", ![q].saw = @ \cap grants]
  /\ UNCHANGED <<mvars, tables, token, history>>

\* Replacing what another has begun to replace.
Overlaps(q) ==
  \E o \in Requests \ {q} : Id(o) = Id(q) /\ req[o].at \in {"locking", "granting"}

\* Mutant of Grant: what was there stays.
Grant_Adds(q) ==
  /\ At(q, "granting")
  /\ Done(q)
  /\ LET wanted == req[q].codes \cap permissions IN
     IF wanted = {} \/ Exists(Id(q))
     THEN /\ grants' = grants \cup {<<Id(q), c, q>> : c \in wanted \ CodesOf(Id(q))}
          /\ chosen' = [chosen EXCEPT ![Id(q)] = wanted]
          /\ mixed' = IF Overlaps(q) THEN mixed \cup {Id(q)} ELSE mixed
     ELSE UNCHANGED <<grants, chosen, mixed>>
  /\ UNCHANGED <<mvars, role, permissions, people, token, crowded, passed, rooted>>

\* The INSERT takes the codes the catalogue has, passes over the pairs that
\* are there, and commits; without the role it violates the foreign key.
Grant(q) ==
  /\ At(q, "granting")
  /\ Done(q)
  /\ LET wanted == req[q].codes \cap permissions
         kept == grants \ req[q].saw
     IN IF wanted = {} \/ Exists(Id(q))
        THEN /\ grants' = kept \cup {<<Id(q), c, q>> : c \in
                            {d \in wanted : \A g \in kept : g[1] # Id(q) \/ g[2] # d}}
             /\ chosen' = [chosen EXCEPT ![Id(q)] = wanted]
             /\ mixed' = IF Overlaps(q) THEN mixed \cup {Id(q)} ELSE mixed
        ELSE UNCHANGED <<grants, chosen, mixed>>
  /\ UNCHANGED <<mvars, role, permissions, people, token, crowded, passed, rooted>>

\* A statement fails or the process dies; an open transaction is rolled back.
Stop(q) ==
  /\ ~At(q, "idle") /\ ~At(q, "answered")
  /\ Done(q)
  /\ UNCHANGED <<mvars, tables, token, history>>

\* Sign-in and every refresh put the current name of the role in the token.
Issue(a) ==
  /\ a \in people
  /\ token' = [token EXCEPT ![a] = role[RoleOf[a]]]
  /\ UNCHANGED <<mvars, tables, req, history>>

\* The name is looked up whatever its capitals.
PermissionsFor(name) ==
  {g[2] : g \in {h \in grants : name # None /\ Exists(h[1]) /\ Same(role[h[1]], name)}}

\* RequirePermission: a route that asks for some codes lets the token in.
RequirePermission(a, codes) == codes \subseteq PermissionsFor(token[a])

-----------------------------------------------------------------------------
(* Migrations and the seeder                                               *)

\* A replacement that guardSuperAdmin has let pass.
Replacing(q) == req[q].op = "replace" /\ req[q].at \in {"clearing", "locking", "granting"}

GrantAll(ids, codes) ==
  /\ grants' = grants \cup UNION {{<<id, c, None>> : c \in codes \ CodesOf(id)} : id \in ids}
  /\ chosen' = [id \in RoleIds |-> IF id \in ids THEN codes ELSE chosen[id]]
  /\ mixed' = mixed \cup {Id(q) : q \in {o \in Requests : Id(o) \in ids /\
                                          req[o].at \in {"locking", "granting"}}}
  /\ rooted' = rooted \cup (ids \ {Id(q) : q \in {o \in Requests : Replacing(o)}})

\* The file of the catalogue also grants it to the superadmin there is.
Migrate(p) ==
  /\ RunStep(p)
  /\ IF built[Catalogue] = None /\ built'[Catalogue] # None
     THEN permissions' = Codes /\ GrantAll(Roots, Codes)
     ELSE UNCHANGED <<permissions, grants, chosen, mixed, rooted>>
  /\ UNCHANGED <<role, people, token, req, crowded, passed>>

Selected(p, stage) == stage \notin run[p].skip

\* What follows a stage.
Then(stage) ==
  CASE stage = "roles" -> "catalog" [] stage = "catalog" -> "granting"
    [] stage = "granting" -> "users" [] OTHER -> "done"

\* One statement for all: a name that another row keeps refuses it.  Whoever
\* was renamed gets the seeded name back.
Clash ==
  \E n \in 1..Len(Fixture) : \E id \in RoleIds \ {Fixture[n]} :
    role[id] = Fixture[n] /\ \A m \in 1..(n - 1) : id # Fixture[m]

SeedRoles(p) ==
  /\ Running(p, "roles")
  /\ IF ~Selected(p, "roles") THEN RunsOn(p, Then("roles")) /\ UNCHANGED <<role, crowded, passed, rooted>>
     ELSE IF Clash \/ built[1] = None
     THEN RunsOn(p, "failed") /\ UNCHANGED <<role, crowded, passed, rooted>>
     ELSE LET given == {id \in Seeded : role[id] \notin {None, id}} IN
       /\ RunsOn(p, Then("roles"))
       /\ role' = [id \in RoleIds |-> IF id \in Seeded THEN id ELSE role[id]]
       /\ crowded' = crowded \cup {Lower[n] : n \in {m \in Seeded :
            \/ \E id \in RoleIds \ {m} : role'[id] # None /\ Same(role'[id], m)
            \/ \E q \in Requests : At(q, "writing") /\ Same(Name(q), m)}}
       /\ passed' = passed \cup {Lower[role[id]] : id \in given}
       /\ rooted' = {id \in rooted : Same(role'[id], SuperAdminRoleName)}
  /\ UNCHANGED <<built, ledger, adopted, left, permissions, grants, people, token, req, chosen, mixed>>

SeedCatalog(p) ==
  /\ Running(p, "catalog")
  /\ IF ~Selected(p, "catalog") THEN RunsOn(p, Then("catalog")) /\ UNCHANGED permissions
     ELSE IF built[Catalogue] = None THEN RunsOn(p, "failed") /\ UNCHANGED permissions
     ELSE RunsOn(p, Then("catalog")) /\ permissions' = Codes
  /\ UNCHANGED <<built, ledger, adopted, left, role, grants, people, token, req, history>>

\* The grants belong to the stage of the catalogue and are skipped with it.
SeedGrants(p) ==
  /\ Running(p, "granting")
  /\ RunsOn(p, Then("granting"))
  /\ IF Selected(p, "catalog") THEN GrantAll(Roots, permissions)
     ELSE UNCHANGED <<grants, chosen, mixed, rooted>>
  /\ UNCHANGED <<built, ledger, adopted, left, role, permissions, people, token, req,
                 crowded, passed>>

\* The accounts; their roles must be there.
SeedUsers(p) ==
  /\ Running(p, "users")
  /\ IF ~Selected(p, "users") THEN RunsOn(p, Then("users")) /\ UNCHANGED people
     ELSE IF \E a \in Accounts : ~Exists(RoleOf[a])
     THEN RunsOn(p, "failed") /\ UNCHANGED people
     ELSE RunsOn(p, Then("users")) /\ people' = Accounts
  /\ UNCHANGED <<built, ledger, adopted, left, role, permissions, grants, token, req, history>>

-----------------------------------------------------------------------------

\* A database to set up, or one that is seeded and in use: superadmin holds
\* everything, the other roles what the first set says.
Init ==
  /\ adopted = {} /\ left = {} /\ run = [p \in Runners |-> NoRun]
  /\ req = [q \in Requests |-> NoRequest]
  /\ mixed = {} /\ crowded = {} /\ passed = {}
  /\ \/ /\ MInit
        /\ role = [id \in RoleIds |-> None]
        /\ permissions = {} /\ grants = {} /\ people = {}
        /\ token = [a \in Accounts |-> None]
        /\ chosen = [id \in RoleIds |-> {}] /\ rooted = {}
     \/ \E files \in Releases :
        LET some == CHOOSE codes \in Submitted : codes \subseteq Codes /\ codes \notin {{}, Codes} IN
        /\ Len(files) >= Catalogue
        /\ built = [v \in Versions |-> IF v <= Len(files) THEN files[v] ELSE None]
        /\ ledger = built
        /\ role = [id \in RoleIds |-> IF id \in Seeded THEN id ELSE None]
        /\ permissions = Codes /\ people = Accounts
        /\ chosen = [id \in RoleIds |-> IF id = SuperAdminRoleName THEN Codes
                                        ELSE IF id \in Seeded THEN some ELSE {}]
        /\ grants = UNION {{<<id, c, None>> : c \in chosen[id]} : id \in Seeded}
        /\ token = [a \in Accounts |-> role[RoleOf[a]]]
        /\ rooted = {SuperAdminRoleName}

Serve(q) ==
  \/ Arrive(q) \/ Find(q) \/ CheckName(q) \/ WriteName(q) \/ CheckUse(q) \/ DeleteRole(q)
  \/ Clear(q) \/ Lock(q) \/ Grant(q) \/ Stop(q)

Command(p) == Migrate(p) \/ SeedRoles(p) \/ SeedCatalog(p) \/ SeedGrants(p) \/ SeedUsers(p)

\* Who has been at work so far is one of the sets of the bound.
InBounds ==
  \E scene \in Together :
    /\ \A p \in Runners : run'[p].at # "idle" => p \in scene
    /\ \A q \in Requests : req'[q].at # "idle" => q \in scene

Next ==
  \/ \E q \in Requests : Serve(q) /\ InBounds
  \/ \E p \in Runners : Command(p) /\ InBounds
  \/ \E a \in Accounts : Issue(a)

Spec == Init /\ [][Next]_avars

-----------------------------------------------------------------------------
\* Types of everything.
AccessTypeOK ==
  /\ role \in [RoleIds -> Names \cup {None}]
  /\ permissions \subseteq Codes
  /\ grants \subseteq RoleIds \X Codes \X (Requests \cup {None})
  /\ people \subseteq Accounts
  /\ token \in [Accounts -> Names \cup {None}]
  /\ req \in [Requests -> Request]
  /\ chosen \in [RoleIds -> SUBSET Codes]
  /\ mixed \subseteq RoleIds /\ rooted \subseteq RoleIds
  /\ crowded \subseteq Names /\ passed \subseteq Names

\* Replace, the migration and the seeder: what a role may do is what was last
\* decided for it, unless two decided at once.
GrantsChosenUnlessMixed == \A id \in RoleIds \ mixed : CodesOf(id) = chosen[id]

\* The same without the exception: "two operators editing at once then
\* last-write-wins on the whole role instead of interleaving into a set neither
\* of them chose".
GrantsChosen == \A id \in RoleIds : CodesOf(id) = chosen[id]

\* seedPermissions and guardSuperAdmin: once the catalogue has been granted to
\* the superadmin role it keeps every permission, whatever the migrations found
\* before the roles were there, until it is renamed.  A replacement that passed
\* the guard under another name is not stopped by that.
SuperAdminKeepsAll == \A id \in rooted \ mixed : CodesOf(id) = Codes

\* ExistsByName: two roles are never spelled alike, and differ in more than
\* capitals unless two checks or a seeding got in between.
RoleNamesUnique ==
  \A i, j \in RoleIds : i # j /\ Exists(i) /\ Exists(j) =>
    /\ role[i] # role[j]
    /\ Same(role[i], role[j]) => Lower[role[i]] \in crowded

\* Authenticate, RequirePermission and PermissionsFor: a token opens what the
\* role of its account may do and no more, unless its name has come to be
\* another role's as well.
AdmittedByOwnRole ==
  \A a \in Accounts : token[a] # None /\ Lower[token[a]] \notin passed \cup crowded =>
    \A c \in Codes : RequirePermission(a, {c}) => c \in CodesOf(RoleOf[a])
=============================================================================
