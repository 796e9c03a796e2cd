------------------------------ MODULE ApiKeys ------------------------------
(***************************************************************************)
(* API keys: the row of a key with the hash of its token, its role         *)
(* bindings and its org.create permission, in three tables that            *)
(* D1R2Storage (storage.ts) reads and rewrites one statement at a time.    *)
(*                                                                         *)
(* Four routes of index.ts write them: POST, PUT and DELETE /apikey, called *)
(* by an administrator, and POST /organization, called with a key, which   *)
(* grants that key the new organization on top of the bindings it had when *)
(* the request was authenticated.                                          *)
(***************************************************************************)
EXTENDS Integers

CONSTANTS
  Requests,   \* concurrent requests
  Keys,       \* key ids, each used for one key
  MaxToken,   \* bound on the tokens that are generated
  Granted,    \* bindings an administrator grants
  Admin,      \* those of them with the role org_admin
  Orgs,       \* organizations that keys create, and org_super_admin bindings to them
  NoRow,      \* no such key
  None

Tokens == 1 .. MaxToken
Bindings == Granted \cup Orgs

ASSUME ApiKeysAssumption ==
  /\ MaxToken \in Nat \ {0} /\ Admin \subseteq Granted
  /\ NoRow \notin Tokens /\ None \notin Keys \cup Tokens \cup Orgs

VARIABLES
  rows,        \* apikeys: the token whose hash the row holds (name and expiry go with it)
  bindings,    \* apikey_bindings
  orgCreate,   \* apikey_global_permissions: the keys that may create organizations
  made,        \* ids given out
  generated,   \* tokens generated so far
  req,         \* the state of every request
  granted,     \* history: bindings last written as a whole
  replaced,    \* history: tokens that a finished regeneration has replaced
  raced,       \* history: requests whose bindings another request replaced under
               \* them, or whose key was deleted under them
  unsettled    \* history: keys last written by such a request, or by one cut short

vars == <<rows, bindings, orgCreate, made, generated, req, granted, replaced, raced, unsettled>>

Steps == {"idle", "insert", "find", "readRow", "readBindings", "readPermissions",
          "readHash", "update", "clear", "grant", "clearPermissions", "grantPermission",
          "dropPermissions", "dropBindings", "dropRow"}

RequestStates ==
  [step  : Steps,
   route : {"create", "update", "delete", "organization"},
   key   : Keys \cup {None},
   token : Tokens \cup {None},          \* presented or newly generated
   hash  : Tokens \cup {None},          \* of the row storage.updateApiKey read
   regen : BOOLEAN,
   want  : SUBSET Bindings,             \* bindings to write, none of them for no change
   perm  : {"keep", "on", "off"},       \* org.create to write
   seen  : SUBSET Bindings,             \* bindings the request read
   org   : Orgs \cup {None},
   left  : SUBSET Bindings]             \* bindings still to insert

Idle == [step |-> "idle", route |-> "update", key |-> None, token |-> None, hash |-> None,
         regen |-> FALSE, want |-> {}, perm |-> "keep", seen |-> {}, org |-> None, left |-> {}]

At(r, step) == req[r].step = step
Become(r, state) == req' = [req EXCEPT ![r] = state]
Go(r, step) == Become(r, [req[r] EXCEPT !.step = step])

history == <<granted, replaced, raced, unsettled>>

-----------------------------------------------------------------------------
HasAdmin(set) == set \cap Admin # {}

\* validateApiKeyGlobalPermissions.
ValidPermission(set, perm) == perm = "on" => HasAdmin(set)

\* As if new bindings left the permissions of the key alone.
KeptPermission(body, want, held) == body

\* nextGlobalPermissions: those of the body; or, when it names bindings, those
\* the key had, without org.create unless one of the new bindings is org_admin.
NextPermission(body, want, held) ==
  IF body # "keep" \/ want = {} THEN body
  ELSE IF held /\ HasAdmin(want) THEN "on" ELSE "off"

\* As if bindings were added to those the key has.
Added(set) == set

\* What the DELETE of replaceApiKeyBindings leaves of a key's bindings.
Cleared(set) == {}

\* As if a column the body leaves out were not read first.
Overwritten(new, old) == new

\* A column of the UPDATE: `input.keyHash ?? existing.keyHash`.
Column(new, old) == IF new = None THEN old ELSE new

\* The requests that are inserting the bindings of k one by one.
Rewriting(k) == {r \in Requests : req[r].key = k /\ At(r, "grant")}

\* The requests that rely on the bindings k had when they read or wrote them.
Relying(k) ==
  {r \in Requests :
     req[r].key = k /\ req[r].step \notin {"idle", "insert", "find", "readRow", "readBindings"}}

\* The requests that go on when k is deleted: their writes find no row, or insert
\* into the other two tables all the same.
Outliving(k) ==
  {r \in Requests :
     /\ req[r].key = k
     /\ req[r].step \in {"update", "clear", "grant", "clearPermissions", "grantPermission"}}

\* r has written a part of what it writes to the bindings and permissions.
Halfway(r) ==
  \/ req[r].step \in {"grant", "grantPermission", "dropBindings", "dropRow"}
  \/ At(r, "clearPermissions") /\ req[r].want # {}

\* The last step of r; whole: it wrote both the bindings and the permissions.
Finish(r, whole) ==
  /\ Become(r, Idle)
  /\ raced' = raced \ {r}
  /\ unsettled' = IF r \in raced THEN unsettled \cup {req[r].key}
                  ELSE IF whole THEN unsettled \ {req[r].key} ELSE unsettled
  /\ replaced' = IF req[r].regen THEN replaced \cup {req[r].hash} ELSE replaced

\* An answer without a write.
Refuse(r) ==
  /\ Become(r, Idle)
  /\ raced' = raced \ {r}
  /\ UNCHANGED <<unsettled, replaced>>

-----------------------------------------------------------------------------
Init ==
  /\ rows = [k \in Keys |-> NoRow]
  /\ bindings = [k \in Keys |-> {}]
  /\ orgCreate = {} /\ made = {}
  /\ generated = 0
  /\ req = [r \in Requests |-> Idle]
  /\ granted = [k \in Keys |-> {}]
  /\ replaced = {} /\ raced = {} /\ unsettled = {}

\* POST /apikey: a key is named here before its row gives it an id.
CreateKey(r) ==
  /\ At(r, "idle") /\ generated < MaxToken
  /\ generated' = generated + 1
  /\ \E k \in Keys \ made, want \in (SUBSET Granted) \ {{}}, perm \in {"on", "off"} :
       /\ made' = made \cup {k}
       /\ ValidPermission(want, perm)
       /\ Become(r, [Idle EXCEPT !.step = "insert", !.route = "create", !.key = k,
                                 !.token = generated', !.want = want, !.perm = perm])
  /\ UNCHANGED <<rows, bindings, orgCreate, history>>

InsertRow(r) ==
  /\ At(r, "insert")
  /\ rows' = [rows EXCEPT ![req[r].key] = req[r].token]
  /\ Go(r, "clear")
  /\ UNCHANGED <<bindings, orgCreate, made, generated, history>>

\* PUT /apikey: new bindings, new permissions, a new token, or only a name or
\* an expiry date, which the model does not keep.
UpdateKey(r) ==
  /\ At(r, "idle")
  /\ \E k \in Keys, want \in SUBSET Granted,
        perm \in {"keep", "on", "off"}, regen \in BOOLEAN :
       /\ regen => generated < MaxToken
       /\ generated' = IF regen THEN generated + 1 ELSE generated
       /\ Become(r, [Idle EXCEPT !.step = "readRow", !.route = "update", !.key = k,
                                 !.token = IF regen THEN generated' ELSE None,
                                 !.regen = regen, !.want = want, !.perm = perm])
  /\ UNCHANGED <<rows, bindings, orgCreate, made, history>>

DeleteKey(r) ==
  /\ At(r, "idle")
  /\ \E k \in Keys : Become(r, [Idle EXCEPT !.step = "readRow", !.route = "delete", !.key = k])
  /\ UNCHANGED <<rows, bindings, orgCreate, made, generated, history>>

\* POST /organization, called with a token.
CreateOrganization(r) ==
  /\ At(r, "idle")
  /\ \E t \in 1 .. generated, o \in Orgs :
       Become(r, [Idle EXCEPT !.step = "find", !.route = "organization", !.token = t, !.org = o])
  /\ UNCHANGED <<rows, bindings, orgCreate, made, generated, history>>

\* getApiKeyByHash.
Find(r) ==
  /\ At(r, "find")
  /\ \/ /\ \E k \in Keys : rows[k] = req[r].token
                           /\ Become(r, [req[r] EXCEPT !.step = "readRow", !.key = k, !.token = None])
        /\ UNCHANGED history
     \/ /\ \A k \in Keys : rows[k] # req[r].token
        /\ Refuse(r) /\ UNCHANGED granted
  /\ UNCHANGED <<rows, bindings, orgCreate, made, generated>>

\* getApiKey is three reads.  Those deleteApiKey makes after the first decide nothing.
ReadRow(r) ==
  /\ At(r, "readRow")
  /\ IF rows[req[r].key] = NoRow
     THEN Refuse(r) /\ UNCHANGED granted
     ELSE /\ Go(r, IF req[r].route = "delete" THEN "dropPermissions" ELSE "readBindings")
          /\ UNCHANGED history
  /\ UNCHANGED <<rows, bindings, orgCreate, made, generated>>

ReadBindings(r) ==
  LET k == req[r].key IN
  /\ At(r, "readBindings")
  /\ Become(r, [req[r] EXCEPT !.step = "readPermissions", !.seen = bindings[k]])
  /\ raced' = IF Rewriting(k) = {} THEN raced ELSE raced \cup {r}
  /\ UNCHANGED <<rows, bindings, orgCreate, made, generated, granted, replaced, unsettled>>

\* The last read of getApiKey, and what the handler decides with it.
ReadPermissions(r) ==
  LET k    == req[r].key
      perm == NextPermission(req[r].perm, req[r].want, k \in orgCreate)
      next == IF req[r].want = {} THEN req[r].seen ELSE req[r].want
  IN
  /\ At(r, "readPermissions")
  /\ \/ /\ req[r].route = "update" /\ ValidPermission(next, perm)
        /\ Become(r, [req[r] EXCEPT !.step = "readHash", !.perm = perm, !.seen = {}])
        /\ UNCHANGED history
     \/ /\ req[r].route = "organization" /\ k \in orgCreate
        /\ Become(r, [req[r] EXCEPT !.step = "readHash", !.seen = {}, !.org = None,
                                    !.want = req[r].seen \cup {req[r].org}])
        /\ UNCHANGED history
     \/ /\ \/ req[r].route = "update" /\ ~ValidPermission(next, perm)
           \/ req[r].route = "organization" /\ k \notin orgCreate
        /\ Refuse(r) /\ UNCHANGED granted
  /\ UNCHANGED <<rows, bindings, orgCreate, made, generated>>

\* storage.updateApiKey reads the key again, for the columns it does not change.
ReadHash(r) ==
  LET row == rows[req[r].key] IN
  /\ At(r, "readHash")
  /\ IF row = NoRow
     THEN Refuse(r) /\ UNCHANGED granted
     ELSE Become(r, [req[r] EXCEPT !.step = "update", !.hash = row]) /\ UNCHANGED history
  /\ UNCHANGED <<rows, bindings, orgCreate, made, generated>>

\* The UPDATE writes every column, and finds no row once the key is deleted.
UpdateRow(r) ==
  LET k == req[r].key IN
  /\ At(r, "update")
  /\ rows' = IF rows[k] = NoRow THEN rows
             ELSE [rows EXCEPT ![k] = Column(req[r].token, req[r].hash)]
  /\ IF req[r].want = {} /\ req[r].perm = "keep"
     THEN Finish(r, FALSE) /\ UNCHANGED granted
     ELSE /\ Become(r, [req[r] EXCEPT
                          !.step = IF req[r].want # {} THEN "clear" ELSE "clearPermissions",
                          !.token = None, !.hash = IF req[r].regen THEN @ ELSE None])
          /\ UNCHANGED history
  /\ UNCHANGED <<bindings, orgCreate, made, generated>>

Clear(r) ==
  LET k == req[r].key IN
  /\ At(r, "clear")
  /\ bindings' = [bindings EXCEPT ![k] = Cleared(@)]
  /\ Become(r, [req[r] EXCEPT !.step = "grant", !.left = req[r].want])
  /\ raced' = raced \cup (Relying(k) \ {r}) \cup (IF Rewriting(k) = {} THEN {} ELSE {r})
  /\ UNCHANGED <<rows, orgCreate, made, generated, granted, replaced, unsettled>>

Grant(r) ==
  LET k == req[r].key IN
  /\ At(r, "grant")
  /\ \E b \in req[r].left :
       LET left == req[r].left \ {b} IN
       /\ bindings' = [bindings EXCEPT ![k] = @ \cup {b}]
       /\ \/ /\ left # {}
             /\ Become(r, [req[r] EXCEPT !.left = left]) /\ UNCHANGED history
          \/ /\ left = {}
             /\ granted' = [granted EXCEPT ![k] = req[r].want]
             /\ IF req[r].perm = "keep" THEN Finish(r, FALSE)
                ELSE /\ Become(r, [req[r] EXCEPT !.step = "clearPermissions", !.left = {}])
                     /\ UNCHANGED <<replaced, raced, unsettled>>
  /\ UNCHANGED <<rows, orgCreate, made, generated>>

ClearPermissions(r) ==
  /\ At(r, "clearPermissions")
  /\ orgCreate' = orgCreate \ {req[r].key}
  /\ IF req[r].perm = "on" THEN Go(r, "grantPermission") /\ UNCHANGED history
     ELSE Finish(r, req[r].want # {}) /\ UNCHANGED granted
  /\ UNCHANGED <<rows, bindings, made, generated>>

GrantPermission(r) ==
  LET k == req[r].key IN
  /\ At(r, "grantPermission")
  /\ orgCreate' = orgCreate \cup {k}
  /\ Finish(r, req[r].want # {})
  /\ UNCHANGED <<rows, bindings, made, generated, granted>>

\* deleteApiKey.
DropPermissions(r) ==
  /\ At(r, "dropPermissions")
  /\ orgCreate' = orgCreate \ {req[r].key}
  /\ Go(r, "dropBindings")
  /\ UNCHANGED <<rows, bindings, made, generated, history>>

DropBindings(r) ==
  LET k == req[r].key IN
  /\ At(r, "dropBindings")
  /\ bindings' = [bindings EXCEPT ![k] = {}]
  /\ granted' = [granted EXCEPT ![k] = {}]
  /\ raced' = raced \cup (Relying(k) \ {r})
  /\ Go(r, "dropRow")
  /\ UNCHANGED <<rows, orgCreate, made, generated, replaced, unsettled>>

DropRow(r) ==
  LET k == req[r].key IN
  /\ At(r, "dropRow")
  /\ rows' = [rows EXCEPT ![k] = NoRow]
  /\ Become(r, Idle)
  /\ raced' = (raced \ {r}) \cup Outliving(k)
  /\ unsettled' = IF r \in raced THEN unsettled \cup {k} ELSE unsettled
  /\ UNCHANGED <<bindings, orgCreate, made, generated, granted, replaced>>

\* The isolate is evicted, or the next statement throws.
Interrupt(r) ==
  /\ ~At(r, "idle")
  /\ Become(r, Idle)
  /\ raced' = raced \ {r}
  /\ unsettled' = IF Halfway(r) THEN unsettled \cup {req[r].key} ELSE unsettled
  /\ UNCHANGED <<rows, bindings, orgCreate, made, generated, granted, replaced>>

Step(r) ==
  \/ CreateKey(r) \/ InsertRow(r) \/ UpdateKey(r) \/ DeleteKey(r) \/ CreateOrganization(r)
  \/ Find(r) \/ ReadRow(r) \/ ReadBindings(r) \/ ReadPermissions(r) \/ ReadHash(r)
  \/ UpdateRow(r) \/ Clear(r) \/ Grant(r) \/ ClearPermissions(r) \/ GrantPermission(r)
  \/ DropPermissions(r) \/ DropBindings(r) \/ DropRow(r) \/ Interrupt(r)

Next == \E r \in Requests : Step(r)

Spec == Init /\ [][Next]_vars

-----------------------------------------------------------------------------
(* Properties *)

TypeOK ==
  /\ rows \in [Keys -> Tokens \cup {NoRow}]
  /\ bindings \in [Keys -> SUBSET Bindings]
  /\ orgCreate \subseteq Keys /\ made \subseteq Keys
  /\ generated \in 0 .. MaxToken
  /\ req \in [Requests -> RequestStates]
  /\ granted \in [Keys -> SUBSET Bindings]
  /\ replaced \subseteq Tokens /\ raced \subseteq Requests /\ unsettled \subseteq Keys

\* Keys nobody is writing, and whose last writers worked on what they had read.
Settled(k) == k \notin unsettled /\ \A r \in Requests : req[r].key = k => ~Halfway(r)

\* A key has exactly the bindings of the last request that replaced them, and a
\* deleted key has none.  Exceptions: requests that replace the bindings of one
\* key at the same time, requests that stop halfway, and requests that overlap
\* the deletion of their key: one that read the row before it is gone, or all of
\* whose writes fall between the deletion of the bindings and that of the row,
\* leaves bindings of a key that does not exist (updateApiKey, deleteApiKey,
\* replaceApiKeyBindings).
KeyHoldsLastGrant ==
  \A k \in Keys : Settled(k) => bindings[k] = IF rows[k] = NoRow THEN {} ELSE granted[k]

\* An existing key that may create organizations is org_admin of one, although
\* bindings and permission are checked against reads and written one after the
\* other, and POST /organization rewrites the bindings.  Exceptions: requests
\* that read the bindings halfway through another one, or had them replaced
\* before they were done (validateApiKeyGlobalPermissions, updateApiKey).
OrgCreateNeedsAdmin ==
  \A k \in orgCreate : rows[k] # NoRow /\ Settled(k) => HasAdmin(bindings[k])

\* A token stays rejected once a finished request has replaced it.  The test
\* of PUT /apikey (apikeys.test.ts) says so; an update that read the row before
\* the regeneration writes the old hash back (storage.updateApiKey).
OldTokenRejected == \A k \in Keys : rows[k] \notin replaced
=============================================================================
