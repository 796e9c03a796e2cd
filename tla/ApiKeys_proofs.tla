--------------------------- MODULE ApiKeys_proofs ---------------------------
(***************************************************************************)
(* For every number of concurrent requests, keys, tokens and bindings: the *)
(* types of ApiKeys, that a key has the bindings last written to it as a   *)
(* whole and a deleted key has none, and that a key with org.create is     *)
(* org_admin of an organization, both outside of the named exceptions.     *)
(***************************************************************************)
EXTENDS ApiKeys, TLAPS

Written == {"clear", "grant", "clearPermissions", "grantPermission"}

\* What a request knows at each of its steps.
Formed(q) ==
  /\ q.step \notin {"idle", "find"} => q.key \in Keys
  /\ q.step = "insert" => q.token \in Tokens /\ q.want # {} /\ ~q.regen
  /\ q.step = "update" => q.hash \in Tokens
  /\ q.step \in Written /\ q.regen => q.hash \in Tokens
  /\ q.route = "organization" /\ q.step \in {"find", "readRow", "readBindings", "readPermissions"}
       => q.org \in Orgs
  /\ q.route = "delete" \/ q.step \in {"dropPermissions", "dropBindings", "dropRow"} => ~q.regen
  /\ q.step \in {"clear", "grant"} => q.want # {}
  /\ IF q.step = "grant" THEN q.left \subseteq q.want ELSE q.left = {}

TypeInv == TypeOK /\ \A r \in Requests : Formed(req[r])

\* A request whose bindings were replaced under it is rewriting those of k.
Mixed(k) == \E r \in raced : req[r].key = k /\ Halfway(r)

\* Outside of the exceptions, bindings nobody is rewriting are those last
\* written as a whole.
WholeInv ==
  \A k \in Keys \ unsettled : ~Mixed(k) /\ Rewriting(k) = {} => bindings[k] = granted[k]

\* A request nobody interfered with is the only one to rewrite the bindings of
\* its key, and finds there what it has written.
OwnInv ==
  \A r \in Requests \ raced :
    /\ At(r, "grant") =>
         Rewriting(req[r].key) = {r} /\ bindings[req[r].key] = req[r].want \ req[r].left
    /\ req[r].step \in {"clearPermissions", "grantPermission"} /\ req[r].want # {} =>
         Rewriting(req[r].key) = {} /\ bindings[req[r].key] = granted[req[r].key]

GrantInv == WholeInv /\ OwnInv

-----------------------------------------------------------------------------
(* Types *)

LEMMA IdleFormed == Idle \in RequestStates /\ Formed(Idle) /\ Idle.step = "idle"
BY DEF Idle, RequestStates, Steps, Formed, Written

\* A request's new state types req and leaves the other requests alone.
LEMMA Becoming ==
  ASSUME NEW r \in Requests, NEW s \in RequestStates,
         req \in [Requests -> RequestStates], Become(r, s)
  PROVE  /\ req' \in [Requests -> RequestStates]
         /\ req'[r] = s
         /\ \A q \in Requests \ {r} : req'[q] = req[q]
BY DEF Become

\* A step of r to a well-formed state, when the tables and histories keep their types.
LEMMA TypeKept ==
  ASSUME TypeInv, NEW r \in Requests, NEW s \in RequestStates, Formed(s), Become(r, s),
         rows' \in [Keys -> Tokens \cup {NoRow}], bindings' \in [Keys -> SUBSET Bindings],
         orgCreate' \subseteq Keys, made' \subseteq Keys, generated' \in 0 .. MaxToken,
         granted' \in [Keys -> SUBSET Bindings],
         replaced' \subseteq Tokens, raced' \subseteq Requests, unsettled' \subseteq Keys
  PROVE  TypeInv'
<1>1. /\ req' \in [Requests -> RequestStates] /\ req'[r] = s
      /\ \A q \in Requests \ {r} : req'[q] = req[q]
  BY Becoming DEF TypeInv, TypeOK
<1>2. \A q \in Requests : Formed(req'[q])
  BY <1>1 DEF TypeInv
<1> QED BY <1>1, <1>2 DEF TypeInv, TypeOK

\* The histories when r is done.
LEMMA FinishTypes ==
  ASSUME TypeInv, NEW r \in Requests, NEW whole \in BOOLEAN, Finish(r, whole),
         req[r].key \in Keys, req[r].regen => req[r].hash \in Tokens
  PROVE  Become(r, Idle) /\ replaced' \subseteq Tokens /\ raced' \subseteq Requests /\ unsettled' \subseteq Keys
BY DEF Finish, TypeInv, TypeOK

LEMMA RefuseTypes ==
  ASSUME TypeInv, NEW r \in Requests, Refuse(r)
  PROVE  Become(r, Idle) /\ replaced' \subseteq Tokens /\ raced' \subseteq Requests /\ unsettled' \subseteq Keys
BY DEF Refuse, TypeInv, TypeOK

LEMMA TypeInit == Init => TypeInv
BY ApiKeysAssumption, IdleFormed DEF Init, TypeInv, TypeOK

\* Every step keeps the types.
LEMMA TypeStep == TypeInv /\ [Next]_vars => TypeInv'
<1> SUFFICES ASSUME TypeInv, [Next]_vars PROVE TypeInv'
    OBVIOUS
<1>0. /\ rows \in [Keys -> Tokens \cup {NoRow}] /\ bindings \in [Keys -> SUBSET Bindings]
      /\ orgCreate \subseteq Keys /\ made \subseteq Keys /\ generated \in 0 .. MaxToken
      /\ granted \in [Keys -> SUBSET Bindings] /\ req \in [Requests -> RequestStates]
      /\ replaced \subseteq Tokens /\ raced \subseteq Requests /\ unsettled \subseteq Keys
      /\ \A r \in Requests : Formed(req[r]) /\ req[r] \in RequestStates
      /\ MaxToken \in Nat
  BY ApiKeysAssumption DEF TypeInv, TypeOK
<1>1. ASSUME NEW r \in Requests, CreateKey(r) PROVE TypeInv'
  <2>1. PICK k \in Keys \ made, want \in (SUBSET Granted) \ {{}}, perm \in {"on", "off"} :
          /\ made' = made \cup {k}
          /\ Become(r, [Idle EXCEPT !.step = "insert", !.route = "create", !.key = k,
                                    !.token = generated', !.want = want, !.perm = perm])
    BY <1>1 DEF CreateKey
  <2>2. generated' \in Tokens /\ generated' \in 0 .. MaxToken /\ want \in SUBSET Bindings
    BY <1>0, <1>1 DEF CreateKey, Tokens, Bindings
  <2> DEFINE s == [Idle EXCEPT !.step = "insert", !.route = "create", !.key = k,
                               !.token = generated', !.want = want, !.perm = perm]
  <2>3. s \in RequestStates /\ Formed(s)
    BY <2>2 DEF Idle, RequestStates, Steps, Formed, Written, Bindings
  <2>4. Become(r, s) /\ made' \subseteq Keys /\ UNCHANGED <<rows, bindings, orgCreate, history>>
    BY <1>0, <1>1, <2>1 DEF CreateKey
  <2> HIDE DEF s
  <2> QED BY <1>0, <2>2, <2>3, <2>4, TypeKept DEF history
<1>2. ASSUME NEW r \in Requests, InsertRow(r) PROVE TypeInv'
  <2> DEFINE s == [req[r] EXCEPT !.step = "clear"]
  <2>1. Formed(req[r]) /\ req[r] \in RequestStates /\ req[r].step = "insert"
    BY <1>0, <1>2 DEF InsertRow, At
  <2>2. s \in RequestStates /\ Formed(s)
    BY <2>1 DEF RequestStates, Steps, Formed, Written
  <2>3. Become(r, s) /\ rows' \in [Keys -> Tokens \cup {NoRow}]
        /\ UNCHANGED <<bindings, orgCreate, made, generated, history>>
    BY <1>0, <1>2, <2>1 DEF InsertRow, Go, Formed
  <2> HIDE DEF s
  <2> QED BY <1>0, <2>2, <2>3, TypeKept DEF history
<1>3. ASSUME NEW r \in Requests, UpdateKey(r) PROVE TypeInv'
  <2>1. PICK k \in Keys, want \in SUBSET Granted, perm \in {"keep", "on", "off"}, regen \in BOOLEAN :
          /\ regen => generated < MaxToken
          /\ generated' = IF regen THEN generated + 1 ELSE generated
          /\ Become(r, [Idle EXCEPT !.step = "readRow", !.route = "update", !.key = k,
                                    !.token = IF regen THEN generated' ELSE None,
                                    !.regen = regen, !.want = want, !.perm = perm])
    BY <1>3 DEF UpdateKey
  <2>2. generated' \in 0 .. MaxToken /\ (regen => generated' \in Tokens)
    BY <1>0, <2>1 DEF Tokens
  <2> DEFINE s == [Idle EXCEPT !.step = "readRow", !.route = "update", !.key = k,
                               !.token = IF regen THEN generated' ELSE None,
                               !.regen = regen, !.want = want, !.perm = perm]
  <2>3. s \in RequestStates /\ Formed(s)
    BY <2>2 DEF Idle, RequestStates, Steps, Formed, Written, Bindings
  <2>4. Become(r, s) /\ UNCHANGED <<rows, bindings, orgCreate, made, history>>
    BY <1>3, <2>1 DEF UpdateKey
  <2> HIDE DEF s
  <2> QED BY <1>0, <2>2, <2>3, <2>4, TypeKept DEF history
<1>4. ASSUME NEW r \in Requests, DeleteKey(r) PROVE TypeInv'
  <2>1. PICK k \in Keys :
          Become(r, [Idle EXCEPT !.step = "readRow", !.route = "delete", !.key = k])
    BY <1>4 DEF DeleteKey
  <2> DEFINE s == [Idle EXCEPT !.step = "readRow", !.route = "delete", !.key = k]
  <2>2. s \in RequestStates /\ Formed(s)
    BY DEF Idle, RequestStates, Steps, Formed, Written
  <2>3. Become(r, s) /\ UNCHANGED <<rows, bindings, orgCreate, made, generated, history>>
    BY <1>4, <2>1 DEF DeleteKey
  <2> HIDE DEF s
  <2> QED BY <1>0, <2>2, <2>3, TypeKept DEF history
<1>5. ASSUME NEW r \in Requests, CreateOrganization(r) PROVE TypeInv'
  <2>1. PICK t \in 1 .. generated, o \in Orgs :
          Become(r, [Idle EXCEPT !.step = "find", !.route = "organization", !.token = t, !.org = o])
    BY <1>5 DEF CreateOrganization
  <2> DEFINE s == [Idle EXCEPT !.step = "find", !.route = "organization", !.token = t, !.org = o]
  <2>2. t \in Tokens
    BY <1>0 DEF Tokens
  <2>3. s \in RequestStates /\ Formed(s)
    BY <2>2 DEF Idle, RequestStates, Steps, Formed, Written
  <2>4. Become(r, s) /\ UNCHANGED <<rows, bindings, orgCreate, made, generated, history>>
    BY <1>5, <2>1 DEF CreateOrganization
  <2> HIDE DEF s
  <2> QED BY <1>0, <2>3, <2>4, TypeKept DEF history
<1>6. ASSUME NEW r \in Requests, Find(r) PROVE TypeInv'
  <2>1. Formed(req[r]) /\ req[r] \in RequestStates /\ req[r].step = "find"
        /\ UNCHANGED <<rows, bindings, orgCreate, made, generated>>
    BY <1>0, <1>6 DEF Find, At
  <2>2. CASE (\E k \in Keys : Become(r, [req[r] EXCEPT !.step = "readRow", !.key = k,
                                                       !.token = None]))
             /\ UNCHANGED history
    <3>1. PICK k \in Keys : Become(r, [req[r] EXCEPT !.step = "readRow", !.key = k, !.token = None])
      BY <2>2
    <3> DEFINE s == [req[r] EXCEPT !.step = "readRow", !.key = k, !.token = None]
    <3>2. s \in RequestStates /\ Formed(s)
      BY <2>1 DEF RequestStates, Steps, Formed, Written
    <3>3. Become(r, s)
      BY <3>1
    <3> HIDE DEF s
    <3> QED BY <1>0, <2>1, <2>2, <3>2, <3>3, TypeKept DEF history
  <2>3. CASE Refuse(r) /\ UNCHANGED granted
    BY <1>0, <2>1, <2>3, RefuseTypes, IdleFormed, TypeKept
  <2> QED BY <1>6, <2>2, <2>3 DEF Find
<1>7. ASSUME NEW r \in Requests, ReadRow(r) PROVE TypeInv'
  <2> DEFINE s == [req[r] EXCEPT
                     !.step = IF req[r].route = "delete" THEN "dropPermissions" ELSE "readBindings"]
  <2>1. Formed(req[r]) /\ req[r] \in RequestStates /\ req[r].step = "readRow"
        /\ UNCHANGED <<rows, bindings, orgCreate, made, generated>>
    BY <1>0, <1>7 DEF ReadRow, At
  <2>2. s \in RequestStates /\ Formed(s)
    BY <2>1 DEF RequestStates, Steps, Formed, Written
  <2>3. \/ Refuse(r) /\ UNCHANGED granted
        \/ Become(r, s) /\ UNCHANGED history
    BY <1>7 DEF ReadRow, Go
  <2> HIDE DEF s
  <2> QED BY <1>0, <2>1, <2>2, <2>3, RefuseTypes, IdleFormed, TypeKept DEF history
<1>8. ASSUME NEW r \in Requests, ReadBindings(r) PROVE TypeInv'
  <2> DEFINE s == [req[r] EXCEPT !.step = "readPermissions", !.seen = bindings[req[r].key]]
  <2>1. Formed(req[r]) /\ req[r] \in RequestStates /\ req[r].step = "readBindings"
        /\ UNCHANGED <<rows, bindings, orgCreate, made, generated, granted, replaced, unsettled>>
    BY <1>0, <1>8 DEF ReadBindings, At
  <2>2. bindings[req[r].key] \subseteq Bindings
    BY <1>0, <2>1 DEF Formed
  <2>3. s \in RequestStates /\ Formed(s)
    BY <2>1, <2>2 DEF RequestStates, Steps, Formed, Written
  <2>4. Become(r, s) /\ raced' \subseteq Requests
    BY <1>0, <1>8 DEF ReadBindings
  <2> HIDE DEF s
  <2> QED BY <1>0, <2>1, <2>3, <2>4, TypeKept
<1>9. ASSUME NEW r \in Requests, ReadPermissions(r) PROVE TypeInv'
  <2> DEFINE perm == NextPermission(req[r].perm, req[r].want, req[r].key \in orgCreate)
             s == [req[r] EXCEPT !.step = "readHash", !.perm = perm, !.seen = {}]
             t == [req[r] EXCEPT !.step = "readHash", !.seen = {}, !.org = None,
                                 !.want = req[r].seen \cup {req[r].org}]
  <2>1. Formed(req[r]) /\ req[r] \in RequestStates /\ req[r].step = "readPermissions"
        /\ UNCHANGED <<rows, bindings, orgCreate, made, generated>>
    BY <1>0, <1>9 DEF ReadPermissions, At
  <2>2. perm \in {"keep", "on", "off"}
    BY <2>1 DEF NextPermission, RequestStates
  <2>3. s \in RequestStates /\ Formed(s)
    BY <2>1, <2>2 DEF RequestStates, Steps, Formed, Written
  <2>4. req[r].org \in Orgs => t \in RequestStates /\ Formed(t)
    BY <2>1 DEF RequestStates, Steps, Formed, Written, Bindings
  <2>5. \/ Become(r, s) /\ UNCHANGED history
        \/ req[r].route = "organization" /\ Become(r, t) /\ UNCHANGED history
        \/ Refuse(r) /\ UNCHANGED granted
    BY <1>9 DEF ReadPermissions
  <2>6. req[r].route = "organization" => t \in RequestStates /\ Formed(t)
    BY <2>1, <2>4 DEF Formed
  <2> HIDE DEF s, t
  <2> QED BY <1>0, <2>1, <2>3, <2>5, <2>6, RefuseTypes, IdleFormed, TypeKept DEF history
<1>10. ASSUME NEW r \in Requests, ReadHash(r) PROVE TypeInv'
  <2> DEFINE s == [req[r] EXCEPT !.step = "update", !.hash = rows[req[r].key]]
  <2>1. Formed(req[r]) /\ req[r] \in RequestStates /\ req[r].step = "readHash"
        /\ UNCHANGED <<rows, bindings, orgCreate, made, generated>>
    BY <1>0, <1>10 DEF ReadHash, At
  <2>2. rows[req[r].key] \in Tokens \cup {NoRow}
    BY <1>0, <2>1 DEF Formed
  <2>3. rows[req[r].key] # NoRow => s \in RequestStates /\ Formed(s)
    BY <2>1, <2>2 DEF RequestStates, Steps, Formed, Written
  <2>4. \/ Refuse(r) /\ UNCHANGED granted
        \/ rows[req[r].key] # NoRow /\ Become(r, s) /\ UNCHANGED history
    BY <1>10 DEF ReadHash
  <2> HIDE DEF s
  <2> QED BY <1>0, <2>1, <2>3, <2>4, RefuseTypes, IdleFormed, TypeKept DEF history
<1>11. ASSUME NEW r \in Requests, UpdateRow(r) PROVE TypeInv'
  <2> DEFINE s == [req[r] EXCEPT
                     !.step = IF req[r].want # {} THEN "clear" ELSE "clearPermissions",
                     !.token = None, !.hash = IF req[r].regen THEN req[r].hash ELSE None]
  <2>1. Formed(req[r]) /\ req[r] \in RequestStates /\ req[r].step = "update"
        /\ UNCHANGED <<bindings, orgCreate, made, generated>>
    BY <1>0, <1>11 DEF UpdateRow, At
  <2>2. /\ req[r].key \in Keys /\ req[r].hash \in Tokens
        /\ req[r].token \in Tokens \cup {None}
    BY <2>1 DEF Formed, RequestStates
  <2>3. rows' \in [Keys -> Tokens \cup {NoRow}]
    BY <1>0, <1>11, <2>2 DEF UpdateRow, Column
  <2>4. s \in RequestStates /\ Formed(s)
    BY <2>1, <2>2 DEF RequestStates, Steps, Formed, Written
  <2>5. \/ Finish(r, FALSE) /\ UNCHANGED granted
        \/ Become(r, s) /\ UNCHANGED history
    BY <1>11 DEF UpdateRow
  <2> HIDE DEF s
  <2> QED BY <1>0, <2>1, <2>2, <2>3, <2>4, <2>5, FinishTypes, IdleFormed, TypeKept DEF history
<1>12. ASSUME NEW r \in Requests, Clear(r) PROVE TypeInv'
  <2> DEFINE s == [req[r] EXCEPT !.step = "grant", !.left = req[r].want]
  <2>1. Formed(req[r]) /\ req[r] \in RequestStates /\ req[r].step = "clear"
        /\ UNCHANGED <<rows, orgCreate, made, generated, granted, replaced, unsettled>>
    BY <1>0, <1>12 DEF Clear, At
  <2>2. s \in RequestStates /\ Formed(s)
    BY <2>1 DEF RequestStates, Steps, Formed, Written
  <2>3. Become(r, s) /\ bindings' \in [Keys -> SUBSET Bindings] /\ raced' \subseteq Requests
    BY <1>0, <1>12 DEF Clear, Cleared, Relying
  <2> HIDE DEF s
  <2> QED BY <1>0, <2>1, <2>2, <2>3, TypeKept
<1>13. ASSUME NEW r \in Requests, Grant(r) PROVE TypeInv'
  <2>1. Formed(req[r]) /\ req[r] \in RequestStates /\ req[r].step = "grant"
        /\ UNCHANGED <<rows, orgCreate, made, generated>>
    BY <1>0, <1>13 DEF Grant, At
  <2>2. /\ req[r].key \in Keys /\ req[r].left \subseteq req[r].want /\ req[r].want \subseteq Bindings
        /\ req[r].regen => req[r].hash \in Tokens
    BY <2>1 DEF Formed, RequestStates, Written
  <2>3. PICK b \in req[r].left :
          LET left == req[r].left \ {b} IN
          /\ bindings' = [bindings EXCEPT ![req[r].key] = @ \cup {b}]
          /\ \/ /\ left # {}
                /\ Become(r, [req[r] EXCEPT !.left = left]) /\ UNCHANGED history
             \/ /\ left = {}
                /\ granted' = [granted EXCEPT ![req[r].key] = req[r].want]
                /\ IF req[r].perm = "keep" THEN Finish(r, FALSE)
                   ELSE /\ Become(r, [req[r] EXCEPT !.step = "clearPermissions", !.left = {}])
                        /\ UNCHANGED <<replaced, raced, unsettled>>
    BY <1>13 DEF Grant
  <2> DEFINE s == [req[r] EXCEPT !.left = req[r].left \ {b}]
             t == [req[r] EXCEPT !.step = "clearPermissions", !.left = {}]
  <2>4. s \in RequestStates /\ Formed(s) /\ t \in RequestStates /\ Formed(t)
    BY <2>1, <2>2 DEF RequestStates, Steps, Formed, Written
  <2>5. bindings' \in [Keys -> SUBSET Bindings]
    BY <1>0, <2>2, <2>3
  <2>6. granted' \in [Keys -> SUBSET Bindings]
    BY <1>0, <2>2, <2>3 DEF history
  <2>7. \/ Become(r, s) /\ UNCHANGED history
        \/ Finish(r, FALSE)
        \/ Become(r, t) /\ UNCHANGED <<replaced, raced, unsettled>>
    BY <2>3
  <2> HIDE DEF s, t
  <2> QED BY <1>0, <2>1, <2>2, <2>4, <2>5, <2>6, <2>7, FinishTypes, IdleFormed, TypeKept DEF history
<1>14. ASSUME NEW r \in Requests, ClearPermissions(r) PROVE TypeInv'
  <2> DEFINE s == [req[r] EXCEPT !.step = "grantPermission"]
  <2>1. Formed(req[r]) /\ req[r] \in RequestStates /\ req[r].step = "clearPermissions"
        /\ UNCHANGED <<rows, bindings, made, generated>> /\ orgCreate' \subseteq Keys
    BY <1>0, <1>14 DEF ClearPermissions, At
  <2>2. /\ req[r].key \in Keys
        /\ req[r].regen => req[r].hash \in Tokens
    BY <2>1 DEF Formed, Written
  <2>3. s \in RequestStates /\ Formed(s)
    BY <2>1 DEF RequestStates, Steps, Formed, Written
  <2>4. \/ Finish(r, req[r].want # {}) /\ UNCHANGED granted
        \/ Become(r, s) /\ UNCHANGED history
    BY <1>14 DEF ClearPermissions, Go
  <2> HIDE DEF s
  <2> QED BY <1>0, <2>1, <2>2, <2>3, <2>4, FinishTypes, IdleFormed, TypeKept DEF history
<1>15. ASSUME NEW r \in Requests, GrantPermission(r) PROVE TypeInv'
  <2>1. Formed(req[r]) /\ req[r].step = "grantPermission"
        /\ UNCHANGED <<rows, bindings, made, generated, granted>>
    BY <1>0, <1>15 DEF GrantPermission, At
  <2>2. /\ req[r].key \in Keys
        /\ req[r].regen => req[r].hash \in Tokens
    BY <2>1 DEF Formed, Written
  <2>3. orgCreate' \subseteq Keys /\ Finish(r, req[r].want # {})
    BY <1>0, <1>15, <2>2 DEF GrantPermission
  <2> QED BY <1>0, <2>1, <2>2, <2>3, FinishTypes, IdleFormed, TypeKept
<1>16. ASSUME NEW r \in Requests, DropPermissions(r) PROVE TypeInv'
  <2> DEFINE s == [req[r] EXCEPT !.step = "dropBindings"]
  <2>1. Formed(req[r]) /\ req[r] \in RequestStates /\ req[r].step = "dropPermissions"
        /\ UNCHANGED <<rows, bindings, made, generated, history>> /\ orgCreate' \subseteq Keys
    BY <1>0, <1>16 DEF DropPermissions, At
  <2>2. s \in RequestStates /\ Formed(s)
    BY <2>1 DEF RequestStates, Steps, Formed, Written
  <2>3. Become(r, s)
    BY <1>16 DEF DropPermissions, Go
  <2> HIDE DEF s
  <2> QED BY <1>0, <2>1, <2>2, <2>3, TypeKept DEF history
<1>17. ASSUME NEW r \in Requests, DropBindings(r) PROVE TypeInv'
  <2> DEFINE s == [req[r] EXCEPT !.step = "dropRow"]
  <2>1. Formed(req[r]) /\ req[r] \in RequestStates /\ req[r].step = "dropBindings"
        /\ UNCHANGED <<rows, orgCreate, made, generated, replaced, unsettled>>
    BY <1>0, <1>17 DEF DropBindings, At
  <2>2. s \in RequestStates /\ Formed(s)
    BY <2>1 DEF RequestStates, Steps, Formed, Written
  <2>3. /\ Become(r, s) /\ raced' \subseteq Requests
        /\ bindings' \in [Keys -> SUBSET Bindings] /\ granted' \in [Keys -> SUBSET Bindings]
    BY <1>0, <1>17 DEF DropBindings, Go, Relying
  <2> HIDE DEF s
  <2> QED BY <1>0, <2>1, <2>2, <2>3, TypeKept
<1>18. ASSUME NEW r \in Requests, DropRow(r) PROVE TypeInv'
  <2>1. Formed(req[r]) /\ req[r].step = "dropRow"
        /\ UNCHANGED <<bindings, orgCreate, made, generated, granted>>
    BY <1>0, <1>18 DEF DropRow, At
  <2>2. req[r].key \in Keys /\ ~req[r].regen
    BY <2>1 DEF Formed
  <2>3. /\ rows' \in [Keys -> Tokens \cup {NoRow}] /\ Become(r, Idle) /\ replaced' = replaced
        /\ raced' \subseteq Requests /\ unsettled' \subseteq Keys
    BY <1>0, <1>18, <2>2 DEF DropRow, Outliving
  <2> QED BY <1>0, <2>1, <2>2, <2>3, IdleFormed, TypeKept
<1>19. ASSUME NEW r \in Requests, Interrupt(r) PROVE TypeInv'
  <2>1. Formed(req[r]) /\ (Halfway(r) => req[r].key \in Keys)
    BY <1>0 DEF Halfway, At, Formed
  <2>2. Become(r, Idle) /\ raced' \subseteq Requests /\ unsettled' \subseteq Keys
        /\ UNCHANGED <<rows, bindings, orgCreate, made, generated, granted, replaced>>
    BY <1>0, <1>19, <2>1 DEF Interrupt
  <2> QED BY <1>0, <2>2, IdleFormed, TypeKept
<1>20. CASE UNCHANGED vars
  BY <1>20 DEF vars, TypeInv, TypeOK
<1> QED BY <1>1, <1>2, <1>3, <1>4, <1>5, <1>6, <1>7, <1>8, <1>9, <1>10, <1>11, <1>12, <1>13,
           <1>14, <1>15, <1>16, <1>17, <1>18, <1>19, <1>20 DEF Next, Step

\* The tables, the requests and the histories of API keys have their types,
\* and a request that writes knows what (every route that touches a key).
THEOREM TypeCorrect == Spec => []TypeOK
<1>1. Spec => []TypeInv
  BY TypeInit, TypeStep, PTL DEF Spec
<1>2. TypeInv => TypeOK
  BY DEF TypeInv
<1> QED BY <1>1, <1>2, PTL

-----------------------------------------------------------------------------
(* The bindings last written *)

LEMMA GrantInit == Init => GrantInv
BY DEF Init, GrantInv, WholeInv, OwnInv, Mixed, At, Idle, Rewriting

\* A step that leaves the bindings alone, outside of the insertions of a rewrite.
LEMMA Quiet ==
  ASSUME TypeInv, TypeInv', GrantInv, NEW r \in Requests,
         \A q \in Requests \ {r} : req'[q] = req[q] /\ (q \in raced => q \in raced'),
         UNCHANGED <<bindings, granted>>, unsettled \subseteq unsettled',
         ~At(r, "grant"), ~At(r, "grant")',
         req'[r].step \in {"clearPermissions", "grantPermission"} =>
           \/ req'[r].want = {}
           \/ /\ req[r].step \in {"clearPermissions", "grantPermission"}
              /\ req[r].want # {} /\ req'[r].key = req[r].key /\ raced' = raced,
         r \in raced /\ Halfway(r) =>
           \/ req[r].key \in unsettled'
           \/ r \in raced' /\ Halfway(r)' /\ req'[r].key = req[r].key
  PROVE  GrantInv'
<1>1. \A k : Rewriting(k)' = Rewriting(k)
  BY DEF Rewriting, At
<1>2. \A q \in Requests \ {r} : Halfway(q)' <=> Halfway(q)
  BY DEF Halfway, At
<1>3. raced \subseteq Requests /\ raced' \subseteq Requests
  BY DEF TypeInv, TypeOK
<1>4. \A k \in Keys \ unsettled' : Mixed(k) => Mixed(k)'
  <2> SUFFICES ASSUME NEW k \in Keys \ unsettled', Mixed(k) PROVE Mixed(k)'
      OBVIOUS
  <2>1. PICK q \in raced : req[q].key = k /\ Halfway(q)
    BY DEF Mixed
  <2>2. CASE q = r
    BY <2>1, <2>2 DEF Mixed
  <2>3. CASE q # r
    <3>1. q \in raced' /\ req'[q].key = k /\ Halfway(q)'
      BY <1>2, <1>3, <2>1, <2>3
    <3> QED BY <3>1 DEF Mixed
  <2> QED BY <2>2, <2>3
<1>5. WholeInv'
  BY <1>1, <1>4 DEF GrantInv, WholeInv
<1>6. OwnInv'
  <2> SUFFICES ASSUME NEW q \in Requests \ raced'
               PROVE  /\ At(q, "grant")' =>
                           /\ Rewriting(req'[q].key) = {q}
                           /\ bindings[req'[q].key] = req'[q].want \ req'[q].left
                      /\ (/\ req'[q].step \in {"clearPermissions", "grantPermission"}
                          /\ req'[q].want # {}) =>
                           /\ Rewriting(req'[q].key) = {}
                           /\ bindings[req'[q].key] = granted[req'[q].key]
      BY <1>1 DEF OwnInv
  <2>1. CASE q = r
    BY <2>1 DEF GrantInv, OwnInv
  <2>2. CASE q # r
    <3>1. q \in Requests \ raced /\ req'[q] = req[q] /\ (At(q, "grant")' <=> At(q, "grant"))
      BY <2>2 DEF At
    <3> QED BY <3>1 DEF GrantInv, OwnInv
  <2> QED BY <2>1, <2>2
<1> QED BY <1>5, <1>6 DEF GrantInv

\* The last step of a request that has written something.
LEMMA Ended ==
  ASSUME TypeInv, TypeInv', GrantInv, NEW r \in Requests, req[r].key \in Keys,
         \A q \in Requests \ {r} : req'[q] = req[q] /\ (q \in raced => q \in raced'),
         req'[r] = Idle, r \notin raced',
         \A k \in Keys \ {req[r].key} :
           /\ bindings'[k] = bindings[k] /\ granted'[k] = granted[k]
           /\ k \in unsettled' <=> k \in unsettled,
         At(r, "grant") \/ UNCHANGED <<bindings, granted>>,
         \/ req[r].key \in unsettled'
         \/ bindings'[req[r].key] = granted'[req[r].key]
  PROVE  GrantInv'
<1>1. \A k : Rewriting(k)' = Rewriting(k) \ {r}
  BY IdleFormed DEF Rewriting, At
<1>2. \A q \in Requests \ {r} : Halfway(q)' <=> Halfway(q)
  BY DEF Halfway, At
<1>3. raced \subseteq Requests /\ raced' \subseteq Requests
  BY DEF TypeInv, TypeOK
<1>4. ASSUME NEW k \in Keys \ unsettled', ~Mixed(k)', Rewriting(k)' = {}
      PROVE  bindings'[k] = granted'[k]
  <2>1. CASE k = req[r].key
    BY <2>1
  <2>2. CASE k # req[r].key
    <3>1. Rewriting(k) = {} /\ k \in Keys \ unsettled
      BY <1>1, <1>4, <2>2 DEF Rewriting
    <3>2. ~Mixed(k)
      <4> SUFFICES ASSUME NEW q \in raced, req[q].key = k, Halfway(q) PROVE FALSE
          BY DEF Mixed
      <4>1. q # r /\ q \in raced' /\ req'[q].key = k /\ Halfway(q)'
        BY <1>2, <1>3, <2>2
      <4> QED BY <1>4, <4>1 DEF Mixed
    <3> QED BY <2>2, <3>1, <3>2 DEF GrantInv, WholeInv
  <2> QED BY <2>1, <2>2
<1>5. WholeInv'
  BY <1>4 DEF WholeInv
<1>6. ASSUME NEW q \in Requests \ raced', q # r, req[q].step \in Written, req[q].key = req[r].key,
             At(q, "grant") \/ (req[q].step \in {"clearPermissions", "grantPermission"} /\ req[q].want # {})
      PROVE  ~At(r, "grant")
  <2>1. q \in Requests \ raced
    BY <1>6
  <2>2. Rewriting(req[r].key) \subseteq {q}
    BY <1>6, <2>1 DEF GrantInv, OwnInv
  <2> QED BY <1>6, <2>2 DEF Rewriting
<1>7. OwnInv'
  <2> SUFFICES ASSUME NEW q \in Requests \ raced'
               PROVE  /\ At(q, "grant")' =>
                           /\ Rewriting(req[q].key)' = {q}
                           /\ bindings'[req'[q].key] = req'[q].want \ req'[q].left
                      /\ (/\ req'[q].step \in {"clearPermissions", "grantPermission"}
                          /\ req'[q].want # {}) =>
                           /\ Rewriting(req[q].key)' = {}
                           /\ bindings'[req'[q].key] = granted'[req'[q].key]
      BY DEF OwnInv
  <2>1. CASE q = r
    BY <2>1 DEF At, Idle
  <2>2. CASE q # r
    <3>1. q \in Requests \ raced /\ req'[q] = req[q] /\ (At(q, "grant")' <=> At(q, "grant"))
      BY <2>2 DEF At
    <3>2. CASE At(q, "grant") \/ (req[q].step \in {"clearPermissions", "grantPermission"} /\ req[q].want # {})
      <4>1. req[q].key \in Keys /\ req[q].step \in Written
        BY <3>2 DEF TypeInv, Formed, Written, At
      <4>2. r \notin Rewriting(req[q].key)
        BY <1>6, <2>2, <3>2, <4>1 DEF Rewriting
      <4>3. bindings'[req[q].key] = bindings[req[q].key] /\ granted'[req[q].key] = granted[req[q].key]
        <5>1. CASE req[q].key # req[r].key
          BY <4>1, <5>1
        <5>2. CASE req[q].key = req[r].key
          BY <1>6, <2>2, <3>2, <4>1, <5>2
        <5> QED BY <5>1, <5>2
      <4>4. Rewriting(req[q].key)' = Rewriting(req[q].key)
        BY <3>1, <4>2, IdleFormed DEF Rewriting, At
      <4> QED BY <3>1, <4>3, <4>4 DEF GrantInv, OwnInv
    <3> QED BY <3>1, <3>2 DEF At
  <2> QED BY <2>1, <2>2
<1> QED BY <1>5, <1>7 DEF GrantInv

\* A request becomes s: Becoming, for a step between typed states.
LEMMA Stepping ==
  ASSUME TypeInv, NEW r \in Requests, NEW s, Become(r, s)
  PROVE  req'[r] = s /\ \A q \in Requests \ {r} : req'[q] = req[q]
BY DEF Become, TypeInv, TypeOK

\* Quiet for a step to another step that is no rewrite.
LEMMA QuietStep ==
  ASSUME TypeInv, TypeInv', GrantInv, NEW r \in Requests, NEW s, Become(r, s),
         UNCHANGED <<bindings, granted, unsettled>>, raced' \in {raced, raced \cup {r}},
         ~Halfway(r), s.step \notin {"grant", "grantPermission"},
         s.step = "clearPermissions" => s.want = {}
  PROVE  GrantInv'
<1>1. req'[r] = s /\ \A q \in Requests \ {r} : req'[q] = req[q]
  BY Stepping
<1>2. ~At(r, "grant") /\ ~At(r, "grant")'
  BY <1>1 DEF Halfway, At
<1> QED BY <1>1, <1>2, Quiet

\* Quiet for an answer without a write.
LEMMA QuietRefuse ==
  ASSUME TypeInv, TypeInv', GrantInv, NEW r \in Requests, Refuse(r),
         UNCHANGED <<bindings, granted>>, ~Halfway(r)
  PROVE  GrantInv'
<1>1. req'[r] = Idle /\ \A q \in Requests \ {r} : req'[q] = req[q]
  BY Stepping DEF Refuse
<1>2. ~At(r, "grant") /\ ~At(r, "grant")'
  BY <1>1 DEF Halfway, At, Idle
<1>3. raced' = raced \ {r} /\ unsettled' = unsettled
  BY DEF Refuse
<1> QED BY <1>1, <1>2, <1>3, Quiet DEF Idle

\* Ended and Quiet for the end of a request outside of the insertions.
LEMMA FinishKept ==
  ASSUME TypeInv, TypeInv', GrantInv, NEW r \in Requests, NEW whole \in BOOLEAN, Finish(r, whole),
         UNCHANGED <<bindings, granted>>, ~At(r, "grant"), req[r].key \in Keys,
         whole => /\ req[r].step \in {"clearPermissions", "grantPermission"}
                  /\ req[r].want # {}
  PROVE  GrantInv'
<1>1. req'[r] = Idle /\ \A q \in Requests \ {r} : req'[q] = req[q]
  BY Stepping DEF Finish
<1>2. raced' = raced \ {r}
  BY DEF Finish
<1>3. CASE r \in raced \/ whole
  <2>1. \A k \in Keys \ {req[r].key} : k \in unsettled' <=> k \in unsettled
    BY DEF Finish
  <2>2. \/ req[r].key \in unsettled'
        \/ bindings'[req[r].key] = granted'[req[r].key]
    BY <1>3 DEF Finish, GrantInv, OwnInv
  <2> QED BY <1>1, <1>2, <2>1, <2>2, Ended
<1>4. CASE r \notin raced /\ ~whole
  <2>1. unsettled' = unsettled
    BY <1>4 DEF Finish
  <2>2. ~At(r, "grant")'
    BY <1>1 DEF At, Idle
  <2> QED BY <1>1, <1>2, <1>4, <2>1, <2>2, Quiet DEF Idle
<1> QED BY <1>3, <1>4

\* The bindings of the key of r are replaced under the other requests.
LEMMA Replacing ==
  ASSUME TypeInv, TypeInv', GrantInv, NEW r \in Requests, NEW k \in Keys,
         req[r].key = k, req'[r].key = k, \A q \in Requests \ {r} : req'[q] = req[q],
         \A j \in Keys \ {k} : bindings'[j] = bindings[j] /\ granted'[j] = granted[j],
         unsettled' = unsettled, raced \cup (Relying(k) \ {r}) \subseteq raced',
         req'[r].step \notin {"clearPermissions", "grantPermission"},
         \/ At(r, "grant")'
         \/ ~At(r, "grant") /\ bindings'[k] = granted'[k],
         At(r, "grant")' /\ r \notin raced' =>
           Rewriting(k) = {} /\ bindings'[k] = req'[r].want \ req'[r].left
  PROVE  GrantInv'
<1>1. raced \subseteq Requests
  BY DEF TypeInv, TypeOK
<1>2. ASSUME NEW j \in Keys \ unsettled', ~Mixed(j)', Rewriting(j)' = {}
      PROVE  bindings'[j] = granted'[j]
  <2>1. CASE j = k
    BY <1>2, <2>1 DEF Rewriting, At
  <2>2. CASE j # k
    <3>1. Rewriting(j) = {}
      BY <1>2, <2>2 DEF Rewriting, At
    <3>2. ~Mixed(j)
      <4> SUFFICES ASSUME NEW q \in raced, req[q].key = j, Halfway(q) PROVE FALSE
          BY DEF Mixed
      <4>1. q \in raced' /\ q # r /\ req'[q] = req[q]
        BY <1>1, <2>2
      <4>2. Halfway(q)' /\ req'[q].key = j
        BY <4>1 DEF Halfway, At
      <4> QED BY <1>2, <4>1, <4>2 DEF Mixed
    <3> QED BY <1>2, <2>2, <3>1, <3>2 DEF GrantInv, WholeInv
  <2> QED BY <2>1, <2>2
<1>3. OwnInv'
  <2> SUFFICES ASSUME NEW q \in Requests \ raced'
               PROVE  /\ At(q, "grant")' =>
                           /\ Rewriting(req[q].key)' = {q}
                           /\ bindings'[req'[q].key] = req'[q].want \ req'[q].left
                      /\ (/\ req'[q].step \in {"clearPermissions", "grantPermission"}
                          /\ req'[q].want # {}) =>
                           /\ Rewriting(req[q].key)' = {}
                           /\ bindings'[req'[q].key] = granted'[req'[q].key]
      BY DEF OwnInv
  <2>1. CASE q = r
    <3> SUFFICES ASSUME At(r, "grant")'
                 PROVE  Rewriting(req[r].key)' = {r} /\ bindings'[k] = req'[r].want \ req'[r].left
        BY <2>1 DEF At
    <3>1. Rewriting(k) = {} /\ bindings'[k] = req'[r].want \ req'[r].left
      BY <2>1
    <3> QED BY <3>1 DEF Rewriting, At
  <2>2. CASE q # r
    <3>1. req'[q] = req[q] /\ q \notin raced /\ q \notin Relying(k)
      BY <2>2
    <3>2. CASE req[q].key = k
      <4>1. req[q].step \notin {"grant", "clearPermissions", "grantPermission"}
        BY <3>1, <3>2 DEF Relying
      <4> QED BY <3>1, <4>1 DEF At
    <3>3. CASE req[q].key # k
      <4>1. CASE At(q, "grant") \/ (req[q].step \in {"clearPermissions", "grantPermission"})
        <5>1. req[q].key \in Keys
          BY <4>1 DEF TypeInv, Formed, At
        <5>2. Rewriting(req[q].key)' = Rewriting(req[q].key)
          BY <3>1, <3>3 DEF Rewriting, At
        <5> QED BY <3>1, <3>3, <5>1, <5>2 DEF GrantInv, OwnInv, At
      <4> QED BY <3>1, <4>1 DEF At
    <3> QED BY <3>2, <3>3
  <2> QED BY <2>1, <2>2
<1>4. WholeInv'
  BY <1>2 DEF WholeInv
<1> QED BY <1>3, <1>4 DEF GrantInv

\* The DELETE that starts a rewrite leaves r alone with the bindings of its key.
LEMMA ClearKept ==
  ASSUME TypeInv, TypeInv', GrantInv, NEW r \in Requests, Clear(r)
  PROVE  GrantInv'
<1> DEFINE k == req[r].key
<1>1. /\ req'[r] = [req[r] EXCEPT !.step = "grant", !.left = req[r].want]
      /\ \A q \in Requests \ {r} : req'[q] = req[q]
  BY Stepping DEF Clear
<1>2. /\ k \in Keys /\ req[r] \in RequestStates /\ bindings \in [Keys -> SUBSET Bindings]
      /\ granted \in [Keys -> SUBSET Bindings]
  BY DEF Clear, TypeInv, TypeOK, Formed, At
<1>3. /\ bindings' = [bindings EXCEPT ![k] = {}] /\ granted' = granted /\ unsettled' = unsettled
      /\ raced' = raced \cup (Relying(k) \ {r}) \cup (IF Rewriting(k) = {} THEN {} ELSE {r})
  BY DEF Clear, Cleared
<1>4. At(r, "grant")' /\ req'[r].key = k /\ req'[r].want = req'[r].left
  BY <1>1, <1>2 DEF RequestStates, At
<1>5. r \notin raced' => Rewriting(k) = {}
  BY <1>3
<1>6. bindings'[k] = {} /\ \A j \in Keys \ {k} : bindings'[j] = bindings[j]
  BY <1>2, <1>3
<1>7. req'[r].step \notin {"clearPermissions", "grantPermission"}
  BY <1>4 DEF At
<1>8. bindings'[k] = req'[r].want \ req'[r].left
  BY <1>4, <1>6
<1>9. raced \cup (Relying(k) \ {r}) \subseteq raced'
  BY <1>3
<1> QED BY <1>1, <1>2, <1>3, <1>4, <1>5, <1>6, <1>7, <1>8, <1>9, Replacing

\* deleteApiKey drops the bindings of a key others may be rewriting.
LEMMA DropKept ==
  ASSUME TypeInv, TypeInv', GrantInv, NEW r \in Requests, DropBindings(r)
  PROVE  GrantInv'
<1> DEFINE k == req[r].key
<1>1. /\ req'[r] = [req[r] EXCEPT !.step = "dropRow"]
      /\ \A q \in Requests \ {r} : req'[q] = req[q]
  BY Stepping DEF DropBindings, Go
<1>2. /\ k \in Keys /\ At(r, "dropBindings") /\ req[r] \in RequestStates
      /\ bindings \in [Keys -> SUBSET Bindings] /\ granted \in [Keys -> SUBSET Bindings]
  BY DEF DropBindings, TypeInv, TypeOK, Formed, At
<1>3. /\ bindings' = [bindings EXCEPT ![k] = {}] /\ granted' = [granted EXCEPT ![k] = {}]
      /\ unsettled' = unsettled /\ raced' = raced \cup (Relying(k) \ {r})
  BY DEF DropBindings
<1>4. req'[r].step = "dropRow" /\ req'[r].key = k /\ ~At(r, "grant") /\ ~At(r, "grant")'
  BY <1>1, <1>2 DEF RequestStates, At
<1>5. /\ bindings'[k] = granted'[k]
      /\ \A j \in Keys \ {k} : bindings'[j] = bindings[j] /\ granted'[j] = granted[j]
  BY <1>2, <1>3
<1> QED BY <1>1, <1>2, <1>3, <1>4, <1>5, Replacing

\* A binding is inserted and others are left.
LEMMA GrantMore ==
  ASSUME TypeInv, TypeInv', GrantInv, NEW r \in Requests, NEW left, NEW k \in Keys,
         At(r, "grant"), req[r].key = k, UNCHANGED <<granted, raced, unsettled>>,
         Become(r, [req[r] EXCEPT !.left = left]),
         \A j \in Keys \ {k} : bindings'[j] = bindings[j],
         r \notin raced => Rewriting(k) = {r} /\ bindings'[k] = req[r].want \ left
  PROVE  GrantInv'
<1>1. /\ req'[r] = [req[r] EXCEPT !.left = left]
      /\ \A q \in Requests \ {r} : req'[q] = req[q]
  BY Stepping
<1>2. /\ req'[r].step = "grant" /\ req'[r].key = k /\ req'[r].want = req[r].want /\ req'[r].left = left
      /\ req[r].step = "grant"
  BY <1>1 DEF TypeInv, TypeOK, RequestStates, At
<1>3. \A j : Rewriting(j)' = Rewriting(j)
  BY <1>1, <1>2 DEF Rewriting, At
<1>4. raced \subseteq Requests
  BY DEF TypeInv, TypeOK
<1>5. \A j \in Keys : Mixed(j) => Mixed(j)'
  <2> SUFFICES ASSUME NEW j \in Keys, NEW q \in raced, req[q].key = j, Halfway(q) PROVE Mixed(j)'
      BY DEF Mixed
  <2>1. req'[q].key = j /\ Halfway(q)'
    BY <1>1, <1>2, <1>4 DEF Halfway, At
  <2> QED BY <2>1 DEF Mixed
<1>6. WholeInv'
  <2> SUFFICES ASSUME NEW j \in Keys \ unsettled, ~Mixed(j)', Rewriting(j)' = {}
               PROVE  bindings'[j] = granted[j]
      BY DEF WholeInv
  <2>1. j # k
    BY <1>2, <1>3 DEF Rewriting, At
  <2> QED BY <1>3, <1>5, <2>1 DEF GrantInv, WholeInv
<1>7. OwnInv'
  <2> SUFFICES ASSUME NEW q \in Requests \ raced
               PROVE  /\ At(q, "grant")' =>
                           /\ Rewriting(req'[q].key) = {q}
                           /\ bindings'[req'[q].key] = req'[q].want \ req'[q].left
                      /\ (/\ req'[q].step \in {"clearPermissions", "grantPermission"}
                          /\ req'[q].want # {}) =>
                           /\ Rewriting(req'[q].key) = {}
                           /\ bindings'[req'[q].key] = granted[req'[q].key]
      BY <1>3 DEF OwnInv
  <2>1. CASE q = r
    BY <1>2, <2>1
  <2>2. CASE q # r
    <3>1. req'[q] = req[q]
      BY <1>1, <2>2
    <3>2. CASE At(q, "grant") \/ (req[q].step \in {"clearPermissions", "grantPermission"} /\ req[q].want # {})
      <4>1. Rewriting(req[q].key) \subseteq {q}
        BY <3>2 DEF GrantInv, OwnInv
      <4>2. req[q].key # k
        BY <1>2, <2>2, <4>1 DEF Rewriting, At
      <4>3. req[q].key \in Keys
        BY <3>2 DEF TypeInv, Formed, At
      <4> QED BY <3>1, <3>2, <4>2, <4>3 DEF GrantInv, OwnInv, At
    <3> QED BY <3>1, <3>2 DEF At
  <2> QED BY <2>1, <2>2
<1> QED BY <1>6, <1>7 DEF GrantInv

\* The last binding is inserted, and the permissions are next.
LEMMA GrantLast ==
  ASSUME TypeInv, TypeInv', GrantInv, NEW r \in Requests, NEW k \in Keys,
         At(r, "grant"), req[r].key = k, UNCHANGED <<raced, unsettled>>, req[r].want # {},
         Become(r, [req[r] EXCEPT !.step = "clearPermissions", !.left = {}]),
         \A j \in Keys \ {k} : bindings'[j] = bindings[j], \A j \in Keys \ {k} : granted'[j] = granted[j],
         r \notin raced => Rewriting(k) = {r} /\ bindings'[k] = granted'[k]
  PROVE  GrantInv'
<1>1. /\ req'[r] = [req[r] EXCEPT !.step = "clearPermissions", !.left = {}]
      /\ \A q \in Requests \ {r} : req'[q] = req[q]
  BY Stepping
<1>2. /\ req'[r].step = "clearPermissions" /\ req'[r].key = k /\ req'[r].want = req[r].want
      /\ req[r].step = "grant"
  BY <1>1 DEF TypeInv, TypeOK, RequestStates, At
<1>3. \A j : Rewriting(j)' = Rewriting(j) \ {r}
  <2>1. \A q \in Requests : At(q, "grant")' <=> At(q, "grant") /\ q # r
    BY <1>1, <1>2 DEF At
  <2>2. \A q \in Requests : q # r => req'[q].key = req[q].key
    BY <1>1
  <2> QED BY <2>1, <2>2 DEF Rewriting
<1>4. raced \subseteq Requests
  BY DEF TypeInv, TypeOK
<1>5. \A j \in Keys : Mixed(j) => Mixed(j)'
  <2> SUFFICES ASSUME NEW j \in Keys, NEW q \in raced, req[q].key = j, Halfway(q) PROVE Mixed(j)'
      BY DEF Mixed
  <2>1. req'[q].key = j /\ Halfway(q)'
    BY <1>1, <1>2, <1>4 DEF Halfway, At
  <2> QED BY <2>1 DEF Mixed
<1>6. r \in raced => Mixed(k)'
  BY <1>2 DEF Mixed, Halfway, At
<1>7. WholeInv'
  <2> SUFFICES ASSUME NEW j \in Keys \ unsettled, ~Mixed(j)', Rewriting(j)' = {}
               PROVE  bindings'[j] = granted'[j]
      BY DEF WholeInv
  <2>1. CASE j = k
    BY <1>6, <2>1
  <2>2. CASE j # k
    <3>1. Rewriting(j) = {}
      BY <1>3, <2>2 DEF Rewriting
    <3> QED BY <1>5, <2>2, <3>1 DEF GrantInv, WholeInv
  <2> QED BY <2>1, <2>2
<1>8. OwnInv'
  <2> SUFFICES ASSUME NEW q \in Requests \ raced
               PROVE  /\ At(q, "grant")' =>
                           /\ Rewriting(req'[q].key) \ {r} = {q}
                           /\ bindings'[req'[q].key] = req'[q].want \ req'[q].left
                      /\ (/\ req'[q].step \in {"clearPermissions", "grantPermission"}
                          /\ req'[q].want # {}) =>
                           /\ Rewriting(req'[q].key) \ {r} = {}
                           /\ bindings'[req'[q].key] = granted'[req'[q].key]
      BY <1>3 DEF OwnInv
  <2>1. CASE q = r
    BY <1>2, <2>1 DEF At
  <2>2. CASE q # r
    <3>1. req'[q] = req[q]
      BY <1>1, <2>2
    <3>2. CASE At(q, "grant") \/ (req[q].step \in {"clearPermissions", "grantPermission"} /\ req[q].want # {})
      <4>1. Rewriting(req[q].key) \subseteq {q}
        BY <3>2 DEF GrantInv, OwnInv
      <4>2. req[q].key # k /\ r \notin Rewriting(req[q].key)
        BY <1>2, <2>2, <4>1 DEF Rewriting, At
      <4>3. req[q].key \in Keys
        BY <3>2 DEF TypeInv, Formed, At
      <4> QED BY <3>1, <3>2, <4>2, <4>3 DEF GrantInv, OwnInv, At
    <3> QED BY <3>1, <3>2 DEF At
  <2> QED BY <2>1, <2>2
<1> QED BY <1>7, <1>8 DEF GrantInv

\* One binding is inserted; after the last one the bindings are those granted.
LEMMA GrantKept ==
  ASSUME TypeInv, TypeInv', GrantInv, NEW r \in Requests, Grant(r)
  PROVE  GrantInv'
<1> DEFINE k == req[r].key
<1>1. /\ k \in Keys /\ At(r, "grant") /\ req[r].left \subseteq req[r].want /\ req[r].want # {}
      /\ req[r] \in RequestStates
      /\ bindings \in [Keys -> SUBSET Bindings] /\ granted \in [Keys -> SUBSET Bindings]
  BY DEF Grant, TypeInv, TypeOK, Formed, At
<1>2. PICK b \in req[r].left :
        /\ bindings' = [bindings EXCEPT ![k] = @ \cup {b}]
        /\ \/ /\ req[r].left \ {b} # {}
              /\ Become(r, [req[r] EXCEPT !.left = req[r].left \ {b}]) /\ UNCHANGED history
           \/ /\ req[r].left \ {b} = {}
              /\ granted' = [granted EXCEPT ![k] = req[r].want]
              /\ IF req[r].perm = "keep" THEN Finish(r, FALSE)
                 ELSE /\ Become(r, [req[r] EXCEPT !.step = "clearPermissions", !.left = {}])
                      /\ UNCHANGED <<replaced, raced, unsettled>>
  BY DEF Grant
<1>3. /\ bindings'[k] = bindings[k] \cup {b}
      /\ \A j \in Keys \ {k} : bindings'[j] = bindings[j]
  BY <1>1, <1>2
<1>4. r \notin raced =>
        Rewriting(k) = {r} /\ bindings'[k] = req[r].want \ (req[r].left \ {b})
  BY <1>1, <1>3 DEF GrantInv, OwnInv
<1>5. CASE /\ Become(r, [req[r] EXCEPT !.left = req[r].left \ {b}]) /\ UNCHANGED history
  BY <1>1, <1>3, <1>4, <1>5, GrantMore DEF history
<1>6. CASE /\ req[r].left \ {b} = {}
           /\ granted' = [granted EXCEPT ![k] = req[r].want]
           /\ Finish(r, FALSE)
  <2>1. req'[r] = Idle /\ \A q \in Requests \ {r} : req'[q] = req[q]
    BY <1>6, Stepping DEF Finish
  <2>2. /\ raced' = raced \ {r}
        /\ unsettled' = IF r \in raced THEN unsettled \cup {k} ELSE unsettled
    BY <1>6 DEF Finish
  <2>3. granted'[k] = req[r].want /\ \A j \in Keys \ {k} : granted'[j] = granted[j]
    BY <1>1, <1>6
  <2>4. k \in unsettled' \/ bindings'[k] = granted'[k]
    BY <1>4, <1>6, <2>2, <2>3
  <2>5. \A j \in Keys \ {k} : j \in unsettled' <=> j \in unsettled
    BY <2>2
  <2> QED BY <1>1, <1>3, <2>1, <2>2, <2>3, <2>4, <2>5, Ended
<1>7. CASE /\ req[r].left \ {b} = {}
           /\ granted' = [granted EXCEPT ![k] = req[r].want]
           /\ Become(r, [req[r] EXCEPT !.step = "clearPermissions", !.left = {}])
           /\ UNCHANGED <<replaced, raced, unsettled>>
  <2>1. granted'[k] = req[r].want /\ \A j \in Keys \ {k} : granted'[j] = granted[j]
    BY <1>1, <1>7
  <2>2. r \notin raced => Rewriting(k) = {r} /\ bindings'[k] = granted'[k]
    BY <1>4, <1>7, <2>1
  <2>3. req[r].want # {}
    BY <1>1
  <2> QED BY <1>1, <1>3, <1>7, <2>1, <2>2, <2>3, GrantLast
<1> QED BY <1>2, <1>5, <1>6, <1>7

LEMMA GrantStep == TypeInv /\ TypeInv' /\ GrantInv /\ [Next]_vars => GrantInv'
<1> SUFFICES ASSUME TypeInv, TypeInv', GrantInv, [Next]_vars PROVE GrantInv'
    OBVIOUS
<1>0. \A r \in Requests : Formed(req[r]) /\ req[r] \in RequestStates
  BY DEF TypeInv, TypeOK
<1>1. ASSUME NEW r \in Requests, CreateKey(r) PROVE GrantInv'
  <2>1. PICK k \in Keys, want \in SUBSET Granted, perm \in {"on", "off"} :
          Become(r, [Idle EXCEPT !.step = "insert", !.route = "create", !.key = k,
                                 !.token = generated', !.want = want, !.perm = perm])
    BY <1>1 DEF CreateKey
  <2> DEFINE s == [Idle EXCEPT !.step = "insert", !.route = "create", !.key = k,
                               !.token = generated', !.want = want, !.perm = perm]
  <2>2. s.step = "insert"
    BY DEF Idle
  <2>3. ~Halfway(r) /\ UNCHANGED <<bindings, granted, unsettled, raced>>
    BY <1>1 DEF CreateKey, history, Halfway, At
  <2> HIDE DEF s
  <2> QED BY <2>1, <2>2, <2>3, QuietStep DEF s
<1>2. ASSUME NEW r \in Requests, InsertRow(r) PROVE GrantInv'
  <2> DEFINE s == [req[r] EXCEPT !.step = "clear"]
  <2>1. s.step = "clear"
    BY <1>0 DEF RequestStates
  <2>2. /\ Become(r, s) /\ ~Halfway(r) /\ UNCHANGED <<bindings, granted, unsettled, raced>>
    BY <1>2 DEF InsertRow, Go, history, Halfway, At
  <2> HIDE DEF s
  <2> QED BY <2>1, <2>2, QuietStep
<1>3. ASSUME NEW r \in Requests, UpdateKey(r) PROVE GrantInv'
  <2>1. PICK k \in Keys, want \in SUBSET Granted, perm \in {"keep", "on", "off"}, regen \in BOOLEAN :
          Become(r, [Idle EXCEPT !.step = "readRow", !.route = "update", !.key = k,
                                 !.token = IF regen THEN generated' ELSE None,
                                 !.regen = regen, !.want = want, !.perm = perm])
    BY <1>3 DEF UpdateKey
  <2> DEFINE s == [Idle EXCEPT !.step = "readRow", !.route = "update", !.key = k,
                               !.token = IF regen THEN generated' ELSE None,
                               !.regen = regen, !.want = want, !.perm = perm]
  <2>2. s.step = "readRow"
    BY DEF Idle
  <2>3. ~Halfway(r) /\ UNCHANGED <<bindings, granted, unsettled, raced>>
    BY <1>3 DEF UpdateKey, history, Halfway, At
  <2> HIDE DEF s
  <2> QED BY <2>1, <2>2, <2>3, QuietStep DEF s
<1>4. ASSUME NEW r \in Requests, DeleteKey(r) PROVE GrantInv'
  <2>1. PICK k \in Keys :
          Become(r, [Idle EXCEPT !.step = "readRow", !.route = "delete", !.key = k])
    BY <1>4 DEF DeleteKey
  <2> DEFINE s == [Idle EXCEPT !.step = "readRow", !.route = "delete", !.key = k]
  <2>2. s.step = "readRow"
    BY DEF Idle
  <2>3. ~Halfway(r) /\ UNCHANGED <<bindings, granted, unsettled, raced>>
    BY <1>4 DEF DeleteKey, history, Halfway, At
  <2> HIDE DEF s
  <2> QED BY <2>1, <2>2, <2>3, QuietStep DEF s
<1>5. ASSUME NEW r \in Requests, CreateOrganization(r) PROVE GrantInv'
  <2>1. PICK t \in 1 .. generated, o \in Orgs :
          Become(r, [Idle EXCEPT !.step = "find", !.route = "organization", !.token = t, !.org = o])
    BY <1>5 DEF CreateOrganization
  <2> DEFINE s == [Idle EXCEPT !.step = "find", !.route = "organization", !.token = t, !.org = o]
  <2>2. s.step = "find"
    BY DEF Idle
  <2>3. ~Halfway(r) /\ UNCHANGED <<bindings, granted, unsettled, raced>>
    BY <1>5 DEF CreateOrganization, history, Halfway, At
  <2> HIDE DEF s
  <2> QED BY <2>1, <2>2, <2>3, QuietStep DEF s
<1>6. ASSUME NEW r \in Requests, Find(r) PROVE GrantInv'
  <2>1. ~Halfway(r) /\ UNCHANGED bindings
    BY <1>6 DEF Find, Halfway, At
  <2>2. CASE (\E k \in Keys : Become(r, [req[r] EXCEPT !.step = "readRow", !.key = k,
                                                       !.token = None]))
             /\ UNCHANGED history
    <3>1. PICK k \in Keys : Become(r, [req[r] EXCEPT !.step = "readRow", !.key = k, !.token = None])
      BY <2>2
    <3> DEFINE s == [req[r] EXCEPT !.step = "readRow", !.key = k, !.token = None]
    <3>2. s.step = "readRow"
      BY <1>0 DEF RequestStates
    <3>3. UNCHANGED <<granted, unsettled, raced>>
      BY <2>2 DEF history
    <3> HIDE DEF s
    <3> QED BY <2>1, <3>1, <3>2, <3>3, QuietStep DEF s
  <2>3. CASE Refuse(r) /\ UNCHANGED granted
    BY <2>1, <2>3, QuietRefuse
  <2> QED BY <1>6, <2>2, <2>3 DEF Find
<1>7. ASSUME NEW r \in Requests, ReadRow(r) PROVE GrantInv'
  <2> DEFINE s == [req[r] EXCEPT
                     !.step = IF req[r].route = "delete" THEN "dropPermissions" ELSE "readBindings"]
  <2>1. s.step \in {"dropPermissions", "readBindings"}
    BY <1>0 DEF RequestStates
  <2>2. ~Halfway(r) /\ UNCHANGED bindings
    BY <1>7 DEF ReadRow, Halfway, At
  <2>3. \/ Refuse(r) /\ UNCHANGED granted
        \/ Become(r, s) /\ UNCHANGED <<granted, unsettled, raced>>
    BY <1>7 DEF ReadRow, Go, history
  <2> HIDE DEF s
  <2> QED BY <2>1, <2>2, <2>3, QuietStep, QuietRefuse
<1>8. ASSUME NEW r \in Requests, ReadBindings(r) PROVE GrantInv'
  <2> DEFINE s == [req[r] EXCEPT !.step = "readPermissions", !.seen = bindings[req[r].key]]
  <2>1. s.step = "readPermissions"
    BY <1>0 DEF RequestStates
  <2>2. /\ Become(r, s) /\ ~Halfway(r) /\ UNCHANGED <<bindings, granted, unsettled>>
        /\ raced' \in {raced, raced \cup {r}}
    BY <1>8 DEF ReadBindings, Halfway, At
  <2> HIDE DEF s
  <2> QED BY <2>1, <2>2, QuietStep
<1>9. ASSUME NEW r \in Requests, ReadPermissions(r) PROVE GrantInv'
  <2> DEFINE perm == NextPermission(req[r].perm, req[r].want, req[r].key \in orgCreate)
             s == [req[r] EXCEPT !.step = "readHash", !.perm = perm, !.seen = {}]
             t == [req[r] EXCEPT !.step = "readHash", !.seen = {}, !.org = None,
                                 !.want = req[r].seen \cup {req[r].org}]
  <2>1. s.step = "readHash" /\ t.step = "readHash"
    BY <1>0 DEF RequestStates
  <2>2. ~Halfway(r) /\ UNCHANGED bindings
    BY <1>9 DEF ReadPermissions, Halfway, At
  <2>3. \/ Become(r, s) /\ UNCHANGED history
        \/ Become(r, t) /\ UNCHANGED history
        \/ Refuse(r) /\ UNCHANGED granted
    BY <1>9 DEF ReadPermissions
  <2> HIDE DEF s, t
  <2> QED BY <2>1, <2>2, <2>3, QuietStep, QuietRefuse DEF history
<1>10. ASSUME NEW r \in Requests, ReadHash(r) PROVE GrantInv'
  <2> DEFINE s == [req[r] EXCEPT !.step = "update", !.hash = rows[req[r].key]]
  <2>1. s.step = "update"
    BY <1>0 DEF RequestStates
  <2>2. ~Halfway(r) /\ UNCHANGED bindings
    BY <1>10 DEF ReadHash, Halfway, At
  <2>3. \/ Refuse(r) /\ UNCHANGED granted
        \/ Become(r, s) /\ UNCHANGED history
    BY <1>10 DEF ReadHash
  <2> HIDE DEF s
  <2> QED BY <2>1, <2>2, <2>3, QuietStep, QuietRefuse DEF history
<1>11. ASSUME NEW r \in Requests, UpdateRow(r) PROVE GrantInv'
  <2> DEFINE s == [req[r] EXCEPT
                     !.step = IF req[r].want # {} THEN "clear" ELSE "clearPermissions",
                     !.token = None, !.hash = IF req[r].regen THEN req[r].hash ELSE None]
  <2>1. s.step \in {"clear", "clearPermissions"} /\ (s.step = "clearPermissions" => s.want = {})
    BY <1>0 DEF RequestStates
  <2>2. ~Halfway(r) /\ ~At(r, "grant") /\ UNCHANGED bindings /\ req[r].key \in Keys
    BY <1>0, <1>11 DEF UpdateRow, Halfway, At, Formed
  <2>3. \/ Finish(r, FALSE) /\ UNCHANGED granted
        \/ Become(r, s) /\ UNCHANGED history
    BY <1>11 DEF UpdateRow
  <2> HIDE DEF s
  <2> QED BY <2>1, <2>2, <2>3, QuietStep, FinishKept DEF history
<1>12. ASSUME NEW r \in Requests, Clear(r) PROVE GrantInv'
  BY <1>12, ClearKept
<1>13. ASSUME NEW r \in Requests, Grant(r) PROVE GrantInv'
  BY <1>13, GrantKept
<1>14. ASSUME NEW r \in Requests, ClearPermissions(r) PROVE GrantInv'
  <2>1. req[r].step = "clearPermissions" /\ req[r].key \in Keys /\ UNCHANGED bindings
    BY <1>0, <1>14 DEF ClearPermissions, At, Formed
  <2>2. CASE Finish(r, req[r].want # {}) /\ UNCHANGED granted
    BY <2>1, <2>2, FinishKept DEF At
  <2>3. CASE Go(r, "grantPermission") /\ UNCHANGED history
    <3>1. req'[r] = [req[r] EXCEPT !.step = "grantPermission"] /\ \A q \in Requests \ {r} : req'[q] = req[q]
      BY <2>3, Stepping DEF Go
    <3>2. req'[r].step = "grantPermission" /\ req'[r].key = req[r].key /\ req'[r].want = req[r].want
      BY <1>0, <3>1 DEF RequestStates
    <3>3. ~At(r, "grant") /\ ~At(r, "grant")' /\ Halfway(r)'
      BY <2>1, <3>2 DEF At, Halfway
    <3>4. UNCHANGED <<granted, raced, unsettled>>
      BY <2>3 DEF history
    <3> QED BY <2>1, <3>1, <3>2, <3>3, <3>4, Quiet
  <2> QED BY <1>14, <2>2, <2>3 DEF ClearPermissions
<1>15. ASSUME NEW r \in Requests, GrantPermission(r) PROVE GrantInv'
  <2>1. req[r].step = "grantPermission" /\ req[r].key \in Keys
        /\ UNCHANGED <<bindings, granted>> /\ Finish(r, req[r].want # {})
    BY <1>0, <1>15 DEF GrantPermission, At, Formed
  <2> QED BY <2>1, FinishKept DEF At
<1>16. ASSUME NEW r \in Requests, DropPermissions(r) PROVE GrantInv'
  <2> DEFINE s == [req[r] EXCEPT !.step = "dropBindings"]
  <2>1. s.step = "dropBindings"
    BY <1>0 DEF RequestStates
  <2>2. /\ Become(r, s) /\ ~Halfway(r) /\ UNCHANGED <<bindings, granted, unsettled, raced>>
    BY <1>16 DEF DropPermissions, Go, history, Halfway, At
  <2> HIDE DEF s
  <2> QED BY <2>1, <2>2, QuietStep
<1>17. ASSUME NEW r \in Requests, DropBindings(r) PROVE GrantInv'
  BY <1>17, DropKept
<1>18. ASSUME NEW r \in Requests, DropRow(r) PROVE GrantInv'
  <2>1. ~At(r, "grant") /\ req[r].key \in Keys /\ UNCHANGED <<bindings, granted>>
    BY <1>0, <1>18 DEF DropRow, At, Formed
  <2>2. /\ req'[r] = Idle /\ \A q \in Requests \ {r} : req'[q] = req[q]
        /\ ~At(r, "grant")'
    BY <1>18, Stepping DEF DropRow, At, Idle
  <2>3. /\ \A q \in Requests \ {r} : q \in raced => q \in raced'
        /\ r \notin raced'
        /\ unsettled' = IF r \in raced THEN unsettled \cup {req[r].key} ELSE unsettled
    BY <1>18 DEF DropRow, Outliving, At
  <2>4. CASE r \in raced
    <3>1. \A j \in Keys \ {req[r].key} : j \in unsettled' <=> j \in unsettled
      BY <2>3
    <3> QED BY <2>1, <2>2, <2>3, <2>4, <3>1, Ended
  <2>5. CASE r \notin raced
    BY <2>1, <2>2, <2>3, <2>5, Quiet DEF Idle
  <2> QED BY <2>4, <2>5
<1>19. ASSUME NEW r \in Requests, Interrupt(r) PROVE GrantInv'
  <2>1. req'[r] = Idle /\ \A q \in Requests \ {r} : req'[q] = req[q]
    BY <1>19, Stepping DEF Interrupt
  <2>2. /\ raced' = raced \ {r} /\ UNCHANGED <<bindings, granted>>
        /\ unsettled' = IF Halfway(r) THEN unsettled \cup {req[r].key} ELSE unsettled
    BY <1>19 DEF Interrupt
  <2>3. CASE Halfway(r)
    <3>1. req[r].key \in Keys
      BY <1>0, <2>3 DEF Halfway, At, Formed
    <3>2. \A j \in Keys \ {req[r].key} : j \in unsettled' <=> j \in unsettled
      BY <2>2
    <3> QED BY <2>1, <2>2, <2>3, <3>1, <3>2, Ended
  <2>4. CASE ~Halfway(r)
    <3>1. ~At(r, "grant") /\ ~At(r, "grant")'
      BY <2>1, <2>4 DEF Halfway, At, Idle
    <3> QED BY <2>1, <2>2, <2>4, <3>1, Quiet DEF Idle
  <2> QED BY <2>3, <2>4
<1>20. CASE UNCHANGED vars
  BY <1>20 DEF vars, GrantInv, WholeInv, OwnInv, Mixed, Halfway, Rewriting, At
<1> QED BY <1>1, <1>2, <1>3, <1>4, <1>5, <1>6, <1>7, <1>8, <1>9, <1>10, <1>11, <1>12, <1>13,
           <1>14, <1>15, <1>16, <1>17, <1>18, <1>19, <1>20 DEF Next, Step

-----------------------------------------------------------------------------
(* What is left of a deleted key *)

\* A request that nobody interfered with and that writes has the row of its key.
AliveInv == \A r \in Requests \ raced : r \in Outliving(req[r].key) => rows[req[r].key] # NoRow

\* r has replaced the bindings of its key, or is inserting them.
Replaced(r) ==
  At(r, "grant") \/ (req[r].step \in {"clearPermissions", "grantPermission"} /\ req[r].want # {})

\* Of a request that replaces the bindings of a key and one that has deleted
\* them, one interferes with the other.
ApartInv ==
  \A r, q \in Requests \ raced : Replaced(r) /\ At(q, "dropRow") => req[q].key # req[r].key

\* A key whose row is gone, or about to go.
Doomed(k) ==
  rows[k] = NoRow \/ \E q \in Requests \ raced : req[q].key = k /\ At(q, "dropRow")

\* Outside of the exceptions, the bindings last written to such a key are none.
GoneInv == \A k \in Keys \ unsettled : ~Mixed(k) /\ Doomed(k) => granted[k] = {}

DeadInv == AliveInv /\ ApartInv /\ GoneInv

LEMMA DeadInit == Init => DeadInv
BY DEF Init, DeadInv, AliveInv, ApartInv, GoneInv, Outliving, At, Idle, Replaced

\* A step of r that gives no key new bindings but its own, and takes none out of
\* the exceptions but those that r itself has written.
LEMMA DeadKept ==
  ASSUME TypeInv, TypeInv', DeadInv, NEW r \in Requests, \A q \in Requests \ {r} : req'[q] = req[q],
         \A q \in Requests \ {r} : q \in raced => q \in raced',
         \A k \in Keys :
           \/ granted'[k] = granted[k] \/ granted'[k] = {}
           \/ k = req[r].key /\ At(r, "grant") /\ rows' = rows /\ ~At(r, "dropRow")',
         \A k \in Keys : rows'[k] = NoRow /\ rows[k] # NoRow =>
           /\ k = req[r].key /\ At(r, "dropRow")
           /\ \A q \in Outliving(k) \ {r} : q \in raced',
         r \notin raced' /\ r \in Outliving(req[r].key)' =>
           rows'[req'[r].key] # NoRow,
         r \notin raced' /\ Replaced(r)' =>
           \A q \in Requests \ {r} : q \notin raced' /\ At(q, "dropRow") => req[q].key # req'[r].key,
         r \notin raced' /\ At(r, "dropRow")' =>
           /\ granted'[req'[r].key] = {}
           /\ \A q \in Requests \ {r} : q \notin raced' /\ Replaced(q) => req[q].key # req'[r].key,
         r \in raced /\ Halfway(r) =>
           \/ req[r].key \in unsettled'
           \/ r \in raced' /\ Halfway(r)' /\ req'[r].key = req[r].key,
         \A k \in Keys : k \in unsettled /\ k \notin unsettled' =>
           k = req[r].key /\ r \notin raced /\ Replaced(r) /\ r \in Outliving(k) /\ ~At(r, "dropRow")'
  PROVE  DeadInv'
<1>1. raced \subseteq Requests /\ raced' \subseteq Requests
  BY DEF TypeInv, TypeOK
<1>2. \A q \in Requests \ {r} :
        /\ Halfway(q)' <=> Halfway(q)
        /\ Replaced(q)' <=> Replaced(q)
        /\ At(q, "dropRow")' <=> At(q, "dropRow")
        /\ \A k : q \in Outliving(k)' <=> q \in Outliving(k)
  BY DEF Halfway, Replaced, At, Outliving
<1>3. AliveInv'
  <2> SUFFICES ASSUME NEW q \in Requests \ raced', q \in Outliving(req[q].key)', q # r
               PROVE  rows'[req'[q].key] # NoRow
      BY DEF AliveInv
  <2>1. q \in Requests \ raced /\ req'[q] = req[q] /\ q \in Outliving(req[q].key)
    BY <1>2
  <2>2. rows[req[q].key] # NoRow
    BY <2>1 DEF DeadInv, AliveInv
  <2>3. req[q].key \in Keys
    BY <2>1 DEF Outliving, TypeInv, Formed
  <2> QED BY <2>1, <2>2, <2>3
<1>4. ApartInv'
  <2> SUFFICES ASSUME NEW p \in Requests \ raced', NEW q \in Requests \ raced',
                      Replaced(p)', At(q, "dropRow")'
               PROVE  req'[q].key # req'[p].key
      BY DEF ApartInv
  <2>1. p # q
    BY DEF Replaced, At
  <2>2. CASE p = r
    BY <1>2, <2>1, <2>2
  <2>3. CASE q = r
    BY <1>2, <2>1, <2>3
  <2>4. CASE p # r /\ q # r
    <3>1. /\ p \in Requests \ raced /\ q \in Requests \ raced
          /\ Replaced(p) /\ At(q, "dropRow")
      BY <1>2, <2>4
    <3> QED BY <2>4, <3>1 DEF DeadInv, ApartInv
  <2> QED BY <2>2, <2>3, <2>4
<1>5. GoneInv'
  <2> SUFFICES ASSUME NEW k \in Keys \ unsettled', ~Mixed(k)', Doomed(k)', granted'[k] # {}
               PROVE  granted[k] = {} /\ granted'[k] = granted[k]
      BY DEF GoneInv
  <2>0. granted'[k] = granted[k]
    <3> SUFFICES ASSUME k = req[r].key, At(r, "grant"), rows' = rows, ~At(r, "dropRow")' PROVE FALSE
        OBVIOUS
    <3>1. Halfway(r) /\ Replaced(r) /\ r \in Outliving(k)
      BY DEF Halfway, Replaced, Outliving, At
    <3>2. r \notin raced
      BY <3>1 DEF Mixed
    <3>3. rows'[k] # NoRow
      BY <3>1, <3>2 DEF DeadInv, AliveInv
    <3>4. PICK q \in Requests \ raced' : req'[q].key = k /\ At(q, "dropRow")'
      BY <3>3 DEF Doomed
    <3>5. q # r /\ q \in Requests \ raced /\ At(q, "dropRow") /\ req[q].key = k
      BY <1>2, <3>4
    <3> QED BY <3>1, <3>2, <3>5 DEF DeadInv, ApartInv
  <2>1. ~Mixed(k)
    <3> SUFFICES ASSUME NEW q \in raced, req[q].key = k, Halfway(q) PROVE FALSE
        BY DEF Mixed
    <3>1. q \in raced' /\ Halfway(q)' /\ req'[q].key = k
      BY <1>1, <1>2
    <3> QED BY <3>1 DEF Mixed
  <2>2. CASE r \notin raced' /\ At(r, "dropRow")' /\ req'[r].key = k
    BY <2>2
  <2>3. ASSUME NEW q \in Requests \ {r}, q \notin raced', At(q, "dropRow"), req[q].key = k
        PROVE  granted[k] = {}
    <3>1. q \in Requests \ raced /\ Doomed(k)
      BY <2>3 DEF Doomed
    <3>2. k \notin unsettled
      <4> SUFFICES ASSUME k \in unsettled PROVE FALSE
          OBVIOUS
      <4>1. k = req[r].key /\ r \in Requests \ raced /\ Replaced(r)
        OBVIOUS
      <4> QED BY <2>3, <3>1, <4>1 DEF DeadInv, ApartInv
    <3> QED BY <2>1, <3>1, <3>2 DEF DeadInv, GoneInv
  <2>4. CASE rows'[k] = NoRow
    <3>1. CASE rows[k] = NoRow
      <4>1. Doomed(k)
        BY <3>1 DEF Doomed
      <4>2. k \notin unsettled
        <5> SUFFICES ASSUME k \in unsettled PROVE FALSE
            OBVIOUS
        <5>1. k = req[r].key /\ r \in Requests \ raced /\ r \in Outliving(k)
          OBVIOUS
        <5> QED BY <3>1, <5>1 DEF DeadInv, AliveInv
      <4> QED BY <2>0, <2>1, <4>1, <4>2 DEF DeadInv, GoneInv
    <3>2. CASE rows[k] # NoRow
      <4>1. k = req[r].key /\ At(r, "dropRow")
        BY <2>4, <3>2
      <4>2. Halfway(r) /\ ~Replaced(r)
        BY <4>1 DEF Halfway, Replaced, At
      <4>3. k \notin unsettled
        BY <4>1, <4>2
      <4>4. r \notin raced
        BY <2>1, <4>1, <4>2 DEF Mixed
      <4>5. Doomed(k)
        BY <4>1, <4>4 DEF Doomed
      <4> QED BY <2>0, <2>1, <4>3, <4>5 DEF DeadInv, GoneInv
    <3> QED BY <3>1, <3>2
  <2>5. CASE rows'[k] # NoRow
    <3>1. PICK q \in Requests \ raced' : req'[q].key = k /\ At(q, "dropRow")'
      BY <2>5 DEF Doomed
    <3> QED BY <1>2, <2>0, <2>2, <2>3, <3>1
  <2> QED BY <2>0, <2>4, <2>5
<1> QED BY <1>3, <1>4, <1>5 DEF DeadInv

\* DeadKept for a step outside of the writes to bindings and permissions.
LEMMA DeadQuiet ==
  ASSUME TypeInv, TypeInv', DeadInv, NEW r \in Requests, NEW s, Become(r, s), ~Halfway(r),
         raced' \in {raced, raced \cup {r}, raced \ {r}},
         \A k \in Keys : rows'[k] = NoRow => rows[k] = NoRow,
         granted' = granted, unsettled \subseteq unsettled',
         s.step \notin {"grant", "grantPermission", "dropRow"},
         s.step = "clearPermissions" => s.want = {},
         r \notin raced' /\ s.step \in {"update", "clear", "clearPermissions"} => rows'[s.key] # NoRow
  PROVE  DeadInv'
<1>1. req'[r] = s /\ \A q \in Requests \ {r} : req'[q] = req[q]
  BY Stepping
<1>2. ~Replaced(r)' /\ ~At(r, "dropRow")'
  BY <1>1 DEF Replaced, At
<1>3. r \notin raced' /\ r \in Outliving(req[r].key)' => rows'[req'[r].key] # NoRow
  BY <1>1 DEF Outliving
<1> QED BY <1>1, <1>2, <1>3, DeadKept

LEMMA DeadRefuse ==
  ASSUME TypeInv, TypeInv', DeadInv, NEW r \in Requests, Refuse(r),
         UNCHANGED <<rows, granted>>, ~Halfway(r)
  PROVE  DeadInv'
BY IdleFormed, DeadQuiet DEF Refuse, Idle

LEMMA DeadStep == TypeInv /\ TypeInv' /\ DeadInv /\ [Next]_vars => DeadInv'
<1> SUFFICES ASSUME TypeInv, TypeInv', DeadInv, [Next]_vars PROVE DeadInv'
    OBVIOUS
<1>0. \A r \in Requests : Formed(req[r]) /\ req[r] \in RequestStates
  BY DEF TypeInv, TypeOK
<1>1. ASSUME NEW r \in Requests, CreateKey(r) PROVE DeadInv'
  <2>1. PICK k \in Keys \ made, want \in (SUBSET Granted) \ {{}}, perm \in {"on", "off"} :
          Become(r, [Idle EXCEPT !.step = "insert", !.route = "create", !.key = k,
                                 !.token = generated', !.want = want, !.perm = perm])
    BY <1>1 DEF CreateKey
  <2> DEFINE s == [Idle EXCEPT !.step = "insert", !.route = "create", !.key = k,
                               !.token = generated', !.want = want, !.perm = perm]
  <2>2. s.step = "insert" /\ Become(r, s)
    BY <2>1 DEF Idle
  <2>3. UNCHANGED <<rows, granted, raced, unsettled>> /\ ~Halfway(r)
    BY <1>1 DEF CreateKey, history, Halfway, At
  <2> HIDE DEF s
  <2> QED BY <2>2, <2>3, DeadQuiet
<1>2. ASSUME NEW r \in Requests, InsertRow(r) PROVE DeadInv'
  <2> DEFINE s == [req[r] EXCEPT !.step = "clear"]
  <2>1. s.step = "clear" /\ s.key = req[r].key /\ Become(r, s) /\ ~Halfway(r)
        /\ req[r].key \in Keys /\ req[r].token \in Tokens
    BY <1>0, <1>2 DEF InsertRow, Go, At, Halfway, Formed, RequestStates
  <2>2. rows' = [rows EXCEPT ![req[r].key] = req[r].token] /\ UNCHANGED <<granted, raced, unsettled>>
    BY <1>2 DEF InsertRow, history
  <2>3. /\ rows'[req[r].key] # NoRow
        /\ \A k \in Keys : rows'[k] = NoRow => rows[k] = NoRow
    BY <2>1, <2>2, ApiKeysAssumption DEF TypeInv, TypeOK
  <2> HIDE DEF s
  <2> QED BY <2>1, <2>2, <2>3, DeadQuiet
<1>3. ASSUME NEW r \in Requests, UpdateKey(r) PROVE DeadInv'
  <2>1. PICK k \in Keys, want \in SUBSET Granted, perm \in {"keep", "on", "off"}, regen \in BOOLEAN :
          Become(r, [Idle EXCEPT !.step = "readRow", !.route = "update", !.key = k,
                                 !.token = IF regen THEN generated' ELSE None,
                                 !.regen = regen, !.want = want, !.perm = perm])
    BY <1>3 DEF UpdateKey
  <2> DEFINE s == [Idle EXCEPT !.step = "readRow", !.route = "update", !.key = k,
                               !.token = IF regen THEN generated' ELSE None,
                               !.regen = regen, !.want = want, !.perm = perm]
  <2>2. s.step = "readRow" /\ Become(r, s)
    BY <2>1 DEF Idle
  <2>3. UNCHANGED <<rows, granted, raced, unsettled>> /\ ~Halfway(r)
    BY <1>3 DEF UpdateKey, history, Halfway, At
  <2> HIDE DEF s
  <2> QED BY <2>2, <2>3, DeadQuiet
<1>4. ASSUME NEW r \in Requests, DeleteKey(r) PROVE DeadInv'
  <2>1. PICK k \in Keys :
          Become(r, [Idle EXCEPT !.step = "readRow", !.route = "delete", !.key = k])
    BY <1>4 DEF DeleteKey
  <2> DEFINE s == [Idle EXCEPT !.step = "readRow", !.route = "delete", !.key = k]
  <2>2. s.step = "readRow" /\ Become(r, s)
    BY <2>1 DEF Idle
  <2>3. UNCHANGED <<rows, granted, raced, unsettled>> /\ ~Halfway(r)
    BY <1>4 DEF DeleteKey, history, Halfway, At
  <2> HIDE DEF s
  <2> QED BY <2>2, <2>3, DeadQuiet
<1>5. ASSUME NEW r \in Requests, CreateOrganization(r) PROVE DeadInv'
  <2>1. PICK t \in 1 .. generated, o \in Orgs :
          Become(r, [Idle EXCEPT !.step = "find", !.route = "organization", !.token = t, !.org = o])
    BY <1>5 DEF CreateOrganization
  <2> DEFINE s == [Idle EXCEPT !.step = "find", !.route = "organization", !.token = t, !.org = o]
  <2>2. s.step = "find" /\ Become(r, s)
    BY <2>1 DEF Idle
  <2>3. UNCHANGED <<rows, granted, raced, unsettled>> /\ ~Halfway(r)
    BY <1>5 DEF CreateOrganization, history, Halfway, At
  <2> HIDE DEF s
  <2> QED BY <2>2, <2>3, DeadQuiet
<1>6. ASSUME NEW r \in Requests, Find(r) PROVE DeadInv'
  <2>1. ~Halfway(r) /\ UNCHANGED rows
    BY <1>6 DEF Find, Halfway, At
  <2>2. ASSUME NEW k \in Keys, UNCHANGED history,
               Become(r, [req[r] EXCEPT !.step = "readRow", !.key = k, !.token = None])
        PROVE  DeadInv'
    <3> DEFINE s == [req[r] EXCEPT !.step = "readRow", !.key = k, !.token = None]
    <3>1. s.step = "readRow" /\ Become(r, s)
      BY <1>0, <2>2 DEF RequestStates
    <3> HIDE DEF s
    <3> QED BY <2>1, <2>2, <3>1, DeadQuiet DEF history
  <2> QED BY <1>6, <2>1, <2>2, DeadRefuse DEF Find
<1>7. ASSUME NEW r \in Requests, ReadRow(r) PROVE DeadInv'
  <2> DEFINE s == [req[r] EXCEPT
                     !.step = IF req[r].route = "delete" THEN "dropPermissions" ELSE "readBindings"]
  <2>1. s.step \in {"dropPermissions", "readBindings"}
    BY <1>0 DEF RequestStates
  <2>2. /\ ~Halfway(r) /\ UNCHANGED rows
        /\ (Refuse(r) /\ UNCHANGED granted) \/ (Become(r, s) /\ UNCHANGED history)
    BY <1>7 DEF ReadRow, Go, Halfway, At
  <2> HIDE DEF s
  <2>3. CASE Become(r, s) /\ UNCHANGED history
    <3>1. /\ s.step \notin {"grant", "grantPermission", "dropRow"}
          /\ s.step # "clearPermissions" /\ s.step \notin {"update", "clear", "clearPermissions"}
      BY <2>1
    <3>2. ~Halfway(r) /\ UNCHANGED <<rows, granted, raced, unsettled>> /\ Become(r, s)
      BY <2>2, <2>3 DEF history
    <3>3. \A k \in Keys : rows'[k] = NoRow => rows[k] = NoRow
      BY <3>2
    <3> QED BY <3>1, <3>2, <3>3, DeadQuiet
  <2> QED BY <2>2, <2>3, DeadRefuse
<1>8. ASSUME NEW r \in Requests, ReadBindings(r) PROVE DeadInv'
  <2> DEFINE s == [req[r] EXCEPT !.step = "readPermissions", !.seen = bindings[req[r].key]]
  <2>1. s.step = "readPermissions"
    BY <1>0 DEF RequestStates
  <2>2. ~Halfway(r) /\ Become(r, s) /\ UNCHANGED <<rows, granted, unsettled>>
        /\ raced' \in {raced, raced \cup {r}}
    BY <1>8 DEF ReadBindings, Halfway, At
  <2> HIDE DEF s
  <2> QED BY <2>1, <2>2, DeadQuiet
<1>9. ASSUME NEW r \in Requests, ReadPermissions(r) PROVE DeadInv'
  <2> DEFINE perm == NextPermission(req[r].perm, req[r].want, req[r].key \in orgCreate)
             s == [req[r] EXCEPT !.step = "readHash", !.perm = perm, !.seen = {}]
             t == [req[r] EXCEPT !.step = "readHash", !.seen = {}, !.org = None,
                                 !.want = req[r].seen \cup {req[r].org}]
  <2>1. s.step = "readHash" /\ t.step = "readHash"
    BY <1>0 DEF RequestStates
  <2>2. /\ ~Halfway(r) /\ UNCHANGED rows
        /\ \/ Refuse(r) /\ UNCHANGED granted
           \/ Become(r, s) /\ UNCHANGED history
           \/ Become(r, t) /\ UNCHANGED history
    BY <1>9 DEF ReadPermissions, Halfway, At
  <2> HIDE DEF s, t
  <2> QED BY <2>1, <2>2, DeadRefuse, DeadQuiet DEF history
<1>10. ASSUME NEW r \in Requests, ReadHash(r) PROVE DeadInv'
  <2> DEFINE s == [req[r] EXCEPT !.step = "update", !.hash = rows[req[r].key]]
  <2>1. s.step = "update" /\ s.key = req[r].key
    BY <1>0 DEF RequestStates
  <2>2. /\ ~Halfway(r) /\ UNCHANGED rows
        /\ \/ Refuse(r) /\ UNCHANGED granted
           \/ rows[req[r].key] # NoRow /\ Become(r, s) /\ UNCHANGED history
    BY <1>10 DEF ReadHash, Halfway, At
  <2> HIDE DEF s
  <2> QED BY <2>1, <2>2, DeadRefuse, DeadQuiet DEF history
<1>11. ASSUME NEW r \in Requests, UpdateRow(r) PROVE DeadInv'
  <2> DEFINE s == [req[r] EXCEPT
                     !.step = IF req[r].want # {} THEN "clear" ELSE "clearPermissions",
                     !.token = None, !.hash = IF req[r].regen THEN req[r].hash ELSE None]
  <2>1. /\ s.step = IF req[r].want # {} THEN "clear" ELSE "clearPermissions"
        /\ s.key = req[r].key /\ s.want = req[r].want
    BY <1>0 DEF RequestStates
  <2>2. /\ ~Halfway(r) /\ At(r, "update") /\ req[r].key \in Keys
    BY <1>0, <1>11 DEF UpdateRow, Halfway, At, Formed
  <2>7. /\ UNCHANGED granted
        /\ \/ Finish(r, FALSE)
           \/ Become(r, s) /\ UNCHANGED history
    BY <1>11 DEF UpdateRow, history
  <2>3. /\ \A k \in Keys : rows'[k] = NoRow => rows[k] = NoRow
        /\ rows[req[r].key] # NoRow => rows'[req[r].key] # NoRow
    <3>1. Column(req[r].token, req[r].hash) # NoRow
      BY <1>0, <2>2, ApiKeysAssumption DEF Column, Formed, RequestStates, At
    <3> QED BY <1>11, <2>2, <3>1 DEF UpdateRow, TypeInv, TypeOK
  <2>4. r \notin raced => rows[req[r].key] # NoRow
    BY <2>2 DEF DeadInv, AliveInv, Outliving, At
  <2>5. CASE Finish(r, FALSE)
    <3>1. /\ Become(r, Idle) /\ raced' = raced \ {r} /\ unsettled \subseteq unsettled'
          /\ Idle.step = "idle"
      BY <2>5, IdleFormed DEF Finish
    <3> QED BY <2>2, <2>3, <2>7, <3>1, DeadQuiet
  <2>6. CASE Become(r, s) /\ UNCHANGED history
    <3> HIDE DEF s
    <3> QED BY <2>1, <2>2, <2>3, <2>4, <2>6, DeadQuiet DEF history
  <2> QED BY <2>5, <2>6, <2>7
<1>12. ASSUME NEW r \in Requests, Clear(r) PROVE DeadInv'
  <2> DEFINE k == req[r].key
  <2>1. /\ req'[r] = [req[r] EXCEPT !.step = "grant", !.left = req[r].want]
        /\ \A q \in Requests \ {r} : req'[q] = req[q]
    BY <1>12, Stepping DEF Clear
  <2>2. /\ req'[r].step = "grant" /\ req'[r].key = k /\ ~Halfway(r) /\ At(r, "clear")
        /\ UNCHANGED <<rows, granted, unsettled>>
        /\ raced \subseteq raced' /\ Relying(k) \ {r} \subseteq raced'
    BY <1>0, <1>12, <2>1 DEF Clear, RequestStates, Halfway, At
  <2>3. \A q \in Requests \ {r} : q \notin raced' /\ At(q, "dropRow") => req[q].key # k
    BY <2>2 DEF Relying, At
  <2>4. r \notin raced' => rows[k] # NoRow
    BY <2>2 DEF DeadInv, AliveInv, Outliving, At
  <2>5. ~At(r, "dropRow")'
    BY <2>2 DEF At
  <2> QED BY <2>1, <2>2, <2>3, <2>4, <2>5, DeadKept
<1>13. ASSUME NEW r \in Requests, Grant(r) PROVE DeadInv'
  <2> DEFINE k == req[r].key
  <2>1. PICK b \in req[r].left :
          LET left == req[r].left \ {b} IN
          \/ Become(r, [req[r] EXCEPT !.left = left]) /\ UNCHANGED history
          \/ /\ granted' = [granted EXCEPT ![k] = req[r].want]
             /\ \/ Finish(r, FALSE)
                \/ /\ Become(r, [req[r] EXCEPT !.step = "clearPermissions", !.left = {}])
                   /\ UNCHANGED <<replaced, raced, unsettled>>
    BY <1>13 DEF Grant
  <2>2. /\ At(r, "grant") /\ Halfway(r) /\ rows' = rows /\ Replaced(r) /\ r \in Outliving(k)
        /\ k \in Keys /\ req[r].want # {}
    BY <1>0, <1>13 DEF Grant, At, Halfway, Replaced, Outliving, Formed
  <2>3. \A q \in Requests \ {r} : req'[q] = req[q]
    BY <2>1, Stepping DEF Finish
  <2>4. /\ r \notin raced => rows[k] # NoRow
        /\ r \notin raced => \A q \in Requests \ {r} : q \notin raced /\ At(q, "dropRow") => req[q].key # k
    BY <2>2 DEF DeadInv, AliveInv, ApartInv
  <2>5. \A j \in Keys : granted'[j] = granted[j] \/ (j = k /\ At(r, "grant"))
    BY <2>1, <2>2 DEF history, TypeInv, TypeOK
  <2>6. CASE Finish(r, FALSE)
    <3>1. /\ req'[r].step = "idle" /\ raced' = raced \ {r} /\ unsettled \subseteq unsettled'
          /\ r \in raced => k \in unsettled'
      BY <2>6, Stepping, IdleFormed DEF Finish
    <3>2. ~Replaced(r)' /\ ~At(r, "dropRow")' /\ r \notin Outliving(req[r].key)'
      BY <3>1 DEF Replaced, At, Outliving
    <3> QED BY <2>2, <2>3, <2>5, <3>1, <3>2, DeadKept
  <2>7. ASSUME NEW t, Become(r, t), t.step \in {"grant", "clearPermissions"}, t.key = k, t.want # {},
               UNCHANGED <<raced, unsettled>>
        PROVE  DeadInv'
    <3>1. req'[r] = t
      BY <2>7, Stepping
    <3>2. ~At(r, "dropRow")' /\ Halfway(r)'
      BY <2>7, <3>1 DEF At, Halfway
    <3> QED BY <2>2, <2>3, <2>4, <2>5, <2>7, <3>1, <3>2, DeadKept
  <2>8. /\ [req[r] EXCEPT !.left = req[r].left \ {b}].step = "grant"
        /\ [req[r] EXCEPT !.left = req[r].left \ {b}].key = k
        /\ [req[r] EXCEPT !.left = req[r].left \ {b}].want = req[r].want
        /\ [req[r] EXCEPT !.step = "clearPermissions", !.left = {}].step = "clearPermissions"
        /\ [req[r] EXCEPT !.step = "clearPermissions", !.left = {}].key = k
        /\ [req[r] EXCEPT !.step = "clearPermissions", !.left = {}].want = req[r].want
    BY <1>0, <2>2 DEF RequestStates, At
  <2> HIDE DEF k
  <2> QED BY <2>1, <2>2, <2>6, <2>7, <2>8 DEF history
<1>14. ASSUME NEW r \in Requests, ClearPermissions(r) \/ GrantPermission(r) PROVE DeadInv'
  <2> DEFINE s == [req[r] EXCEPT !.step = "grantPermission"]
  <2>1. s.step = "grantPermission" /\ s.key = req[r].key /\ s.want = req[r].want
    BY <1>0 DEF RequestStates
  <2>2. /\ UNCHANGED <<rows, granted>> /\ req[r].key \in Keys /\ r \in Outliving(req[r].key)
        /\ req[r].step \in {"clearPermissions", "grantPermission"}
    BY <1>0, <1>14 DEF ClearPermissions, GrantPermission, history, At, Outliving, Formed
  <2>3. \/ Finish(r, req[r].want # {})
        \/ Become(r, s) /\ UNCHANGED <<raced, unsettled>>
    BY <1>14 DEF ClearPermissions, GrantPermission, Go, history
  <2>4. CASE Finish(r, req[r].want # {})
    <3>1. /\ req'[r].step = "idle" /\ \A q \in Requests \ {r} : req'[q] = req[q]
      BY <2>4, Stepping, IdleFormed DEF Finish
    <3>2. /\ raced' = raced \ {r}
          /\ r \in raced => req[r].key \in unsettled'
          /\ \A k \in Keys : k \in unsettled /\ k \notin unsettled' =>
               k = req[r].key /\ r \notin raced /\ req[r].want # {}
      BY <2>4 DEF Finish
    <3>3. ~Replaced(r)' /\ ~At(r, "dropRow")' /\ r \notin Outliving(req[r].key)'
      BY <3>1 DEF Replaced, At, Outliving
    <3>4. req[r].want # {} => Replaced(r)
      BY <2>2 DEF Replaced
    <3> QED BY <2>2, <3>1, <3>2, <3>3, <3>4, DeadKept
  <2>5. CASE Become(r, s) /\ UNCHANGED <<raced, unsettled>>
    <3> HIDE DEF s
    <3>1. req'[r] = s /\ \A q \in Requests \ {r} : req'[q] = req[q]
      BY <2>5, Stepping
    <3>2. ~At(r, "dropRow")' /\ Halfway(r)' /\ (Replaced(r)' => Replaced(r))
      BY <2>1, <2>2, <3>1 DEF At, Halfway, Replaced
    <3>3. r \notin raced => rows[req[r].key] # NoRow
      BY <2>2 DEF DeadInv, AliveInv
    <3>4. r \notin raced /\ Replaced(r) =>
            \A q \in Requests \ {r} : q \notin raced /\ At(q, "dropRow") => req[q].key # req[r].key
      BY DEF DeadInv, ApartInv
    <3> QED BY <2>1, <2>2, <2>5, <3>1, <3>2, <3>3, <3>4, DeadKept
  <2> QED BY <2>3, <2>4, <2>5
<1>15. ASSUME NEW r \in Requests, DropPermissions(r) PROVE DeadInv'
  <2> DEFINE s == [req[r] EXCEPT !.step = "dropBindings"]
  <2>1. s.step = "dropBindings"
    BY <1>0 DEF RequestStates
  <2>2. ~Halfway(r) /\ UNCHANGED <<rows, granted, raced, unsettled>> /\ Become(r, s)
    BY <1>15 DEF DropPermissions, Go, history, Halfway, At
  <2> HIDE DEF s
  <2> QED BY <2>1, <2>2, DeadQuiet
<1>16. ASSUME NEW r \in Requests, DropBindings(r) PROVE DeadInv'
  <2> DEFINE k == req[r].key
  <2>1. /\ req'[r] = [req[r] EXCEPT !.step = "dropRow"]
        /\ \A q \in Requests \ {r} : req'[q] = req[q]
    BY <1>16, Stepping DEF DropBindings, Go
  <2>2. /\ req'[r].step = "dropRow" /\ req'[r].key = k /\ At(r, "dropBindings") /\ k \in Keys
        /\ UNCHANGED <<rows, unsettled>> /\ granted' = [granted EXCEPT ![k] = {}]
        /\ raced' = raced \cup (Relying(k) \ {r})
    BY <1>0, <1>16, <2>1 DEF DropBindings, RequestStates, At, Formed
  <2>3. \A q \in Requests \ {r} : q \notin raced' /\ Replaced(q) => req[q].key # k
    BY <2>2 DEF Relying, Replaced, At
  <2>4. /\ granted'[k] = {} /\ \A j \in Keys : granted'[j] = granted[j] \/ granted'[j] = {}
    BY <2>2 DEF TypeInv, TypeOK
  <2>5. ~Replaced(r)' /\ Halfway(r)' /\ r \notin Outliving(req[r].key)'
    BY <2>2 DEF Replaced, At, Halfway, Outliving
  <2>6. r \in raced => r \in raced'
    BY <2>2
  <2> QED BY <2>1, <2>2, <2>3, <2>4, <2>5, <2>6, DeadKept
<1>17. ASSUME NEW r \in Requests, DropRow(r) PROVE DeadInv'
  <2> DEFINE k == req[r].key
  <2>1. /\ req'[r] = Idle /\ \A q \in Requests \ {r} : req'[q] = req[q]
    BY <1>17, Stepping DEF DropRow
  <2>2. /\ At(r, "dropRow") /\ k \in Keys /\ granted' = granted
        /\ rows' = [rows EXCEPT ![k] = NoRow]
        /\ raced' = (raced \ {r}) \cup Outliving(k) /\ unsettled \subseteq unsettled'
        /\ r \in raced => k \in unsettled'
    BY <1>0, <1>17 DEF DropRow, At, Formed
  <2>3. \A j \in Keys : rows'[j] = NoRow /\ rows[j] # NoRow => j = k
    BY <2>2 DEF TypeInv, TypeOK
  <2>4. ~Replaced(r)' /\ ~At(r, "dropRow")' /\ r \notin Outliving(req[r].key)'
    BY <2>1 DEF Replaced, At, Outliving, Idle
  <2> QED BY <2>1, <2>2, <2>3, <2>4, DeadKept
<1>18. ASSUME NEW r \in Requests, Interrupt(r) PROVE DeadInv'
  <2>1. /\ req'[r] = Idle /\ \A q \in Requests \ {r} : req'[q] = req[q]
        /\ UNCHANGED <<rows, granted>> /\ raced' = raced \ {r} /\ unsettled \subseteq unsettled'
        /\ Halfway(r) => req[r].key \in unsettled'
    BY <1>18, Stepping DEF Interrupt
  <2>2. ~Replaced(r)' /\ ~At(r, "dropRow")' /\ r \notin Outliving(req[r].key)'
    BY <2>1 DEF Replaced, At, Outliving, Idle
  <2> QED BY <2>1, <2>2, DeadKept
<1>19. CASE UNCHANGED vars
  BY <1>19 DEF vars, DeadInv, AliveInv, ApartInv, GoneInv, Doomed, Mixed, Halfway, Replaced,
               Outliving, At
<1> QED BY <1>1, <1>2, <1>3, <1>4, <1>5, <1>6, <1>7, <1>8, <1>9, <1>10, <1>11, <1>12, <1>13,
           <1>14, <1>15, <1>16, <1>17, <1>18, <1>19 DEF Next, Step


\* A settled key has the bindings last written to it as a whole, and none once it
\* is deleted, however many requests create, update and delete keys and
\* organizations or stop halfway.  Not so when two of them rewrite the bindings
\* of one key at a time, or one of them overlaps the deletion of its key: Settled
\* leaves those out (replaceApiKeyBindings, deleteApiKey).
THEOREM KeysHoldLastGrant == Spec => []KeyHoldsLastGrant
<1>1. Spec => []TypeInv
  BY TypeInit, TypeStep, PTL DEF Spec
<1>2. TypeInv /\ GrantInv /\ DeadInv => KeyHoldsLastGrant
  <2> SUFFICES ASSUME TypeInv, GrantInv, DeadInv, NEW k \in Keys, Settled(k)
               PROVE  bindings[k] = IF rows[k] = NoRow THEN {} ELSE granted[k]
      BY DEF KeyHoldsLastGrant
  <2>1. k \notin unsettled /\ Rewriting(k) = {}
    BY DEF Settled, Rewriting, Halfway, At
  <2>2. ~Mixed(k)
    BY DEF Settled, Mixed, TypeInv, TypeOK
  <2>3. rows[k] = NoRow => granted[k] = {}
    BY <2>1, <2>2 DEF DeadInv, GoneInv, Doomed
  <2> QED BY <2>1, <2>2, <2>3 DEF GrantInv, WholeInv
<1>3. Spec => []GrantInv
  BY <1>1, GrantInit, GrantStep, PTL DEF Spec
<1>4. Spec => []DeadInv
  BY <1>1, DeadInit, DeadStep, PTL DEF Spec
<1> QED BY <1>1, <1>2, <1>3, <1>4, PTL

-----------------------------------------------------------------------------
(* Who may create organizations *)

\* What a request may write as the permission of its key, by what it asks for.
Asked(q) ==
  /\ q.route = "organization" => q.perm = "keep"
  /\ q.step = "insert" => q.perm # "keep"
  /\ q.step = "grantPermission" => q.perm = "on"
  /\ q.step \in {"insert", "readHash", "update"} \cup Written /\ q.want # {} /\ q.perm = "on"
       => HasAdmin(q.want)

\* Nobody has anything to do with a key that is not made yet, or not inserted.
Unseen(k) == rows[k] = NoRow /\ k \notin orgCreate
OnlyLooked(k, others) == \A q \in others : req[q].key = k => At(q, "readRow")
NewInv ==
  /\ \A k \in Keys \ made : Unseen(k) /\ OnlyLooked(k, Requests)
  /\ \A r \in Requests : At(r, "insert") =>
       req[r].key \in made /\ Unseen(req[r].key) /\ OnlyLooked(req[r].key, Requests \ {r})

\* What a request nobody interfered with knows of the bindings of its key.
Informed == {"readPermissions", "readHash", "update", "clear", "clearPermissions", "grantPermission"}
Knows(q) ==
  q.step \in Informed =>
    LET held == bindings[q.key] IN
    /\ Rewriting(q.key) = {}
    /\ q.step = "readPermissions" => q.seen = held
    /\ q.step \in {"readHash", "update", "clear"} /\ q.want # {} /\ q.perm = "keep" =>
         held \subseteq q.want
    /\ q.step # "readPermissions" /\ q.want = {} /\ q.perm = "on" => HasAdmin(held)
    /\ q.step \in {"clearPermissions", "grantPermission"} /\ q.want # {} => held = q.want

\* A request that will write the permission of its key, keep an org_admin
\* binding or drop the row.
Settles(r) ==
  \/ At(r, "grant") /\ (req[r].perm # "keep" \/ HasAdmin(req[r].want))
  \/ At(r, "clearPermissions") /\ req[r].want # {}
  \/ At(r, "dropRow")

\* Outside of the exceptions, a key that may create organizations is org_admin
\* of one, unless such a request is at work.
Held(k) ==
  k \in orgCreate \ unsettled /\ rows[k] # NoRow /\ ~Mixed(k) =>
    \/ Rewriting(k) = {} /\ HasAdmin(bindings[k])
    \/ \E r \in Requests \ raced : req[r].key = k /\ Settles(r)

PermInv ==
  /\ \A r \in Requests : Asked(req[r])
  /\ NewInv
  /\ \A r \in Requests \ raced : Knows(req[r])
  /\ \A k \in Keys : Held(k)

LEMMA AskedIdle == Asked(Idle) /\ Knows(Idle) /\ Idle.key = None /\ None \notin Keys
BY ApiKeysAssumption DEF Asked, Knows, Informed, Idle, Written

LEMMA PermInit == Init => PermInv
<1> SUFFICES ASSUME Init PROVE PermInv
    OBVIOUS
<1>1. \A r \in Requests : req[r] = Idle /\ ~At(r, "insert") /\ ~At(r, "grant")
  BY DEF Init, At, Idle
<1>2. NewInv
  <2>1. \A k \in Keys : Unseen(k) /\ OnlyLooked(k, Requests)
    BY <1>1, AskedIdle DEF Init, Unseen, OnlyLooked
  <2> QED BY <1>1, <2>1 DEF NewInv
<1>3. \A k \in Keys : Held(k)
  BY DEF Init, Held
<1> QED BY <1>1, <1>2, <1>3, AskedIdle DEF PermInv

\* A key that is not inserted yet stays unseen: r makes it, only reads its row,
\* or has found one.
LEMMA NewKept ==
  ASSUME TypeInv', NewInv, NEW r \in Requests, \A q \in Requests \ {r} : req'[q] = req[q],
         made \subseteq made',
         \A k \in Keys : rows[k] = NoRow =>
           rows'[k] = NoRow \/ (At(r, "insert") /\ k = req[r].key),
         \A k \in orgCreate' \ orgCreate :
           k = req[r].key /\ req[r].step \notin {"readRow", "insert"},
         \/ req'[r].key \notin Keys /\ req'[r].step # "insert"
         \/ req'[r].step = "readRow"
         \/ req'[r].step = "insert" /\ req'[r].key \in (Keys \cap made') \ made
         \/ /\ req'[r].step # "insert" /\ req'[r].key = req[r].key
            /\ req[r].step # "readRow" \/ rows[req[r].key] # NoRow
  PROVE  NewInv'
<1>1. ASSUME NEW k \in Keys, Unseen(k), OnlyLooked(k, {r}) PROVE Unseen(k)'
  <2>1. ~(At(r, "insert") /\ k = req[r].key)
    BY <1>1 DEF OnlyLooked, At
  <2>2. k \notin orgCreate'
    BY <1>1 DEF OnlyLooked, At, Unseen
  <2> QED BY <1>1, <2>1, <2>2 DEF Unseen
<1>2. ASSUME NEW k \in Keys, Unseen(k), OnlyLooked(k, {r}), req'[r].key = k, ~At(r, "readRow")'
      PROVE  req'[r].step = "insert" /\ k \notin made
  BY <1>2 DEF OnlyLooked, At, Unseen
<1>3. ASSUME NEW k \in Keys \ made' PROVE Unseen(k)' /\ OnlyLooked(k, Requests)'
  <2>1. Unseen(k) /\ OnlyLooked(k, Requests) /\ OnlyLooked(k, {r})
    BY <1>3 DEF NewInv, OnlyLooked
  <2>2. Unseen(k)'
    BY <1>1, <2>1
  <2>3. req'[r].key = k => At(r, "readRow")'
    BY <1>3 DEF At, NewInv, OnlyLooked, Unseen
  <2> QED BY <2>1, <2>2, <2>3 DEF OnlyLooked, At
<1>4. ASSUME NEW q \in Requests, At(q, "insert")', NEW k \in Keys, req'[q].key = k
      PROVE  k \in made' /\ Unseen(k)' /\ OnlyLooked(k, Requests \ {q})'
  <2>1. CASE q = r
    <3>1. k \in made' /\ k \notin made
      BY <1>4, <2>1 DEF At
    <3>2. Unseen(k) /\ OnlyLooked(k, Requests) /\ OnlyLooked(k, {r})
      BY <3>1 DEF NewInv, OnlyLooked
    <3>3. Unseen(k)'
      BY <1>1, <3>2
    <3>4. OnlyLooked(k, Requests \ {r})'
      BY <3>2 DEF OnlyLooked, At
    <3> QED BY <2>1, <3>1, <3>3, <3>4
  <2>2. CASE q # r
    <3>1. k = req[q].key
      BY <1>4, <2>2
    <3>2. At(q, "insert")
      BY <1>4, <2>2 DEF At
    <3>3. /\ k \in made /\ Unseen(k) /\ OnlyLooked(k, Requests \ {q}) /\ OnlyLooked(k, {r})
      BY <2>2, <3>1, <3>2 DEF NewInv, OnlyLooked
    <3>4. Unseen(k)'
      BY <1>1, <3>3
    <3>5. req'[r].key = k => At(r, "readRow")'
      BY <1>2, <3>3
    <3>6. OnlyLooked(k, Requests \ {q})'
      BY <3>3, <3>5 DEF OnlyLooked, At
    <3> QED BY <3>1, <3>3, <3>4, <3>6
  <2> QED BY <2>1, <2>2
<1>5. \A q \in Requests : At(q, "insert")' => req'[q].key \in Keys
  BY DEF TypeInv, Formed, At
<1> QED BY <1>3, <1>4, <1>5 DEF NewInv, Unseen, OnlyLooked, At

\* What the other requests know stays true, or they are told that it is not.
LEMMA KnownKept ==
  ASSUME TypeInv, PermInv, NEW r \in Requests, \A q \in Requests \ {r} : req'[q] = req[q],
         \A q \in Requests \ {r} : q \in raced => q \in raced',
         \A k \in Keys \ {req[r].key} : bindings'[k] = bindings[k],
         At(r, "grant")' => req'[r].key = req[r].key,
         \/ UNCHANGED bindings /\ ~At(r, "grant")'
         \/ At(r, "grant")
         \/ Relying(req[r].key) \ {r} \subseteq raced'
  PROVE  \A q \in Requests \ {r} : q \notin raced' => Knows(req[q])'
<1> SUFFICES ASSUME NEW q \in Requests \ {r}, q \notin raced', req[q].step \in Informed
             PROVE  /\ Knows(req[q]) /\ bindings'[req[q].key] = bindings[req[q].key]
                    /\ Rewriting(req[q].key)' \subseteq Rewriting(req[q].key)
    BY DEF Knows
<1>1. Knows(req[q]) /\ Rewriting(req[q].key) = {} /\ req[q].key \in Keys
  BY DEF PermInv, Knows, TypeInv, Formed, Informed
<1>2. CASE req[q].key # req[r].key
  <2>1. \A p \in Requests : At(p, "grant")' /\ req'[p].key = req[q].key => At(p, "grant") /\ req[p].key = req[q].key
    BY <1>2 DEF At
  <2> QED BY <1>1, <1>2, <2>1 DEF Rewriting
<1>3. CASE req[q].key = req[r].key
  <2>1. ~At(r, "grant")
    BY <1>1, <1>3 DEF Rewriting
  <2>2. q \in Relying(req[r].key)
    BY <1>3 DEF Relying, Informed
  <2>3. UNCHANGED bindings /\ ~At(r, "grant")'
    BY <2>1, <2>2
  <2>4. Rewriting(req[q].key)' \subseteq Rewriting(req[q].key)
    BY <2>3 DEF Rewriting, At
  <2> QED BY <1>1, <2>3, <2>4
<1> QED BY <1>2, <1>3

LEMMA SettlersHalfway ==
  ASSUME NEW r \in Requests, Settles(r)
  PROVE  Halfway(r)
BY DEF Settles, Halfway, At

\* A step of r that gives the key k no permission and leaves its bindings alone.
LEMMA HeldKept ==
  ASSUME TypeInv, NEW r \in Requests, \A q \in Requests \ {r} : req'[q] = req[q],
         \A q \in Requests \ {r} : q \in raced => q \in raced', raced' \subseteq Requests,
         NEW k \in Keys, Held(k), bindings'[k] = bindings[k],
         k \in orgCreate' => k \in orgCreate,
         rows[k] = NoRow /\ k \in orgCreate' => rows'[k] = NoRow,
         k \in unsettled /\ k \in orgCreate' => k \in unsettled',
         \/ ~At(r, "grant") /\ ~At(r, "grant")'
         \/ req[r].key # k /\ req'[r].key # k,
         req[r].key = k /\ r \in raced /\ Halfway(r) =>
           \/ k \in unsettled'
           \/ r \in raced' /\ Halfway(r)' /\ req'[r].key = k,
         req[r].key = k /\ r \notin raced /\ Settles(r) =>
           k \notin orgCreate' \/ k \in unsettled' \/ rows'[k] = NoRow
  PROVE  Held(k)'
<1> SUFFICES ASSUME k \in orgCreate' \ unsettled', rows'[k] # NoRow, ~Mixed(k)'
             PROVE  \/ Rewriting(k)' = {} /\ HasAdmin(bindings'[k])
                    \/ \E q \in Requests \ raced' : req'[q].key = k /\ Settles(q)'
    BY DEF Held, HasAdmin
<1>1. \A q \in Requests \ {r} :
        /\ (Halfway(q)' <=> Halfway(q)) /\ (Settles(q)' <=> Settles(q))
        /\ (At(q, "grant")' <=> At(q, "grant")) /\ req'[q].key = req[q].key
  BY DEF Halfway, Settles, At, HasAdmin
<1>2. raced \subseteq Requests
  BY DEF TypeInv, TypeOK
<1>3. ~Mixed(k)
  <2> SUFFICES ASSUME NEW q \in raced, req[q].key = k, Halfway(q) PROVE FALSE
      BY DEF Mixed
  <2>1. q \in raced' /\ Halfway(q)' /\ req'[q].key = k
    BY <1>1, <1>2
  <2> QED BY <2>1 DEF Mixed
<1>4. \/ Rewriting(k) = {} /\ HasAdmin(bindings[k])
      \/ \E q \in Requests \ raced : req[q].key = k /\ Settles(q)
  BY <1>3 DEF Held
<1>5. CASE Rewriting(k) = {} /\ HasAdmin(bindings[k])
  <2>1. Rewriting(k)' = {}
    BY <1>1, <1>5 DEF Rewriting
  <2> QED BY <1>5, <2>1
<1>6. ASSUME NEW q \in Requests \ raced, req[q].key = k, Settles(q)
      PROVE  \E p \in Requests \ raced' : req'[p].key = k /\ Settles(p)'
  <2>1. q # r
    BY <1>6
  <2>2. Settles(q)' /\ Halfway(q)' /\ req'[q].key = k
    BY <1>1, <1>6, <2>1, SettlersHalfway
  <2>3. q \notin raced'
    BY <2>2 DEF Mixed
  <2> QED BY <2>2, <2>3
<1> QED BY <1>4, <1>5, <1>6

\* A step of r to s that neither rewrites bindings nor gives a permission.
LEMMA Calm ==
  ASSUME TypeInv, TypeInv', PermInv, NEW r \in Requests, NEW s, Become(r, s),
         \A q \in Requests \ {r} : q \in raced => q \in raced',
         UNCHANGED <<bindings, made>>, orgCreate' \subseteq orgCreate,
         \A k \in Keys : rows[k] = NoRow => rows'[k] = NoRow,
         ~At(r, "grant"), s.step \notin {"grant", "insert"}, Asked(s),
         \/ s.key \notin Keys
         \/ s.step = "readRow"
         \/ s.key = req[r].key /\ (req[r].step # "readRow" \/ rows[s.key] # NoRow),
         r \notin raced' => Knows(s),
         \A k \in unsettled : k \in unsettled' \/ k \notin orgCreate',
         r \in raced /\ Halfway(r) =>
           \/ req[r].key \in unsettled'
           \/ r \in raced' /\ Halfway(r)' /\ s.key = req[r].key,
         r \notin raced /\ Settles(r) =>
           \/ req[r].key \notin orgCreate'
           \/ req[r].key \in unsettled'
           \/ rows'[req[r].key] = NoRow
  PROVE  PermInv'
<1>1. /\ req'[r] = s /\ \A q \in Requests \ {r} : req'[q] = req[q]
      /\ ~At(r, "grant")' /\ raced' \subseteq Requests
  <2>1. req'[r] = s /\ \A q \in Requests \ {r} : req'[q] = req[q]
    BY Stepping
  <2> QED BY <2>1 DEF At, TypeInv, TypeOK
<1>2. \A q \in Requests : Asked(req[q])'
  BY <1>1 DEF PermInv, Asked
<1>3. NewInv'
  BY <1>1, NewKept DEF PermInv
<1>4. \A q \in Requests \ {r} : q \notin raced' => Knows(req[q])'
  BY <1>1, KnownKept
<1>5. r \notin raced' => Knows(req[r])'
  <2>1. \A k : Rewriting(k)' = Rewriting(k)
    BY <1>1 DEF Rewriting, At
  <2> QED BY <1>1, <2>1 DEF Knows
<1>6. ASSUME NEW k \in Keys PROVE Held(k)'
  <2>1. Held(k)
    BY DEF PermInv
  <2> QED BY <1>1, <2>1, HeldKept
<1> QED BY <1>2, <1>3, <1>4, <1>5, <1>6 DEF PermInv

\* Calm for an answer without a write, and for the end of a request.
LEMMA RefuseCalm ==
  ASSUME TypeInv, TypeInv', PermInv, NEW r \in Requests, Refuse(r),
         UNCHANGED <<rows, bindings, orgCreate, made>>, ~Halfway(r)
  PROVE  PermInv'
<1>1. /\ Become(r, Idle) /\ raced' = raced \ {r} /\ unsettled' = unsettled
      /\ ~At(r, "grant") /\ ~Settles(r)
  BY SettlersHalfway DEF Refuse, Halfway, At
<1>2. Idle.key \notin Keys /\ Idle.step \notin {"grant", "insert"} /\ Asked(Idle) /\ Knows(Idle)
  BY AskedIdle, IdleFormed
<1> QED BY <1>1, <1>2, Calm

LEMMA FinishCalm ==
  ASSUME TypeInv, TypeInv', PermInv, NEW r \in Requests, NEW whole \in BOOLEAN, Finish(r, whole),
         UNCHANGED <<bindings, made>>, orgCreate' \subseteq orgCreate,
         \A k \in Keys : rows[k] = NoRow => rows'[k] = NoRow, ~At(r, "grant"),
         whole => req[r].key \notin orgCreate',
         Settles(r) => req[r].key \notin orgCreate' \/ rows'[req[r].key] = NoRow
  PROVE  PermInv'
<1>1. /\ Become(r, Idle) /\ raced' = raced \ {r}
      /\ r \in raced => req[r].key \in unsettled'
      /\ \A k \in unsettled : k \in unsettled' \/ k \notin orgCreate'
  BY DEF Finish
<1>2. Idle.key \notin Keys /\ Idle.step \notin {"grant", "insert"} /\ Asked(Idle) /\ Knows(Idle)
  BY AskedIdle, IdleFormed
<1> QED BY <1>1, <1>2, Calm

\* A new row has no permission, and nobody else has to do with its key.
LEMMA InsertHeld ==
  ASSUME TypeInv, TypeInv', PermInv, NEW r \in Requests, InsertRow(r)
  PROVE  PermInv'
<1> DEFINE s == [req[r] EXCEPT !.step = "clear"]
<1>0. /\ At(r, "insert") /\ req[r] \in RequestStates /\ Formed(req[r]) /\ Asked(req[r])
      /\ req[r].key \in Keys /\ req[r].want # {}
      /\ rows \in [Keys -> Tokens \cup {NoRow}]
  BY DEF InsertRow, TypeInv, TypeOK, PermInv, Formed, At
<1>1. s.step = "clear" /\ s.key = req[r].key /\ s.want = req[r].want /\ s.perm = req[r].perm
      /\ s.route = req[r].route
  BY <1>0 DEF RequestStates
<1>2. req'[r] = s /\ \A q \in Requests \ {r} : req'[q] = req[q]
  BY Stepping DEF InsertRow, Go
<1>3. /\ UNCHANGED <<bindings, orgCreate, made, raced, unsettled>>
      /\ \A k \in Keys \ {req[r].key} : rows'[k] = rows[k]
  BY <1>0 DEF InsertRow, history
<1>4. /\ req[r].key \notin orgCreate /\ Rewriting(req[r].key) = {} /\ ~At(r, "grant")
  BY <1>0 DEF PermInv, NewInv, Unseen, OnlyLooked, Rewriting, At
<1> HIDE DEF s
<1>5. \A q \in Requests : Asked(req[q])'
  <2>1. Asked(s)
    BY <1>0, <1>1 DEF Asked, Written, At
  <2> QED BY <1>2, <2>1 DEF PermInv, Asked
<1>6. NewInv'
  <2>1. s.step # "insert" /\ s.key = req[r].key /\ req[r].step # "readRow"
    BY <1>0, <1>1 DEF At
  <2>2. \A k \in Keys : rows[k] = NoRow => rows'[k] = NoRow \/ (At(r, "insert") /\ k = req[r].key)
    BY <1>0, <1>3
  <2> QED BY <1>2, <1>3, <2>1, <2>2, NewKept DEF PermInv
<1>7. ~At(r, "grant")' /\ \A k : Rewriting(k)' = Rewriting(k)
  BY <1>1, <1>2, <1>4 DEF Rewriting, At
<1>8. \A q \in Requests \ {r} : q \notin raced' => Knows(req[q])'
  BY <1>2, <1>3, <1>7, KnownKept
<1>9. Knows(req[r])'
  <2>1. s.perm # "keep"
    BY <1>0, <1>1 DEF Asked, At
  <2> QED BY <1>0, <1>1, <1>2, <1>4, <1>7, <2>1 DEF Knows
<1>10. ASSUME NEW k \in Keys PROVE Held(k)'
  <2>1. Held(k)
    BY DEF PermInv
  <2>2. ~Halfway(r) /\ ~Settles(r)
    BY <1>0 DEF Halfway, Settles, At
  <2>3. raced' \subseteq Requests
    BY DEF TypeInv, TypeOK
  <2>4. rows[k] = NoRow /\ k \in orgCreate' => rows'[k] = NoRow
    BY <1>3, <1>4
  <2> QED BY <1>2, <1>3, <1>4, <1>7, <2>1, <2>2, <2>3, <2>4, HeldKept
<1> QED BY <1>5, <1>6, <1>8, <1>9, <1>10 DEF PermInv

\* The permission is given for bindings nobody has touched since, or else the
\* key is unsettled.
LEMMA PermissionHeld ==
  ASSUME TypeInv, TypeInv', PermInv, NEW r \in Requests, GrantPermission(r)
  PROVE  PermInv'
<1>k. PICK k \in Keys : k = req[r].key
  BY DEF GrantPermission, TypeInv, Formed, At
<1>0. /\ At(r, "grantPermission") /\ k = req[r].key /\ Asked(req[r])
      /\ orgCreate' = orgCreate \cup {k} /\ raced' = raced \ {r}
      /\ unsettled' = IF r \in raced THEN unsettled \cup {k}
                      ELSE IF req[r].want # {} THEN unsettled \ {k} ELSE unsettled
      /\ UNCHANGED <<rows, bindings, made, generated, granted>>
  BY <1>k DEF GrantPermission, Finish, TypeInv, TypeOK, PermInv, At
<1>1. req'[r] = Idle /\ \A q \in Requests \ {r} : req'[q] = req[q]
  BY Stepping DEF GrantPermission, Finish
<1>2. /\ Idle.key \notin Keys /\ Idle.step = "idle" /\ Asked(Idle) /\ Knows(Idle)
  BY AskedIdle, IdleFormed
<1>3. \A q \in Requests : Asked(req[q])'
  BY <1>1, <1>2 DEF PermInv, Asked
<1>4. NewInv'
  <2>1. req[r].step \notin {"readRow", "insert"} /\ Idle.step # "insert"
    BY <1>0, <1>2 DEF At
  <2> QED BY <1>0, <1>1, <1>2, <2>1, NewKept DEF PermInv
<1>5. ~At(r, "grant") /\ ~At(r, "grant")' /\ \A b : Rewriting(b)' = Rewriting(b)
  BY <1>0, <1>1, <1>2 DEF Rewriting, At
<1>6. \A q \in Requests : q \notin raced' => Knows(req[q])'
  <2>1. \A q \in Requests \ {r} : q \notin raced' => Knows(req[q])'
    BY <1>0, <1>1, <1>5, KnownKept
  <2>2. Knows(req[r])'
    BY <1>1, <1>2, <1>5 DEF Knows, Informed
  <2> QED BY <2>1, <2>2
<1>7. ASSUME NEW b \in Keys, b # k PROVE Held(b)'
  <2>1. Held(b) /\ raced' \subseteq Requests
    BY DEF PermInv, TypeInv, TypeOK
  <2> QED BY <1>0, <1>1, <1>5, <1>7, <2>1, HeldKept
<1>8. Held(k)'
  <2>1. CASE r \in raced
    BY <1>0, <2>1 DEF Held
  <2>2. CASE r \notin raced
    <3>1. Knows(req[r]) /\ req[r].step = "grantPermission" /\ req[r].perm = "on"
      BY <1>0, <2>2 DEF PermInv, Asked, At
    <3>2. Rewriting(k) = {} /\ HasAdmin(bindings[k])
      BY <1>0, <3>1 DEF Knows, Informed, Asked, Written
    <3> QED BY <1>0, <1>5, <3>2 DEF Held
  <2> QED BY <2>1, <2>2
<1> QED BY <1>3, <1>4, <1>6, <1>7, <1>8 DEF PermInv

\* What a step of r that writes bindings leaves to show: what r knows, and that
\* its key is held.
LEMMA Rewritten ==
  ASSUME TypeInv, TypeInv', PermInv, NEW r \in Requests, NEW k \in Keys, k = req[r].key,
         \A q \in Requests \ {r} : req'[q] = req[q],
         \A q \in Requests \ {r} : q \in raced => q \in raced',
         \A b \in Keys \ {k} : bindings'[b] = bindings[b] /\ (b \in unsettled' <=> b \in unsettled),
         UNCHANGED <<rows, orgCreate, made>>,
         req[r].step \in {"clear", "grant", "dropBindings"},
         \/ At(r, "grant")
         \/ Relying(k) \ {r} \subseteq raced',
         Asked(req'[r]), req'[r].step # "insert",
         req'[r].key = k \/ (req'[r].key \notin Keys /\ ~At(r, "grant")'),
         r \notin raced' => Knows(req[r])', Held(k)'
  PROVE  PermInv'
<1>1. \A q \in Requests : Asked(req[q])'
  BY DEF PermInv, Asked
<1>2. NewInv'
  BY NewKept DEF PermInv
<1>3. \A q \in Requests \ {r} : q \notin raced' => Knows(req[q])'
  <2>1. At(r, "grant")' => req'[r].key = req[r].key
    OBVIOUS
  <2>2. \A b \in Keys \ {req[r].key} : bindings'[b] = bindings[b]
    OBVIOUS
  <2> QED BY <2>1, <2>2, KnownKept
<1>4. ASSUME NEW b \in Keys, b # k PROVE Held(b)'
  <2>1. Held(b) /\ raced' \subseteq Requests /\ req[r].key # b /\ req'[r].key # b
    BY <1>4 DEF PermInv, TypeInv, TypeOK
  <2>2. bindings'[b] = bindings[b] /\ (b \in unsettled' <=> b \in unsettled)
    BY <1>4
  <2> QED BY <2>1, <2>2, HeldKept
<1> QED BY <1>1, <1>2, <1>3, <1>4 DEF PermInv

\* A rewrite that starts undisturbed will write the permission or keep what
\* makes it valid; any other mixes the bindings.
LEMMA ClearHeld ==
  ASSUME TypeInv, TypeInv', PermInv, NEW r \in Requests, Clear(r)
  PROVE  PermInv'
<1>k. PICK k \in Keys : k = req[r].key
  BY DEF Clear, TypeInv, Formed, At
<1> DEFINE s == [req[r] EXCEPT !.step = "grant", !.left = req[r].want]
<1>0. /\ req[r].step = "clear" /\ req[r] \in RequestStates /\ Asked(req[r]) /\ req[r].want # {}
      /\ bindings \in [Keys -> SUBSET Bindings]
      /\ UNCHANGED <<rows, orgCreate, made, generated, granted, replaced, unsettled>>
      /\ raced' = raced \cup (Relying(k) \ {r}) \cup (IF Rewriting(k) = {} THEN {} ELSE {r})
      /\ \A b \in Keys \ {k} : bindings'[b] = bindings[b]
  BY <1>k DEF Clear, TypeInv, TypeOK, PermInv, Formed, At
<1>1. /\ s.step = "grant" /\ s.key = k /\ s.want = req[r].want /\ s.perm = req[r].perm
      /\ s.route = req[r].route
  BY <1>k, <1>0 DEF RequestStates
<1>2. req'[r] = s /\ \A q \in Requests \ {r} : req'[q] = req[q]
  BY Stepping DEF Clear
<1> HIDE DEF s
<1>3. Asked(req'[r]) /\ req'[r].step # "insert" /\ req'[r].key = k
  BY <1>0, <1>1, <1>2 DEF Asked, Written
<1>4. Knows(req[r])'
  BY <1>1, <1>2 DEF Knows, Informed
<1>5. At(r, "grant")' /\ Halfway(r)'
  BY <1>1, <1>2 DEF At, Halfway
<1>6. Held(k)'
  <2> SUFFICES ASSUME k \in orgCreate' \ unsettled', rows'[k] # NoRow, ~Mixed(k)'
               PROVE  \E q \in Requests \ raced' : req'[q].key = k /\ Settles(q)'
      BY DEF Held
  <2>1. r \notin raced' /\ r \notin raced /\ Rewriting(k) = {}
    BY <1>0, <1>3, <1>5 DEF Mixed
  <2>2. Knows(req[r])
    BY <2>1 DEF PermInv
  <2>3. \A q \in Requests \ {r} : (Halfway(q)' <=> Halfway(q))
    BY <1>2 DEF Halfway, At
  <2>4. ASSUME NEW q \in Requests \ {r}, req[q].key = k, Halfway(q) PROVE FALSE
    <3>1. q \in Relying(k)
      BY <2>4 DEF Relying, Halfway, At
    <3>2. q \in raced' /\ Halfway(q)' /\ req'[q].key = k
      BY <1>0, <1>2, <2>3, <2>4, <3>1
    <3> QED BY <3>2 DEF Mixed
  <2>5. ~Mixed(k) /\ ~Settles(r)
    BY <1>0, <2>1, <2>4 DEF Mixed, Settles, At, TypeInv, TypeOK
  <2>6. \A q \in Requests : req[q].key = k => ~Settles(q)
    BY <2>4, <2>5, SettlersHalfway
  <2>7. HasAdmin(bindings[k])
    BY <1>0, <2>5, <2>6 DEF PermInv, Held
  <2>8. req[r].perm = "keep" => HasAdmin(req[r].want)
    BY <1>k, <1>0, <2>2, <2>7 DEF Knows, Informed, HasAdmin
  <2>9. Settles(r)'
    BY <1>1, <1>2, <1>5, <2>8 DEF Settles, HasAdmin
  <2> QED BY <1>3, <2>1, <2>9
<1>7. Relying(k) \ {r} \subseteq raced' /\ (\A q \in Requests \ {r} : q \in raced => q \in raced')
  BY <1>0
<1> QED BY <1>k, <1>0, <1>2, <1>3, <1>4, <1>6, <1>7, Rewritten

\* deleteApiKey drops the row next.
LEMMA DropHeld ==
  ASSUME TypeInv, TypeInv', PermInv, NEW r \in Requests, DropBindings(r)
  PROVE  PermInv'
<1>k. PICK k \in Keys : k = req[r].key
  BY DEF DropBindings, TypeInv, Formed, At
<1> DEFINE s == [req[r] EXCEPT !.step = "dropRow"]
<1>0. /\ req[r].step = "dropBindings" /\ req[r] \in RequestStates /\ Asked(req[r])
      /\ bindings \in [Keys -> SUBSET Bindings]
      /\ UNCHANGED <<rows, orgCreate, made, generated, replaced, unsettled>>
      /\ raced' = raced \cup (Relying(k) \ {r})
      /\ \A b \in Keys \ {k} : bindings'[b] = bindings[b]
  BY <1>k DEF DropBindings, TypeInv, TypeOK, PermInv, At
<1>1. s.step = "dropRow" /\ s.key = k /\ s.perm = req[r].perm /\ s.route = req[r].route
  BY <1>k, <1>0 DEF RequestStates
<1>2. req'[r] = s /\ \A q \in Requests \ {r} : req'[q] = req[q]
  BY Stepping DEF DropBindings, Go
<1> HIDE DEF s
<1>3. Asked(req'[r]) /\ req'[r].step # "insert" /\ req'[r].key = k
  BY <1>0, <1>1, <1>2 DEF Asked, Written
<1>4. Knows(req[r])'
  BY <1>1, <1>2 DEF Knows, Informed
<1>5. Halfway(r)' /\ Settles(r)'
  BY <1>1, <1>2 DEF At, Halfway, Settles
<1>6. Held(k)'
  <2>1. r \in raced' => Mixed(k)'
    BY <1>3, <1>5 DEF Mixed
  <2> QED BY <1>3, <1>5, <2>1 DEF Held
<1>7. Relying(k) \ {r} \subseteq raced' /\ (\A q \in Requests \ {r} : q \in raced => q \in raced')
  BY <1>0
<1> QED BY <1>k, <1>0, <1>2, <1>3, <1>4, <1>6, <1>7, Rewritten

\* While r inserts bindings undisturbed, only a request that drops the row can
\* settle the permission apart from r.
LEMMA AloneInGrant ==
  ASSUME TypeInv, GrantInv, PermInv, NEW r \in Requests \ raced, At(r, "grant"),
         NEW q \in Requests \ raced, q # r, req[q].key = req[r].key, Settles(q)
  PROVE  At(q, "dropRow")
<1>1. Rewriting(req[r].key) = {r} /\ Knows(req[q])
  BY DEF GrantInv, OwnInv, PermInv
<1> QED BY <1>1 DEF Settles, Rewriting, Knows, Informed, At

\* The insertions keep it so, and the last one passes it on.
LEMMA GrantHeld ==
  ASSUME TypeInv, TypeInv', GrantInv, PermInv, NEW r \in Requests, Grant(r)
  PROVE  PermInv'
<1>k. PICK k \in Keys : k = req[r].key
  BY DEF Grant, TypeInv, Formed, At
<1>0. /\ At(r, "grant") /\ req[r].step = "grant" /\ req[r] \in RequestStates /\ Asked(req[r])
      /\ req[r].want # {} /\ req[r].left \subseteq req[r].want
      /\ bindings \in [Keys -> SUBSET Bindings] /\ raced \subseteq Requests
      /\ UNCHANGED <<rows, orgCreate, made, generated>>
  BY <1>k DEF Grant, TypeInv, TypeOK, PermInv, Formed, At
<1>1. PICK b \in req[r].left :
        /\ bindings' = [bindings EXCEPT ![k] = @ \cup {b}]
        /\ \/ /\ req[r].left \ {b} # {}
              /\ Become(r, [req[r] EXCEPT !.left = req[r].left \ {b}]) /\ UNCHANGED history
           \/ /\ req[r].left \ {b} = {}
              /\ IF req[r].perm = "keep" THEN Finish(r, FALSE)
                 ELSE /\ Become(r, [req[r] EXCEPT !.step = "clearPermissions", !.left = {}])
                      /\ UNCHANGED <<replaced, raced, unsettled>>
  BY <1>k DEF Grant
<1>2. /\ bindings'[k] = bindings[k] \cup {b}
      /\ \A j \in Keys \ {k} : bindings'[j] = bindings[j]
  BY <1>0, <1>1
<1>3. r \notin raced =>
        Rewriting(k) = {r} /\ bindings'[k] = req[r].want \ (req[r].left \ {b})
  BY <1>k, <1>0, <1>1, <1>2 DEF GrantInv, OwnInv
<1>4. \A q \in Requests \ {r} : req'[q] = req[q]
  BY <1>1, Stepping DEF Finish
\* A request that dropped the row settles it in the next state too.
<1>5. ASSUME NEW q \in Requests \ raced, q # r, req[q].key = k, At(q, "dropRow"),
             raced' \subseteq raced
      PROVE  \E p \in Requests \ raced' : req'[p].key = k /\ Settles(p)'
  <2>1. req'[q].key = k /\ Settles(q)' /\ q \notin raced'
    BY <1>4, <1>5 DEF Settles, At
  <2> QED BY <2>1
<1>6. ASSUME r \notin raced, k \in orgCreate \ unsettled, rows[k] # NoRow, ~Mixed(k)
      PROVE  \/ Settles(r)
             \/ \E q \in Requests \ raced : q # r /\ req[q].key = k /\ At(q, "dropRow")
  <2>1. Rewriting(k) # {}
    BY <1>3, <1>6
  <2>2. PICK q \in Requests \ raced : req[q].key = k /\ Settles(q)
    BY <1>6, <2>1 DEF PermInv, Held
  <2> QED BY <1>k, <1>0, <1>6, <2>2, AloneInGrant
\* The other requests mix the bindings of k as before.
<1>7. ASSUME raced' = raced \/ raced' = raced \ {r}, r \notin raced, ~Mixed(k)' PROVE ~Mixed(k)
  <2> SUFFICES ASSUME NEW q \in raced, req[q].key = k, Halfway(q) PROVE FALSE
      BY DEF Mixed
  <2>1. q \in raced' /\ q # r /\ req'[q] = req[q]
    BY <1>0, <1>4, <1>7
  <2>2. Halfway(q)' /\ req'[q].key = k
    BY <2>1 DEF Halfway, At
  <2> QED BY <1>7, <2>1, <2>2 DEF Mixed
<1>8. CASE Become(r, [req[r] EXCEPT !.left = req[r].left \ {b}]) /\ UNCHANGED history
  <2> DEFINE s == [req[r] EXCEPT !.left = req[r].left \ {b}]
  <2>1. /\ s.step = "grant" /\ s.key = k /\ s.want = req[r].want /\ s.perm = req[r].perm
        /\ s.route = req[r].route /\ req'[r] = s
    <3>1. req'[r] = s
      BY <1>8, Stepping
    <3> QED BY <1>k, <1>0, <3>1 DEF RequestStates
  <2> HIDE DEF s
  <2>2. /\ Asked(req'[r]) /\ req'[r].step # "insert" /\ req'[r].key = k
        /\ UNCHANGED <<raced, unsettled>>
    BY <1>0, <1>8, <2>1 DEF Asked, Written, history
  <2>3. Knows(req[r])' /\ Halfway(r)' /\ (Settles(r) => Settles(r)')
    BY <1>0, <2>1 DEF Knows, Informed, Halfway, Settles, At, HasAdmin
  <2>4. Held(k)'
    <3> SUFFICES ASSUME k \in orgCreate' \ unsettled', rows'[k] # NoRow, ~Mixed(k)'
                 PROVE  \E q \in Requests \ raced' : req'[q].key = k /\ Settles(q)'
        BY DEF Held
    <3>1. r \notin raced /\ r \notin raced'
      BY <2>2, <2>3 DEF Mixed
    <3>2. ~Mixed(k) /\ k \in orgCreate \ unsettled /\ rows[k] # NoRow
      BY <1>0, <1>7, <2>2, <3>1
    <3> QED BY <1>5, <1>6, <2>2, <2>3, <3>1, <3>2
  <2> QED BY <1>k, <1>0, <1>2, <1>4, <2>2, <2>3, <2>4, Rewritten
<1>9. CASE /\ req[r].left \ {b} = {} /\ req[r].perm # "keep"
           /\ Become(r, [req[r] EXCEPT !.step = "clearPermissions", !.left = {}])
           /\ UNCHANGED <<replaced, raced, unsettled>>
  <2> DEFINE s == [req[r] EXCEPT !.step = "clearPermissions", !.left = {}]
  <2>1. /\ s.step = "clearPermissions" /\ s.key = k /\ s.want = req[r].want /\ s.perm = req[r].perm
        /\ s.route = req[r].route /\ req'[r] = s
    <3>1. req'[r] = s
      BY <1>9, Stepping
    <3> QED BY <1>k, <1>0, <3>1 DEF RequestStates
  <2> HIDE DEF s
  <2>2. Asked(req'[r]) /\ req'[r].step # "insert" /\ req'[r].key = k
    BY <1>0, <2>1 DEF Asked, Written
  <2>3. Halfway(r)' /\ Settles(r)'
    BY <1>0, <2>1 DEF Halfway, Settles, At
  <2>4. r \notin raced' => Knows(req[r])'
    <3> SUFFICES ASSUME r \notin raced PROVE Knows(req[r])'
        BY <1>9
    <3>1. Rewriting(k)' = {} /\ bindings'[k] = req[r].want
      <4>1. Rewriting(k) = {r} /\ bindings'[k] = req[r].want
        BY <1>3, <1>9
      <4> QED BY <1>4, <2>1, <4>1 DEF Rewriting, At
    <3> QED BY <1>0, <2>1, <3>1 DEF Knows, Informed
  <2>5. Held(k)'
    <3>1. r \in raced' => Mixed(k)'
      BY <2>2, <2>3 DEF Mixed
    <3> QED BY <2>2, <2>3, <3>1 DEF Held
  <2> QED BY <1>k, <1>0, <1>2, <1>4, <1>9, <2>2, <2>4, <2>5, Rewritten
<1>10. CASE req[r].left \ {b} = {} /\ req[r].perm = "keep" /\ Finish(r, FALSE)
  <2>1. /\ req'[r] = Idle /\ raced' = raced \ {r}
        /\ unsettled' = IF r \in raced THEN unsettled \cup {k} ELSE unsettled
    BY <1>k, <1>10, Stepping DEF Finish
  <2>2. /\ Asked(req'[r]) /\ req'[r].step = "idle" /\ req'[r].key \notin Keys /\ ~At(r, "grant")'
    BY <2>1, AskedIdle, IdleFormed DEF At
  <2>3. Knows(req[r])'
    BY <2>2 DEF Knows, Informed
  <2>4. Held(k)'
    <3> SUFFICES ASSUME k \in orgCreate' \ unsettled', rows'[k] # NoRow, ~Mixed(k)'
                 PROVE  \/ Rewriting(k)' = {} /\ HasAdmin(bindings'[k])
                        \/ \E q \in Requests \ raced' : req'[q].key = k /\ Settles(q)'
        BY DEF Held, HasAdmin
    <3>1. r \notin raced
      BY <2>1
    <3>2. ~Mixed(k) /\ k \in orgCreate \ unsettled /\ rows[k] # NoRow
      BY <1>0, <1>7, <2>1, <3>1
    <3>3. CASE Settles(r)
      <4>1. HasAdmin(req[r].want)
        BY <1>0, <1>10, <3>3 DEF Settles, At
      <4>2. Rewriting(k) = {r} /\ bindings'[k] = req[r].want
        BY <1>3, <1>10, <3>1
      <4>3. Rewriting(k)' = {}
        BY <1>4, <2>2, <4>2 DEF Rewriting, At
      <4> QED BY <4>1, <4>2, <4>3
    <3> QED BY <1>5, <1>6, <2>1, <3>1, <3>2, <3>3
  <2>5. \A j \in Keys \ {k} : j \in unsettled' <=> j \in unsettled
    BY <2>1
  <2> QED BY <1>k, <1>0, <1>2, <1>4, <2>1, <2>2, <2>3, <2>4, <2>5, Rewritten
<1> QED BY <1>1, <1>8, <1>9, <1>10

\* A key that is made is known to nobody but the request that inserts it.
LEMMA CreateHeld ==
  ASSUME TypeInv, TypeInv', PermInv, NEW r \in Requests, CreateKey(r)
  PROVE  PermInv'
<1>1. PICK k \in Keys \ made, want \in (SUBSET Granted) \ {{}}, perm \in {"on", "off"} :
        /\ made' = made \cup {k}
        /\ ValidPermission(want, perm)
        /\ Become(r, [Idle EXCEPT !.step = "insert", !.route = "create", !.key = k,
                                  !.token = generated', !.want = want, !.perm = perm])
  BY DEF CreateKey
<1> DEFINE s == [Idle EXCEPT !.step = "insert", !.route = "create", !.key = k,
                             !.token = generated', !.want = want, !.perm = perm]
<1>2. s.step = "insert" /\ s.key = k /\ s.want = want /\ s.perm = perm /\ s.route = "create"
  BY DEF Idle
<1>3. req'[r] = s /\ \A q \in Requests \ {r} : req'[q] = req[q]
  BY <1>1, Stepping
<1> HIDE DEF s
<1>4. /\ UNCHANGED <<rows, bindings, orgCreate, raced, unsettled>>
      /\ req[r].step = "idle" /\ ~At(r, "grant") /\ raced' \subseteq Requests
  BY DEF CreateKey, history, At, TypeInv, TypeOK
<1>5. \A q \in Requests : Asked(req[q])'
  <2>1. Asked(s)
    BY <1>1, <1>2 DEF Asked, ValidPermission
  <2> QED BY <1>3, <2>1 DEF PermInv, Asked
<1>6. NewInv'
  <2>1. req'[r].step = "insert" /\ req'[r].key \in (Keys \cap made') \ made /\ made \subseteq made'
    BY <1>1, <1>2, <1>3
  <2> QED BY <1>3, <1>4, <2>1, NewKept DEF PermInv
<1>7. ~At(r, "grant")' /\ Knows(req[r])'
  BY <1>2, <1>3 DEF At, Knows, Informed
<1>8. \A q \in Requests \ {r} : q \notin raced' => Knows(req[q])'
  BY <1>3, <1>4, <1>7, KnownKept
<1>9. ASSUME NEW b \in Keys PROVE Held(b)'
  <2>1. Held(b) /\ ~Halfway(r) /\ ~Settles(r)
    BY <1>4 DEF PermInv, Halfway, Settles, At
  <2> QED BY <1>3, <1>4, <1>7, <2>1, HeldKept
<1> QED BY <1>5, <1>6, <1>7, <1>8, <1>9 DEF PermInv

\* A request that starts, or one that has found its key, has only looked.
LEMMA StartCalm ==
  ASSUME TypeInv, TypeInv', PermInv, NEW r \in Requests, NEW s, Become(r, s),
         UNCHANGED <<rows, bindings, orgCreate, made, raced, unsettled>>,
         req[r].step \in {"idle", "find"}, s.step \in {"readRow", "find"},
         s.step = "find" => s.key \notin Keys,
         s.route = "organization" => s.perm = "keep"
  PROVE  PermInv'
<1>1. ~At(r, "grant") /\ ~Halfway(r) /\ ~Settles(r) /\ s.step \notin {"grant", "insert"}
  BY DEF At, Halfway, Settles
<1>2. Asked(s) /\ Knows(s)
  BY DEF Asked, Knows, Informed, Written
<1> QED BY <1>1, <1>2, Calm

\* What a request decides on is valid for the bindings it has read.
LEMMA DecisionCalm ==
  ASSUME TypeInv, TypeInv', PermInv, NEW r \in Requests, ReadPermissions(r)
  PROVE  PermInv'
<1> DEFINE k == req[r].key
           perm == NextPermission(req[r].perm, req[r].want, k \in orgCreate)
           next == IF req[r].want = {} THEN req[r].seen ELSE req[r].want
           s == [req[r] EXCEPT !.step = "readHash", !.perm = perm, !.seen = {}]
           t == [req[r] EXCEPT !.step = "readHash", !.seen = {}, !.org = None,
                               !.want = req[r].seen \cup {req[r].org}]
<1>0. /\ req[r].step = "readPermissions" /\ req[r] \in RequestStates /\ Asked(req[r]) /\ k \in Keys
      /\ UNCHANGED <<rows, bindings, orgCreate, made, generated>>
      /\ ~At(r, "grant") /\ ~Halfway(r) /\ ~Settles(r)
  BY DEF ReadPermissions, TypeInv, TypeOK, PermInv, Formed, At, Halfway, Settles
<1>1. r \notin raced => Rewriting(k) = {} /\ req[r].seen = bindings[k]
  BY <1>0 DEF PermInv, Knows, Informed
<1>2. CASE /\ req[r].route = "update" /\ ValidPermission(next, perm)
           /\ Become(r, s) /\ UNCHANGED history
  <2>1. /\ s.step = "readHash" /\ s.key = k /\ s.want = req[r].want /\ s.perm = perm
        /\ s.route = "update"
    BY <1>0, <1>2 DEF RequestStates
  <2>2. Asked(s)
    BY <1>2, <2>1 DEF Asked, ValidPermission
  <2>3. r \notin raced => Knows(s)
    <3>1. req[r].want # {} => perm # "keep"
      BY DEF NextPermission
    <3>2. req[r].want = {} /\ perm = "on" => HasAdmin(req[r].seen)
      BY <1>2 DEF ValidPermission
    <3> HIDE DEF perm, next, s
    <3> QED BY <1>1, <2>1, <3>1, <3>2 DEF Knows, Informed
  <2> HIDE DEF s
  <2>4. /\ s.step \notin {"grant", "insert"} /\ s.key = req[r].key /\ req[r].step # "readRow"
        /\ UNCHANGED <<raced, unsettled>> /\ Become(r, s)
    BY <1>0, <1>2, <2>1 DEF history
  <2> QED BY <1>0, <2>2, <2>3, <2>4, Calm
<1>3. CASE req[r].route = "organization" /\ Become(r, t) /\ UNCHANGED history
  <2>1. /\ t.step = "readHash" /\ t.key = k /\ t.want = req[r].seen \cup {req[r].org}
        /\ t.perm = "keep" /\ t.route = "organization"
    BY <1>0, <1>3 DEF RequestStates, Asked
  <2> HIDE DEF t
  <2>2. Asked(t)
    BY <2>1 DEF Asked
  <2>3. r \notin raced => Knows(t)
    BY <1>1, <2>1 DEF Knows, Informed
  <2>4. /\ t.step \notin {"grant", "insert"} /\ t.key = req[r].key /\ req[r].step # "readRow"
        /\ UNCHANGED <<raced, unsettled>> /\ Become(r, t)
    BY <1>0, <1>3, <2>1 DEF history
  <2> QED BY <1>0, <2>2, <2>3, <2>4, Calm
<1>4. CASE Refuse(r)
  BY <1>0, <1>4, RefuseCalm
<1> QED BY <1>2, <1>3, <1>4 DEF ReadPermissions

LEMMA PermStep == TypeInv /\ TypeInv' /\ GrantInv /\ PermInv /\ [Next]_vars => PermInv'
<1> SUFFICES ASSUME TypeInv, TypeInv', GrantInv, PermInv, [Next]_vars PROVE PermInv'
    OBVIOUS
<1>0. /\ \A r \in Requests : Formed(req[r]) /\ req[r] \in RequestStates /\ Asked(req[r])
      /\ \A r \in Requests \ raced : Knows(req[r])
      /\ None \notin Keys
  BY ApiKeysAssumption DEF TypeInv, TypeOK, PermInv
<1>1. ASSUME NEW r \in Requests, CreateKey(r) \/ InsertRow(r) \/ ReadPermissions(r) \/ Clear(r)
                                 \/ Grant(r) \/ GrantPermission(r) \/ DropBindings(r)
      PROVE  PermInv'
  BY <1>1, CreateHeld, InsertHeld, DecisionCalm, ClearHeld, GrantHeld, PermissionHeld, DropHeld
<1>2. ASSUME NEW r \in Requests, UpdateKey(r) \/ DeleteKey(r) \/ CreateOrganization(r) PROVE PermInv'
  <2>1. /\ req[r].step = "idle" /\ UNCHANGED <<rows, bindings, orgCreate, made, raced, unsettled>>
    BY <1>2 DEF UpdateKey, DeleteKey, CreateOrganization, history, At
  <2>2. ASSUME UpdateKey(r) PROVE PermInv'
    <3>1. PICK k \in Keys, want \in SUBSET Granted, perm \in {"keep", "on", "off"}, regen \in BOOLEAN :
            Become(r, [Idle EXCEPT !.step = "readRow", !.route = "update", !.key = k,
                                   !.token = IF regen THEN generated' ELSE None,
                                   !.regen = regen, !.want = want, !.perm = perm])
      BY <2>2 DEF UpdateKey
    <3> DEFINE s == [Idle EXCEPT !.step = "readRow", !.route = "update", !.key = k,
                                 !.token = IF regen THEN generated' ELSE None,
                                 !.regen = regen, !.want = want, !.perm = perm]
    <3>2. s.step = "readRow" /\ s.route = "update"
      BY DEF Idle
    <3>3. Become(r, s)
      BY <3>1
    <3> HIDE DEF s
    <3> QED BY <2>1, <3>2, <3>3, StartCalm
  <2>3. ASSUME NEW k \in Keys,
               Become(r, [Idle EXCEPT !.step = "readRow", !.route = "delete", !.key = k])
        PROVE  PermInv'
    <3> DEFINE s == [Idle EXCEPT !.step = "readRow", !.route = "delete", !.key = k]
    <3>1. s.step = "readRow" /\ s.route = "delete" /\ Become(r, s)
      BY <2>3 DEF Idle
    <3> HIDE DEF s
    <3> QED BY <2>1, <3>1, StartCalm
  <2>4. ASSUME NEW t, NEW o,
               Become(r, [Idle EXCEPT !.step = "find", !.route = "organization", !.token = t, !.org = o])
        PROVE  PermInv'
    <3> DEFINE s == [Idle EXCEPT !.step = "find", !.route = "organization", !.token = t, !.org = o]
    <3>1. s.step = "find" /\ s.perm = "keep" /\ s.key = None /\ Become(r, s)
      BY <2>4 DEF Idle
    <3> HIDE DEF s
    <3> QED BY <1>0, <2>1, <3>1, StartCalm
  <2> QED BY <1>2, <2>2, <2>3, <2>4 DEF DeleteKey, CreateOrganization
<1>3. ASSUME NEW r \in Requests, Find(r) PROVE PermInv'
  <2>1. req[r].step = "find" /\ ~Halfway(r) /\ UNCHANGED <<rows, bindings, orgCreate, made>>
    BY <1>3 DEF Find, Halfway, At
  <2>2. ASSUME NEW k \in Keys, UNCHANGED history,
               Become(r, [req[r] EXCEPT !.step = "readRow", !.key = k, !.token = None])
        PROVE  PermInv'
    <3> DEFINE s == [req[r] EXCEPT !.step = "readRow", !.key = k, !.token = None]
    <3>1. s.step = "readRow" /\ s.route = req[r].route /\ s.perm = req[r].perm /\ Become(r, s)
      BY <1>0, <2>2 DEF RequestStates
    <3> HIDE DEF s
    <3>2. (s.route = "organization" => s.perm = "keep") /\ UNCHANGED <<raced, unsettled>>
      BY <1>0, <2>2, <3>1 DEF Asked, history
    <3> QED BY <2>1, <3>1, <3>2, StartCalm
  <2>3. Refuse(r) => PermInv'
    BY <2>1, RefuseCalm
  <2> QED BY <1>3, <2>2, <2>3 DEF Find
<1>4. ASSUME NEW r \in Requests, ReadRow(r) PROVE PermInv'
  <2> DEFINE s == [req[r] EXCEPT
                     !.step = IF req[r].route = "delete" THEN "dropPermissions" ELSE "readBindings"]
  <2>1. /\ s.step \in {"dropPermissions", "readBindings"} /\ s.key = req[r].key
        /\ s.route = req[r].route /\ s.perm = req[r].perm
    BY <1>0 DEF RequestStates
  <2>2. /\ ~Halfway(r) /\ ~Settles(r) /\ ~At(r, "grant")
        /\ UNCHANGED <<rows, bindings, orgCreate, made>>
    BY <1>4 DEF ReadRow, Halfway, Settles, At
  <2>3. \/ Refuse(r)
        \/ rows[req[r].key] # NoRow /\ Become(r, s) /\ UNCHANGED <<raced, unsettled>>
    BY <1>4 DEF ReadRow, Go, history
  <2> HIDE DEF s
  <2>4. Asked(s) /\ Knows(s)
    BY <1>0, <2>1 DEF Asked, Knows, Informed, Written
  <2>5. s.step \notin {"grant", "insert"}
    BY <2>1
  <2> QED BY <2>1, <2>2, <2>3, <2>4, <2>5, RefuseCalm, Calm
<1>5. ASSUME NEW r \in Requests, ReadBindings(r) PROVE PermInv'
  <2> DEFINE s == [req[r] EXCEPT !.step = "readPermissions", !.seen = bindings[req[r].key]]
  <2>1. /\ s.step = "readPermissions" /\ s.key = req[r].key /\ s.seen = bindings[req[r].key]
        /\ s.route = req[r].route /\ s.perm = req[r].perm
    BY <1>0 DEF RequestStates
  <2>2. /\ ~Halfway(r) /\ ~Settles(r) /\ ~At(r, "grant") /\ req[r].step = "readBindings"
        /\ UNCHANGED <<rows, bindings, orgCreate, made, unsettled>> /\ Become(r, s)
        /\ raced' = IF Rewriting(req[r].key) = {} THEN raced ELSE raced \cup {r}
    BY <1>5 DEF ReadBindings, Halfway, Settles, At
  <2> HIDE DEF s
  <2>3. Asked(s) /\ (r \notin raced' => Knows(s))
    BY <1>0, <2>1, <2>2 DEF Asked, Knows, Informed, Written
  <2>4. s.step \notin {"grant", "insert"} /\ req[r].step # "readRow"
    BY <2>1, <2>2
  <2> QED BY <2>1, <2>2, <2>3, <2>4, Calm
<1>6. ASSUME NEW r \in Requests, ReadHash(r) PROVE PermInv'
  <2> DEFINE s == [req[r] EXCEPT !.step = "update", !.hash = rows[req[r].key]]
  <2>1. /\ s.step = "update" /\ s.key = req[r].key /\ s.want = req[r].want
        /\ s.route = req[r].route /\ s.perm = req[r].perm
    BY <1>0 DEF RequestStates
  <2>2. /\ ~Halfway(r) /\ ~Settles(r) /\ ~At(r, "grant") /\ req[r].step = "readHash"
        /\ UNCHANGED <<rows, bindings, orgCreate, made>>
        /\ Refuse(r) \/ (Become(r, s) /\ UNCHANGED <<raced, unsettled>>)
    BY <1>6 DEF ReadHash, Halfway, Settles, At, history
  <2> HIDE DEF s
  <2>3. Asked(s)
    BY <1>0, <2>1, <2>2 DEF Asked
  <2>4. r \notin raced => Knows(s)
    BY <1>0, <2>1, <2>2 DEF Knows, Informed
  <2>5. s.step \notin {"grant", "insert"} /\ req[r].step # "readRow"
    BY <2>1, <2>2
  <2> QED BY <2>1, <2>2, <2>3, <2>4, <2>5, RefuseCalm, Calm
<1>7. ASSUME NEW r \in Requests, UpdateRow(r) PROVE PermInv'
  <2> DEFINE s == [req[r] EXCEPT
                     !.step = IF req[r].want # {} THEN "clear" ELSE "clearPermissions",
                     !.token = None, !.hash = IF req[r].regen THEN req[r].hash ELSE None]
  <2>1. /\ s.step = IF req[r].want # {} THEN "clear" ELSE "clearPermissions"
        /\ s.key = req[r].key /\ s.want = req[r].want
        /\ s.route = req[r].route /\ s.perm = req[r].perm
    BY <1>0 DEF RequestStates
  <2>2. /\ ~Halfway(r) /\ ~Settles(r) /\ ~At(r, "grant") /\ req[r].step = "update"
        /\ UNCHANGED <<bindings, orgCreate, made>>
        /\ Finish(r, FALSE) \/ (Become(r, s) /\ UNCHANGED <<raced, unsettled>>)
    BY <1>7 DEF UpdateRow, Halfway, Settles, At, history
  <2> HIDE DEF s
  <2>3. \A k \in Keys : rows[k] = NoRow => rows'[k] = NoRow
    BY <1>7 DEF UpdateRow, TypeInv, TypeOK
  <2>4. Asked(s)
    BY <1>0, <2>1, <2>2 DEF Asked
  <2>5. r \notin raced => Knows(s)
    BY <1>0, <2>1, <2>2 DEF Knows, Informed
  <2>6. s.step \notin {"grant", "insert"} /\ req[r].step # "readRow"
    BY <2>1, <2>2
  <2>7. CASE Finish(r, FALSE)
    BY <2>2, <2>3, <2>7, FinishCalm
  <2>8. CASE Become(r, s) /\ UNCHANGED <<raced, unsettled>>
    BY <2>1, <2>2, <2>3, <2>4, <2>5, <2>6, <2>8, Calm
  <2> QED BY <2>2, <2>7, <2>8
<1>8. ASSUME NEW r \in Requests, ClearPermissions(r) PROVE PermInv'
  <2> DEFINE s == [req[r] EXCEPT !.step = "grantPermission"]
  <2>1. /\ s.step = "grantPermission" /\ s.key = req[r].key /\ s.want = req[r].want
        /\ s.route = req[r].route /\ s.perm = req[r].perm
    BY <1>0 DEF RequestStates
  <2>2. /\ ~At(r, "grant") /\ req[r].step = "clearPermissions"
        /\ UNCHANGED <<rows, bindings, made>> /\ orgCreate' \subseteq orgCreate
        /\ req[r].key \notin orgCreate'
        /\ \/ Finish(r, req[r].want # {})
           \/ req[r].perm = "on" /\ Become(r, s) /\ UNCHANGED <<raced, unsettled>>
    BY <1>8 DEF ClearPermissions, Go, At, history
  <2> HIDE DEF s
  <2>3. Asked(s) \/ req[r].perm # "on"
    BY <1>0, <2>1, <2>2 DEF Asked, Written
  <2>4. r \notin raced => Knows(s)
    BY <1>0, <2>1, <2>2 DEF Knows, Informed
  <2>5. s.step \notin {"grant", "insert"} /\ req[r].step # "readRow"
    BY <2>1, <2>2
  <2>6. CASE Finish(r, req[r].want # {})
    BY <2>2, <2>6, FinishCalm
  <2>7. CASE req[r].perm = "on" /\ Become(r, s) /\ UNCHANGED <<raced, unsettled>>
    <3>1. Halfway(r)'
      BY <2>1, <2>7, Stepping DEF Halfway
    <3> QED BY <2>1, <2>2, <2>3, <2>4, <2>5, <2>7, <3>1, Calm
  <2> QED BY <2>2, <2>6, <2>7
<1>9. ASSUME NEW r \in Requests, DropPermissions(r) PROVE PermInv'
  <2> DEFINE s == [req[r] EXCEPT !.step = "dropBindings"]
  <2>1. /\ s.step = "dropBindings" /\ s.key = req[r].key
        /\ s.route = req[r].route /\ s.perm = req[r].perm
    BY <1>0 DEF RequestStates
  <2>2. /\ ~Halfway(r) /\ ~Settles(r) /\ ~At(r, "grant") /\ req[r].step = "dropPermissions"
        /\ UNCHANGED <<rows, bindings, made, raced, unsettled>> /\ orgCreate' \subseteq orgCreate
        /\ Become(r, s)
    BY <1>9 DEF DropPermissions, Go, Halfway, Settles, At, history
  <2> HIDE DEF s
  <2>3. Asked(s) /\ Knows(s)
    BY <1>0, <2>1 DEF Asked, Knows, Informed, Written
  <2>4. s.step \notin {"grant", "insert"} /\ req[r].step # "readRow"
    BY <2>1, <2>2
  <2> QED BY <2>1, <2>2, <2>3, <2>4, Calm
<1>10. ASSUME NEW r \in Requests, DropRow(r) PROVE PermInv'
  <2>1. /\ ~At(r, "grant") /\ req[r].key \in Keys /\ Become(r, Idle)
        /\ UNCHANGED <<bindings, orgCreate, made>>
        /\ rows' = [rows EXCEPT ![req[r].key] = NoRow] /\ rows \in [Keys -> Tokens \cup {NoRow}]
    BY <1>0, <1>10 DEF DropRow, At, Formed, TypeInv, TypeOK
  <2>2. rows'[req[r].key] = NoRow /\ \A k \in Keys : rows[k] = NoRow => rows'[k] = NoRow
    BY <2>1
  <2>3. /\ \A q \in Requests \ {r} : q \in raced => q \in raced'
        /\ unsettled \subseteq unsettled' /\ (r \in raced => req[r].key \in unsettled')
    BY <1>10 DEF DropRow
  <2>4. Idle.key \notin Keys /\ Idle.step \notin {"grant", "insert"} /\ Asked(Idle) /\ Knows(Idle)
    BY AskedIdle, IdleFormed
  <2> QED BY <2>1, <2>2, <2>3, <2>4, Calm
<1>11. ASSUME NEW r \in Requests, Interrupt(r) PROVE PermInv'
  <2>1. /\ Become(r, Idle) /\ raced' = raced \ {r} /\ UNCHANGED <<rows, bindings, orgCreate, made>>
        /\ unsettled' = IF Halfway(r) THEN unsettled \cup {req[r].key} ELSE unsettled
        /\ req'[r] = Idle /\ \A q \in Requests \ {r} : req'[q] = req[q]
    BY <1>11, Stepping DEF Interrupt
  <2>2. Idle.key \notin Keys /\ Idle.step \notin {"grant", "insert"} /\ Asked(Idle) /\ Knows(Idle)
    BY AskedIdle, IdleFormed
  <2>3. CASE ~At(r, "grant")
    <3>1. \A k \in unsettled : k \in unsettled'
      BY <2>1
    <3>2. Halfway(r) \/ Settles(r) => req[r].key \in unsettled'
      BY <2>1, SettlersHalfway
    <3> QED BY <2>1, <2>2, <2>3, <3>1, <3>2, Calm
  <2>4. CASE At(r, "grant")
    <3>k. PICK k \in Keys : k = req[r].key
      BY <1>0, <2>4 DEF Formed, At
    <3>1. k \in unsettled' /\ \A b \in Keys \ {k} : b \in unsettled' <=> b \in unsettled
      BY <2>1, <2>4, <3>k DEF Halfway, At
    <3>2. Held(k)'
      BY <3>1 DEF Held
    <3>3. Asked(req'[r]) /\ req'[r].step = "idle" /\ req'[r].key \notin Keys /\ ~At(r, "grant")'
      BY <2>1, <2>2, IdleFormed DEF At
    <3>4. Knows(req[r])'
      BY <3>3 DEF Knows, Informed
    <3> QED BY <2>1, <2>4, <3>k, <3>1, <3>2, <3>3, <3>4, Rewritten DEF At
  <2> QED BY <2>3, <2>4
<1>12. CASE UNCHANGED vars
  <2>1. NewInv'
    BY <1>12 DEF vars, PermInv, NewInv, Unseen, OnlyLooked, At
  <2>2. \A k \in Keys : Held(k)'
    BY <1>12 DEF vars, PermInv, Held, Mixed, Halfway, Settles, Rewriting, At, HasAdmin
  <2>3. (\A r \in Requests : Asked(req[r])') /\ \A r \in Requests \ raced' : Knows(req[r])'
    BY <1>12 DEF vars, PermInv, Asked, Knows, Rewriting, At
  <2> QED BY <2>1, <2>2, <2>3 DEF PermInv
<1> QED BY <1>1, <1>2, <1>3, <1>4, <1>5, <1>6, <1>7, <1>8, <1>9, <1>10, <1>11, <1>12 DEF Next, Step

\* An existing key that may create organizations is org_admin of one, whoever
\* changes bindings and permissions at a time, outside of the named exceptions
\* (validateApiKeyGlobalPermissions, updateApiKey, POST /organization).
THEOREM CreatorsAreAdmins == Spec => []OrgCreateNeedsAdmin
<1>1. Spec => []TypeInv
  BY TypeInit, TypeStep, PTL DEF Spec
<1>2. Spec => []GrantInv
  BY <1>1, GrantInit, GrantStep, PTL DEF Spec
<1>3. Spec => []PermInv
  BY <1>1, <1>2, PermInit, PermStep, PTL DEF Spec
<1>4. TypeInv /\ PermInv => OrgCreateNeedsAdmin
  <2> SUFFICES ASSUME TypeInv, PermInv, NEW k \in orgCreate, rows[k] # NoRow, Settled(k)
               PROVE  HasAdmin(bindings[k])
      BY DEF OrgCreateNeedsAdmin
  <2>1. k \in Keys \ unsettled /\ raced \subseteq Requests
    BY DEF TypeInv, TypeOK, Settled
  <2>2. \A r \in Requests : req[r].key = k => ~Halfway(r) /\ ~Settles(r)
    BY SettlersHalfway DEF Settled
  <2> QED BY <2>1, <2>2 DEF PermInv, Held, Mixed
<1> QED BY <1>1, <1>3, <1>4, PTL
=============================================================================
