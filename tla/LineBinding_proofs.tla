------------------------- MODULE LineBinding_proofs -------------------------
(***************************************************************************)
(* Proofs about LineBinding, for all sets of platforms, groups, policies   *)
(* and workers and for every bound.  Types need no assumption; that the    *)
(* document and the group rows agree needs requests that do not overlap.   *)
(***************************************************************************)
EXTENDS LineBinding, TLAPS

-----------------------------------------------------------------------------
(* Types *)

LEMMA IdleTyped == Idle \in Transaction
BY NullAssumption, PolicyAssumption
   DEF Idle, Transaction, NewDoc, Doc, NoRow, GroupRow, NoCode

\* A step that replaces only the transaction of one worker.
LEMMA RequestTyped ==
  ASSUME TypeOK, NEW w \in Workers, NEW r \in Transaction,
         req' = [req EXCEPT ![w] = r], issued' \in Nat, aborts' \in Nat,
         UNCHANGED <<docs, groups, trigger>>
  PROVE  TypeOK'
BY DEF TypeOK

LEMMA DecideTyped ==
  ASSUME TypeOK, NEW w \in Workers, NEW r \in Transaction,
         NEW newDocs \in [Platforms -> Doc \cup { Null }],
         NEW newRows \in [Groups -> GroupRow],
         NEW newTrigger \in Policies \cup { Null },
         Decide(w, r, newDocs, newRows, newTrigger), issued' \in Nat
  PROVE  TypeOK'
<1> DEFINE s == [r EXCEPT !.pc = "decided", !.newDocs = newDocs,
                          !.newTrigger = newTrigger,
                          !.oldRows = groups, !.newRows = newRows]
<1>1. s \in Transaction
  BY DEF Transaction, TypeOK
<1>2. /\ req' = [req EXCEPT ![w] = s]
      /\ UNCHANGED <<docs, groups, trigger, aborts>>
  BY DEF Decide
<1> HIDE DEF s
<1>3. aborts' \in Nat
  BY <1>2 DEF TypeOK
<1> QED BY <1>1, <1>2, <1>3, RequestTyped

LEMMA OnlyTyped ==
  ASSUME NEW p \in Platforms, NEW doc \in Doc
  PROVE  /\ Only(p, doc) \in [Platforms -> Doc \cup { Null }]
         /\ Nothing \in [Platforms -> Doc \cup { Null }]
BY DEF Only, Nothing

\* The documents handlers make out of a document.
LEMMA DocTyped ==
  ASSUME NEW doc \in Doc
  PROVE  /\ Unbound(doc) \in Doc
         /\ \A g \in Groups : [doc EXCEPT !.group = g] \in Doc
         /\ \A c \in Nat : [doc EXCEPT !.code = c] \in Doc
         /\ \A policy \in Policies : [doc EXCEPT !.policy = policy] \in Doc
BY DEF Unbound, Doc

LEMMA TypeInit == Init => TypeOK
<1> SUFFICES ASSUME Init PROVE TypeOK
  OBVIOUS
<1>1. NewDoc \in Doc /\ NoRow \in GroupRow
  BY PolicyAssumption DEF NewDoc, Doc, NoRow, GroupRow, NoCode
<1> QED BY <1>1, IdleTyped, PolicyAssumption DEF Init, TypeOK

-----------------------------------------------------------------------------
(* One step per action *)

LEMMA LoadTyped ==
  ASSUME TypeOK, NEW w \in Workers, NEW hook \in BOOLEAN,
         NEW kind \in { "bind", "unbind", "code", "configure" },
         NEW p \in Platforms, NEW g \in Groups \cup { Null },
         Load(w, kind, hook, p, g)
  PROVE  TypeOK'
<1> DEFINE r == [Idle EXCEPT !.pc = "loaded", !.kind = kind, !.hook = hook,
                             !.p = p, !.doc = docs[p], !.g = g]
<1>1. docs[p] \in Doc
  BY DEF TypeOK
<1>2. r \in Transaction
  BY <1>1, IdleTyped DEF Transaction
<1>3. /\ req' = [req EXCEPT ![w] = r]
      /\ UNCHANGED <<docs, groups, trigger, issued, aborts>>
  BY DEF Load
<1> HIDE DEF r
<1> QED BY <1>2, <1>3, RequestTyped DEF TypeOK

LEMMA ConsoleTyped == ASSUME TypeOK, NEW w \in Workers, Console(w) PROVE TypeOK'
BY LoadTyped DEF Console

LEMMA BindMessageTyped ==
  ASSUME TypeOK, NEW w \in Workers, NEW g \in Groups, BindMessage(w, g) PROVE TypeOK'
BY LoadTyped DEF BindMessage

LEMMA BindTyped == ASSUME TypeOK, NEW w \in Workers, Bind(w) PROVE TypeOK'
<1> DEFINE r == req[w]
           previous == { q \in Platforms \ { r.p } :
                           groups[r.g].platform = q /\ docs[q].group = r.g }
           news == [q \in Platforms |->
                      IF q = r.p THEN [r.doc EXCEPT !.group = r.g]
                      ELSE IF q \in previous THEN Unbound(docs[q])
                      ELSE Null]
           rows == RowsOfBind(r.p, r.g)
<1>1. r \in Transaction /\ r.doc \in Doc /\ r.g \in Groups \cup { Null }
      /\ r.p \in Platforms \cup { Null }
  BY DEF TypeOK, Transaction
<1>2. news \in [Platforms -> Doc \cup { Null }]
  <2>1. [r.doc EXCEPT !.group = r.g] \in Doc
    BY <1>1 DEF Doc
  <2>2. \A q \in Platforms : Unbound(docs[q]) \in Doc
    BY DocTyped DEF TypeOK
  <2> HIDE DEF previous, r
  <2> QED BY <2>1, <2>2
<1>3. rows \in [Groups -> GroupRow]
  BY <1>1 DEF RowsOfBind, Released, GroupRow, TypeOK
<1>4. Decide(w, r, news, rows, Null) /\ issued' = issued
  BY DEF Bind
<1> HIDE DEF news, rows, r
<1>5. issued' \in Nat
  BY <1>4 DEF TypeOK
<1> QED BY <1>1, <1>2, <1>3, <1>4, <1>5, DecideTyped

LEMMA UnbindTyped == ASSUME TypeOK, NEW w \in Workers, Unbind(w) PROVE TypeOK'
<1> DEFINE r == req[w]
           news == Only(r.p, Unbound(r.doc))
           rows == [h \in Groups |->
                      IF h = r.doc.group /\ groups[h].status # "absent" THEN Released
                      ELSE groups[h]]
<1>1. r \in Transaction /\ r.doc \in Doc
  BY DEF TypeOK, Transaction
<1>2. news \in [Platforms -> Doc \cup { Null }]
  BY <1>1, DocTyped DEF Only, Nothing
<1>3. rows \in [Groups -> GroupRow]
  BY DEF Released, GroupRow, TypeOK
<1>4. Decide(w, r, news, rows, Null) /\ issued' = issued
  BY DEF Unbind
<1> HIDE DEF news, rows, r
<1>5. issued' \in Nat
  BY <1>4 DEF TypeOK
<1> QED BY <1>1, <1>2, <1>3, <1>4, <1>5, DecideTyped

LEMMA BindCodeTyped ==
  ASSUME TypeOK, NEW w \in Workers, NEW regenerate \in BOOLEAN, BindCode(w, regenerate)
  PROVE  TypeOK'
<1> DEFINE r == req[w]
           news == Only(r.p, [r.doc EXCEPT !.code = issued + 1])
<1>1. r \in Transaction /\ r.doc \in Doc /\ issued + 1 \in Nat
      /\ groups \in [Groups -> GroupRow]
  BY DEF TypeOK, Transaction
<1>2. news \in [Platforms -> Doc \cup { Null }]
  BY <1>1, DocTyped DEF Only, Nothing
<1>3. Decide(w, r, news, groups, Null) /\ issued' = issued + 1
  BY DEF BindCode
<1> HIDE DEF news, r
<1> QED BY <1>1, <1>2, <1>3, DecideTyped

LEMMA ConfigureTyped ==
  ASSUME TypeOK, NEW w \in Workers, NEW policy \in Policies \cup { Null },
         NEW others \in BOOLEAN, Configure(w, policy, others)
  PROVE  TypeOK'
<1> DEFINE r == req[w]
           doc == IF policy = Null THEN r.doc ELSE [r.doc EXCEPT !.policy = policy]
           news == IF others \/ doc # r.doc THEN Only(r.p, doc) ELSE Nothing
           new == TriggerOf(r.p, policy)
<1>1. r \in Transaction /\ r.doc \in Doc /\ groups \in [Groups -> GroupRow]
  BY DEF TypeOK, Transaction
<1>2. doc \in Doc
  BY <1>1, DocTyped
<1>3. news \in [Platforms -> Doc \cup { Null }]
  BY <1>2 DEF Only, Nothing
<1>4. new \in Policies \cup { Null }
  BY DEF TriggerOf
<1>5. Decide(w, r, news, groups, new) /\ issued' = issued
  BY DEF Configure
<1> HIDE DEF news, r, new
<1>6. issued' \in Nat
  BY <1>5 DEF TypeOK
<1> QED BY <1>1, <1>3, <1>4, <1>5, <1>6, DecideTyped

LEMMA JoinTyped ==
  ASSUME TypeOK, NEW w \in Workers, NEW g \in Groups, Join(w, g) PROVE TypeOK'
<1> DEFINE r == [Idle EXCEPT !.hook = TRUE]
           rows == [groups EXCEPT ![g].status =
                      IF @ \in { "absent", "left" } THEN "joined" ELSE @]
<1>1. r \in Transaction
  BY IdleTyped DEF Transaction
<1>2. rows \in [Groups -> GroupRow]
  BY DEF TypeOK, GroupRow
<1>3. Nothing \in [Platforms -> Doc \cup { Null }]
  BY DEF Nothing
<1>4. Decide(w, r, Nothing, rows, Null) /\ issued' = issued
  BY DEF Join
<1> HIDE DEF r, rows
<1>5. issued' \in Nat
  BY <1>4 DEF TypeOK
<1> QED BY <1>1, <1>2, <1>3, <1>4, <1>5, DecideTyped

LEMMA LeaveGroupTyped ==
  ASSUME TypeOK, NEW w \in Workers, NEW g \in Groups, LeaveGroup(w, g) PROVE TypeOK'
<1> DEFINE r == [Idle EXCEPT !.hook = TRUE]
           news == [q \in Platforms |->
                      IF groups[g].platform = q /\ docs[q].group = g
                      THEN Unbound(docs[q]) ELSE Null]
           rows == [groups EXCEPT ![g] = [ status |-> "left", platform |-> Null ]]
<1>1. r \in Transaction
  BY IdleTyped DEF Transaction
<1>2. rows \in [Groups -> GroupRow]
  BY DEF TypeOK, GroupRow
<1>3. news \in [Platforms -> Doc \cup { Null }]
  BY DocTyped DEF TypeOK
<1>4. Decide(w, r, news, rows, Null) /\ issued' = issued
  BY DEF LeaveGroup
<1> HIDE DEF r, rows, news
<1>5. issued' \in Nat
  BY <1>4 DEF TypeOK
<1> QED BY <1>1, <1>2, <1>3, <1>4, <1>5, DecideTyped

LEMMA RollbackTyped ==
  ASSUME TypeOK, NEW w \in Workers, Rollback(w), aborts' \in Nat PROVE TypeOK'
BY IdleTyped, RequestTyped DEF Rollback, TypeOK

LEMMA WriteTyped ==
  ASSUME TypeOK, NEW w \in Workers, Write(w), aborts' = aborts PROVE TypeOK'
<1>1. req[w] \in Transaction
  BY DEF TypeOK
<1>2. docs' \in [Platforms -> Doc]
  BY <1>1 DEF Write, TypeOK, Transaction
<1>3. groups' \in [Groups -> GroupRow]
  BY <1>1 DEF Write, TypeOK, Transaction, GroupRow, Col
<1>4. trigger' \in [Platforms -> Policies]
  BY <1>1 DEF Write, TypeOK, Transaction
<1>5. req' \in [Workers -> Transaction] /\ issued' \in Nat /\ aborts' \in Nat
  BY IdleTyped DEF Write, TypeOK
<1> QED BY <1>2, <1>3, <1>4, <1>5 DEF TypeOK

LEMMA TypeStep == TypeOK /\ [Next]_vars => TypeOK'
<1> SUFFICES ASSUME TypeOK, [Next]_vars PROVE TypeOK'
  OBVIOUS
<1>1. ASSUME NEW w \in Workers, Console(w) PROVE TypeOK'
  BY <1>1, ConsoleTyped
<1>2. ASSUME NEW w \in Workers, Webhook(w) PROVE TypeOK'
  BY <1>2, BindMessageTyped, JoinTyped, LeaveGroupTyped DEF Webhook
<1>3. ASSUME NEW w \in Workers, Handle(w) PROVE TypeOK'
  <2>1. CASE Refuse(w)
    BY <2>1, <1>3, IdleTyped, RequestTyped DEF Refuse, TypeOK
  <2>2. CASE Bind(w) \/ Unbind(w)
    BY <2>2, <1>3, BindTyped, UnbindTyped
  <2>3. CASE \E regenerate \in BOOLEAN : BindCode(w, regenerate)
    BY <2>3, <1>3, BindCodeTyped
  <2>4. CASE \E policy \in Policies \cup { Null }, others \in BOOLEAN :
               Configure(w, policy, others)
    BY <2>4, <1>3, ConfigureTyped
  <2> QED BY <1>3, <2>1, <2>2, <2>3, <2>4 DEF Handle
<1>4. ASSUME NEW w \in Workers, Commit(w) PROVE TypeOK'
  BY <1>4, WriteTyped, RollbackTyped DEF Commit, TypeOK
<1>5. ASSUME NEW w \in Workers, Abort(w) PROVE TypeOK'
  <2>1. aborts' \in Nat
    BY <1>5 DEF Abort, TypeOK
  <2> QED BY <1>5, <2>1, RollbackTyped DEF Abort
<1>6. CASE UNCHANGED vars
  BY <1>6 DEF vars, TypeOK
<1> QED BY <1>1, <1>2, <1>3, <1>4, <1>5, <1>6 DEF Next

\* Every variable keeps its type, with any number of requests in progress:
\* what a transaction loads, decides and commits is always a document of the
\* platform table and a row of the group table.
THEOREM TypeCorrect == Spec => []TypeOK
BY TypeInit, TypeStep, PTL DEF Spec

-----------------------------------------------------------------------------
(* Requests one after another: the documents and the rows agree *)

OneRequest == \A v, w \in Workers : v = w

\* The two places agree about who is bound to whom.
Agree(d, rows) ==
  \A g \in Groups :
    /\ \A p \in Platforms : d[p].group = g <=> rows[g].platform = p
    /\ rows[g].status = "bound" <=> rows[g].platform # Null

\* ... and the two places agree about the cluster policy.
SamePolicy(d, t) == \A p \in Platforms : t[p] = d[p].policy

\* What the commit of transaction r leaves in the tables.
DocsAfter(r) == [p \in Platforms |-> IF r.newDocs[p] = Null THEN docs[p] ELSE r.newDocs[p]]

TriggerAfter(r) ==
  IF r.newTrigger = Null THEN trigger ELSE [trigger EXCEPT ![r.p] = r.newTrigger]

\* Nobody came between a request and what it loaded; what it decided agrees.
Fresh(r) ==
  /\ r.pc = "loaded" =>
       /\ r.p \in Platforms /\ r.doc = docs[r.p]
       /\ r.kind = "bind" => r.g \in Groups
  /\ r.pc = "decided" =>
       /\ r.oldRows = groups
       /\ Agree(DocsAfter(r), r.newRows)
       /\ SamePolicy(DocsAfter(r), TriggerAfter(r))

\* The inductive invariant: the tables agree, and so will they after the
\* commit of the one request in progress.
SerialInv ==
  /\ TypeOK
  /\ Agree(docs, groups)
  /\ SamePolicy(docs, trigger)
  /\ \A w \in Workers : Fresh(req[w])

LEMMA SerialInit == Init => SerialInv
<1> SUFFICES ASSUME Init PROVE SerialInv
  OBVIOUS
<1>1. Agree(docs, groups)
  BY NullAssumption DEF Init, Agree, NewDoc, NoRow
<1>2. SamePolicy(docs, trigger)
  BY DEF Init, SamePolicy, NewDoc
<1>3. \A w \in Workers : Fresh(req[w])
  BY DEF Init, Fresh, Idle
<1> QED BY <1>1, <1>2, <1>3, TypeInit DEF SerialInv

\* A step that leaves the tables alone keeps what they agree about.
LEMMA SerialRequest ==
  ASSUME OneRequest, SerialInv, TypeOK', NEW w \in Workers, NEW r,
         req' = [req EXCEPT ![w] = r], Fresh(r),
         UNCHANGED <<docs, groups, trigger>>
  PROVE  SerialInv'
<1>1. Fresh(r)'
  BY DEF Fresh, DocsAfter, TriggerAfter, Agree, SamePolicy
<1>2. \A v \in Workers : req'[v] = r
  BY DEF OneRequest, SerialInv, TypeOK
<1>3. Agree(docs, groups)' /\ SamePolicy(docs, trigger)'
  BY DEF SerialInv, Agree, SamePolicy
<1>4. \A v \in Workers : Fresh(req[v])'
  BY <1>1, <1>2 DEF Fresh, DocsAfter, TriggerAfter, Agree, SamePolicy
<1> QED BY <1>3, <1>4 DEF SerialInv

\* A decision is fresh when the tables it leaves agree.
LEMMA SerialDecide ==
  ASSUME OneRequest, SerialInv, TypeOK', NEW w \in Workers, NEW r \in Transaction,
         NEW newDocs \in [Platforms -> Doc \cup { Null }],
         NEW newRows \in [Groups -> GroupRow],
         NEW newTrigger \in Policies \cup { Null },
         Decide(w, r, newDocs, newRows, newTrigger),
         NEW d, d = [p \in Platforms |-> IF newDocs[p] = Null THEN docs[p] ELSE newDocs[p]],
         Agree(d, newRows),
         SamePolicy(d, IF newTrigger = Null THEN trigger
                       ELSE [trigger EXCEPT ![r.p] = newTrigger])
  PROVE  SerialInv'
<1> DEFINE s == [r EXCEPT !.pc = "decided", !.newDocs = newDocs,
                          !.newTrigger = newTrigger,
                          !.oldRows = groups, !.newRows = newRows]
<1>1. /\ s.pc = "decided" /\ s.newDocs = newDocs /\ s.newTrigger = newTrigger
      /\ s.oldRows = groups /\ s.newRows = newRows /\ s.p = r.p
  BY DEF Transaction
<1>2. /\ req' = [req EXCEPT ![w] = s]
      /\ UNCHANGED <<docs, groups, trigger>>
  BY DEF Decide
<1> HIDE DEF s
<1>3. DocsAfter(s) = d
  BY <1>1 DEF DocsAfter
<1>4. TriggerAfter(s) = IF newTrigger = Null THEN trigger
                        ELSE [trigger EXCEPT ![r.p] = newTrigger]
  BY <1>1 DEF TriggerAfter
<1>5. Fresh(s)
  BY <1>1, <1>3, <1>4 DEF Fresh
<1> QED BY <1>2, <1>5, SerialRequest

LEMMA SerialLoad ==
  ASSUME OneRequest, SerialInv, TypeOK', NEW w \in Workers, NEW hook \in BOOLEAN,
         NEW kind \in { "bind", "unbind", "code", "configure" },
         NEW p \in Platforms, NEW g \in Groups \cup { Null },
         kind = "bind" => g \in Groups,
         Load(w, kind, hook, p, g)
  PROVE  SerialInv'
<1> DEFINE r == [Idle EXCEPT !.pc = "loaded", !.kind = kind, !.hook = hook,
                             !.p = p, !.doc = docs[p], !.g = g]
<1>1. Fresh(r)
  BY DEF Fresh, Idle
<1>2. /\ req' = [req EXCEPT ![w] = r]
      /\ UNCHANGED <<docs, groups, trigger>>
  BY DEF Load
<1> HIDE DEF r
<1> QED BY <1>1, <1>2, SerialRequest

\* The state the handlers below decide in.
LEMMA LoadedFresh ==
  ASSUME SerialInv, NEW w \in Workers, req[w].pc = "loaded"
  PROVE  /\ req[w] \in Transaction
         /\ req[w].p \in Platforms /\ req[w].doc = docs[req[w].p]
         /\ req[w].kind = "bind" => req[w].g \in Groups
         /\ docs \in [Platforms -> Doc] /\ groups \in [Groups -> GroupRow]
         /\ trigger \in [Platforms -> Policies]
         /\ Agree(docs, groups) /\ SamePolicy(docs, trigger)
BY DEF SerialInv, TypeOK, Fresh

LEMMA SerialBind ==
  ASSUME OneRequest, SerialInv, TypeOK', NEW w \in Workers, Bind(w) PROVE SerialInv'
<1> DEFINE r == req[w]
           previous == { q \in Platforms \ { r.p } :
                           groups[r.g].platform = q /\ docs[q].group = r.g }
           news == [q \in Platforms |->
                      IF q = r.p THEN [r.doc EXCEPT !.group = r.g]
                      ELSE IF q \in previous THEN Unbound(docs[q])
                      ELSE Null]
           rows == RowsOfBind(r.p, r.g)
           d == [q \in Platforms |-> IF news[q] = Null THEN docs[q] ELSE news[q]]
<1>1. /\ r \in Transaction /\ r.p \in Platforms /\ r.doc = docs[r.p] /\ r.g \in Groups
      /\ docs \in [Platforms -> Doc] /\ groups \in [Groups -> GroupRow]
      /\ Agree(docs, groups) /\ SamePolicy(docs, trigger)
  BY LoadedFresh DEF Bind
<1>2. \A q \in Platforms :
        /\ Unbound(docs[q]) \in Doc
        /\ [docs[q] EXCEPT !.group = r.g] \in Doc
        /\ Unbound(docs[q]).group = Null /\ Unbound(docs[q]).policy = docs[q].policy
        /\ [docs[q] EXCEPT !.group = r.g].group = r.g
        /\ [docs[q] EXCEPT !.group = r.g].policy = docs[q].policy
  BY <1>1 DEF Unbound, Doc
<1>3. Decide(w, r, news, rows, Null)
  BY DEF Bind
<1> HIDE DEF r
<1>4. news \in [Platforms -> Doc \cup { Null }]
  BY <1>1, <1>2
<1>5. rows \in [Groups -> GroupRow]
  BY <1>1 DEF RowsOfBind, Released, GroupRow
<1>6. \A q \in Platforms :
        /\ d[q].policy = docs[q].policy
        /\ q = r.p => d[q].group = r.g
        /\ q \in previous => d[q].group = Null
        /\ q # r.p /\ q \notin previous => d[q].group = docs[q].group
  <2>1. \A q \in Platforms : d[q] = IF news[q] = Null THEN docs[q] ELSE news[q]
    OBVIOUS
  <2>2. d[r.p] = [docs[r.p] EXCEPT !.group = r.g]
    BY <1>1, <1>2, <2>1, DocAssumption
  <2>3. \A q \in previous : q \in Platforms /\ q # r.p /\ d[q] = Unbound(docs[q])
    BY <1>2, <2>1, DocAssumption
  <2>4. \A q \in Platforms : q # r.p /\ q \notin previous => d[q] = docs[q]
    BY <2>1
  <2> HIDE DEF news, d, previous
  <2>5. d[r.p].group = r.g /\ d[r.p].policy = docs[r.p].policy
    <3>1. r.p \in Platforms
      BY <1>1
    <3> QED BY <1>2, <2>2, <3>1
  <2>6. \A q \in previous : d[q].group = Null /\ d[q].policy = docs[q].policy
    <3>1. \A q \in Platforms : Unbound(docs[q]).group = Null /\ Unbound(docs[q]).policy = docs[q].policy
      BY <1>2
    <3> QED BY <2>3, <3>1
  <2> QED BY <2>3, <2>4, <2>5, <2>6
<1>7. \A h \in Groups :
        /\ h = r.g => rows[h] = [ status |-> "bound", platform |-> r.p ]
        /\ h # r.g /\ groups[h].platform = r.p => rows[h] = Released
        /\ h # r.g /\ groups[h].platform # r.p => rows[h] = groups[h]
  BY DEF RowsOfBind
<1> HIDE DEF news, rows, d
<1>8. Agree(d, rows)
  <2> SUFFICES ASSUME NEW g \in Groups
               PROVE  /\ \A p \in Platforms : d[p].group = g <=> rows[g].platform = p
                      /\ rows[g].status = "bound" <=> rows[g].platform # Null
    BY DEF Agree
  <2>1. rows[g].status = "bound" <=> rows[g].platform # Null
    BY <1>1, <1>7, NullAssumption DEF Agree, Released
  <2>2. ASSUME NEW p \in Platforms PROVE d[p].group = g <=> rows[g].platform = p
    <3>1. docs[p].group = g <=> groups[g].platform = p
      BY <1>1 DEF Agree
    <3>2. docs[p].group = r.g <=> groups[r.g].platform = p
      BY <1>1 DEF Agree
    <3>3. CASE g = r.g
      BY <1>1, <1>6, <1>7, <3>1, <3>3, NullAssumption
    <3>4. CASE g # r.g
      BY <1>1, <1>6, <1>7, <3>1, <3>2, <3>4, NullAssumption DEF Released
    <3> QED BY <3>3, <3>4
  <2> QED BY <2>1, <2>2
<1>9. SamePolicy(d, trigger)
  BY <1>1, <1>6 DEF SamePolicy
<1>10. d = [q \in Platforms |-> IF news[q] = Null THEN docs[q] ELSE news[q]]
  BY DEF d
<1> QED BY <1>1, <1>3, <1>4, <1>5, <1>8, <1>9, <1>10, SerialDecide

LEMMA SerialUnbind ==
  ASSUME OneRequest, SerialInv, TypeOK', NEW w \in Workers, Unbind(w) PROVE SerialInv'
<1> DEFINE r == req[w]
           news == Only(r.p, Unbound(r.doc))
           rows == [h \in Groups |->
                      IF h = r.doc.group /\ groups[h].status # "absent" THEN Released
                      ELSE groups[h]]
           d == [q \in Platforms |-> IF news[q] = Null THEN docs[q] ELSE news[q]]
<1>1. /\ r \in Transaction /\ r.p \in Platforms /\ r.doc = docs[r.p]
      /\ docs \in [Platforms -> Doc] /\ groups \in [Groups -> GroupRow]
      /\ Agree(docs, groups) /\ SamePolicy(docs, trigger)
  BY LoadedFresh DEF Unbind
<1>2. /\ Unbound(r.doc) \in Doc
      /\ Unbound(r.doc).group = Null /\ Unbound(r.doc).policy = docs[r.p].policy
  BY <1>1 DEF Unbound, Doc
<1>3. Decide(w, r, news, rows, Null)
  BY DEF Unbind
<1> HIDE DEF r
<1>4. news \in [Platforms -> Doc \cup { Null }]
  BY <1>2 DEF Only, Nothing
<1>5. rows \in [Groups -> GroupRow]
  BY <1>1 DEF Released, GroupRow
<1>6. \A q \in Platforms :
        /\ d[q].policy = docs[q].policy
        /\ q = r.p => d[q].group = Null
        /\ q # r.p => d[q].group = docs[q].group
  BY <1>1, <1>2, DocAssumption DEF Only, Nothing
<1>7. \A h \in Groups :
        \/ h = docs[r.p].group /\ rows[h] = Released
        \/ rows[h] = groups[h] /\ (h # docs[r.p].group \/ groups[h].status = "absent")
  BY <1>1
<1> HIDE DEF news, rows, d
<1>8. Agree(d, rows)
  <2> SUFFICES ASSUME NEW g \in Groups
               PROVE  /\ \A p \in Platforms : d[p].group = g <=> rows[g].platform = p
                      /\ rows[g].status = "bound" <=> rows[g].platform # Null
    BY DEF Agree
  <2>1. /\ groups[g].status = "bound" <=> groups[g].platform # Null
        /\ \A p \in Platforms : docs[p].group = g <=> groups[g].platform = p
    BY <1>1 DEF Agree
  <2>2. CASE g = docs[r.p].group
    \* The row is released: the platform had the group, so the row is there.
    <3>1. groups[g].platform = r.p
      BY <1>1, <2>1, <2>2
    <3>2. rows[g] = Released
      BY <1>1, <1>7, <2>1, <3>1, NullAssumption
    <3> QED BY <1>1, <1>6, <2>1, <3>1, <3>2, NullAssumption DEF Released
  <2>3. CASE g # docs[r.p].group
    <3>1. rows[g] = groups[g]
      BY <1>7, <2>3
    <3> QED BY <1>1, <1>6, <2>1, <2>3, <3>1, NullAssumption
  <2> QED BY <2>2, <2>3
<1>9. SamePolicy(d, trigger)
  BY <1>1, <1>6 DEF SamePolicy
<1>10. d = [q \in Platforms |-> IF news[q] = Null THEN docs[q] ELSE news[q]]
  BY DEF d
<1> QED BY <1>1, <1>3, <1>4, <1>5, <1>8, <1>9, <1>10, SerialDecide

LEMMA SerialBindCode ==
  ASSUME OneRequest, SerialInv, TypeOK', NEW w \in Workers, NEW regenerate \in BOOLEAN,
         BindCode(w, regenerate)
  PROVE  SerialInv'
<1> DEFINE r == req[w]
           doc == [r.doc EXCEPT !.code = issued + 1]
           news == Only(r.p, doc)
           d == [q \in Platforms |-> IF news[q] = Null THEN docs[q] ELSE news[q]]
<1>1. /\ r \in Transaction /\ r.p \in Platforms /\ r.doc = docs[r.p]
      /\ docs \in [Platforms -> Doc] /\ groups \in [Groups -> GroupRow]
      /\ Agree(docs, groups) /\ SamePolicy(docs, trigger)
  BY LoadedFresh DEF BindCode
<1>2. doc \in Doc /\ doc.group = docs[r.p].group /\ doc.policy = docs[r.p].policy
  <2>1. issued + 1 \in Nat
    BY DEF SerialInv, TypeOK
  <2> QED BY <1>1, <2>1 DEF Doc
<1>3. Decide(w, r, news, groups, Null)
  BY DEF BindCode
<1> HIDE DEF r, doc
<1>4. news \in [Platforms -> Doc \cup { Null }]
  BY <1>2 DEF Only, Nothing
<1>5. \A q \in Platforms : d[q].group = docs[q].group /\ d[q].policy = docs[q].policy
  BY <1>1, <1>2, DocAssumption DEF Only, Nothing
<1> HIDE DEF news, d
<1>6. Agree(d, groups) /\ SamePolicy(d, trigger)
  BY <1>1, <1>5 DEF Agree, SamePolicy
<1>7. d = [q \in Platforms |-> IF news[q] = Null THEN docs[q] ELSE news[q]]
  BY DEF d
<1> QED BY <1>1, <1>3, <1>4, <1>6, <1>7, SerialDecide

LEMMA SerialConfigure ==
  ASSUME OneRequest, SerialInv, TypeOK', NEW w \in Workers,
         NEW policy \in Policies \cup { Null }, NEW others \in BOOLEAN,
         Configure(w, policy, others)
  PROVE  SerialInv'
<1> DEFINE r == req[w]
           doc == IF policy = Null THEN r.doc ELSE [r.doc EXCEPT !.policy = policy]
           news == IF others \/ doc # r.doc THEN Only(r.p, doc) ELSE Nothing
           new == TriggerOf(r.p, policy)
           d == [q \in Platforms |-> IF news[q] = Null THEN docs[q] ELSE news[q]]
           t == IF new = Null THEN trigger ELSE [trigger EXCEPT ![r.p] = new]
<1>1. /\ r \in Transaction /\ r.p \in Platforms /\ r.doc = docs[r.p]
      /\ docs \in [Platforms -> Doc] /\ groups \in [Groups -> GroupRow]
      /\ trigger \in [Platforms -> Policies]
      /\ Agree(docs, groups) /\ SamePolicy(docs, trigger)
  BY LoadedFresh DEF Configure
<1>2. /\ doc \in Doc /\ doc.group = docs[r.p].group
      /\ policy = Null => doc.policy = docs[r.p].policy
      /\ policy # Null => doc.policy = policy
  BY <1>1 DEF Doc
<1>3. Decide(w, r, news, groups, new)
  BY DEF Configure
<1>4. new \in Policies \cup { Null }
  BY DEF TriggerOf
<1> HIDE DEF r, doc
<1>5. news \in [Platforms -> Doc \cup { Null }]
  BY <1>2 DEF Only, Nothing
<1>6. \A q \in Platforms :
        /\ d[q].group = docs[q].group
        /\ q = r.p => d[q].policy = doc.policy
        /\ q # r.p => d[q].policy = docs[q].policy
  BY <1>1, <1>2, DocAssumption DEF Only, Nothing
<1>7. \A q \in Platforms :
        /\ q = r.p => t[q] = doc.policy
        /\ q # r.p => t[q] = trigger[q]
  <2>1. trigger[r.p] = docs[r.p].policy /\ trigger[r.p] # Null
    BY <1>1, NullAssumption DEF SamePolicy
  <2> QED BY <1>1, <1>2, <2>1 DEF TriggerOf
<1> HIDE DEF news, new, d, t
<1>8. Agree(d, groups)
  BY <1>1, <1>6 DEF Agree
<1>9. SamePolicy(d, t)
  BY <1>1, <1>6, <1>7 DEF SamePolicy
<1>10. d = [q \in Platforms |-> IF news[q] = Null THEN docs[q] ELSE news[q]]
  BY DEF d
<1>11. t = IF new = Null THEN trigger ELSE [trigger EXCEPT ![r.p] = new]
  BY DEF t
<1> QED BY <1>1, <1>3, <1>4, <1>5, <1>8, <1>9, <1>10, <1>11, SerialDecide

LEMMA SerialJoin ==
  ASSUME OneRequest, SerialInv, TypeOK', NEW w \in Workers, NEW g \in Groups, Join(w, g)
  PROVE  SerialInv'
<1> DEFINE r == [Idle EXCEPT !.hook = TRUE]
           rows == [groups EXCEPT ![g].status =
                      IF @ \in { "absent", "left" } THEN "joined" ELSE @]
           d == [q \in Platforms |-> IF Nothing[q] = Null THEN docs[q] ELSE Nothing[q]]
<1>1. /\ docs \in [Platforms -> Doc] /\ groups \in [Groups -> GroupRow]
      /\ Agree(docs, groups) /\ SamePolicy(docs, trigger)
  BY DEF SerialInv, TypeOK
<1>2. r \in Transaction
  BY IdleTyped DEF Transaction
<1>3. rows \in [Groups -> GroupRow]
  BY <1>1 DEF GroupRow
<1>4. Nothing \in [Platforms -> Doc \cup { Null }]
  BY DEF Nothing
<1>5. Decide(w, r, Nothing, rows, Null)
  BY DEF Join
<1>6. d = docs
  BY <1>1 DEF Nothing
<1>7. \A h \in Groups : /\ rows[h].platform = groups[h].platform
                        /\ rows[h].status = "bound" <=> groups[h].status = "bound"
  BY <1>1 DEF GroupRow
<1> HIDE DEF r, rows, d
<1>8. Agree(d, rows) /\ SamePolicy(d, trigger)
  BY <1>1, <1>6, <1>7 DEF Agree
<1>9. d = [q \in Platforms |-> IF Nothing[q] = Null THEN docs[q] ELSE Nothing[q]]
  BY DEF d
<1> QED BY <1>2, <1>3, <1>4, <1>5, <1>8, <1>9, SerialDecide

LEMMA SerialLeaveGroup ==
  ASSUME OneRequest, SerialInv, TypeOK', NEW w \in Workers, NEW g \in Groups,
         LeaveGroup(w, g)
  PROVE  SerialInv'
<1> DEFINE r == [Idle EXCEPT !.hook = TRUE]
           news == [q \in Platforms |->
                      IF groups[g].platform = q /\ docs[q].group = g
                      THEN Unbound(docs[q]) ELSE Null]
           rows == [groups EXCEPT ![g] = [ status |-> "left", platform |-> Null ]]
           d == [q \in Platforms |-> IF news[q] = Null THEN docs[q] ELSE news[q]]
<1>1. /\ docs \in [Platforms -> Doc] /\ groups \in [Groups -> GroupRow]
      /\ Agree(docs, groups) /\ SamePolicy(docs, trigger)
  BY DEF SerialInv, TypeOK
<1>2. r \in Transaction
  BY IdleTyped DEF Transaction
<1>3. rows \in [Groups -> GroupRow]
  BY <1>1 DEF GroupRow
<1>4. \A q \in Platforms :
        /\ Unbound(docs[q]) \in Doc /\ Unbound(docs[q]).group = Null
        /\ Unbound(docs[q]).policy = docs[q].policy
  BY <1>1 DEF Unbound, Doc
<1>5. news \in [Platforms -> Doc \cup { Null }]
  BY <1>4
<1>6. Decide(w, r, news, rows, Null)
  BY DEF LeaveGroup
<1>7. \A q \in Platforms :
        /\ d[q].policy = docs[q].policy
        /\ docs[q].group = g => d[q].group = Null
        /\ docs[q].group # g => d[q].group = docs[q].group
  BY <1>1, <1>4, DocAssumption DEF Agree
<1>8. \A h \in Groups :
        /\ h = g => rows[h].platform = Null /\ rows[h].status = "left"
        /\ h # g => rows[h] = groups[h]
  BY <1>1
<1> HIDE DEF r, news, rows, d
<1>9. Agree(d, rows)
  BY <1>1, <1>7, <1>8, NullAssumption DEF Agree
<1>10. SamePolicy(d, trigger)
  BY <1>1, <1>7 DEF SamePolicy
<1>11. d = [q \in Platforms |-> IF news[q] = Null THEN docs[q] ELSE news[q]]
  BY DEF d
<1> QED BY <1>2, <1>3, <1>5, <1>6, <1>9, <1>10, <1>11, SerialDecide

LEMMA SerialRollback ==
  ASSUME OneRequest, SerialInv, TypeOK', NEW w \in Workers, Rollback(w)
  PROVE  SerialInv'
<1>1. Fresh(Idle)
  BY DEF Fresh, Idle
<1> QED BY <1>1, SerialRequest DEF Rollback

\* With nobody in between, the commit leaves exactly what was decided.
LEMMA SerialWrite ==
  ASSUME OneRequest, SerialInv, TypeOK', NEW w \in Workers,
         req[w].pc = "decided", Write(w)
  PROVE  SerialInv'
<1> DEFINE r == req[w]
<1>1. /\ r \in Transaction /\ r.oldRows = groups /\ groups \in [Groups -> GroupRow]
      /\ Agree(DocsAfter(r), r.newRows) /\ SamePolicy(DocsAfter(r), TriggerAfter(r))
  BY DEF SerialInv, TypeOK, Fresh
<1>2. docs' = DocsAfter(r) /\ trigger' = TriggerAfter(r)
  BY DEF Write, DocsAfter, TriggerAfter
<1>3. \A g \in Groups : /\ groups'[g].status = r.newRows[g].status
                        /\ groups'[g].platform = r.newRows[g].platform
  BY <1>1 DEF Write, Col
<1> HIDE DEF r
<1>4. Agree(docs, groups)' /\ SamePolicy(docs, trigger)'
  BY <1>1, <1>2, <1>3 DEF Agree, SamePolicy
<1>5. \A v \in Workers : req'[v].pc = "idle"
  BY DEF OneRequest, Write, Idle, SerialInv, TypeOK
<1>6. \A v \in Workers : Fresh(req[v])'
  BY <1>5 DEF Fresh
<1> QED BY <1>4, <1>6 DEF SerialInv

LEMMA SerialStep ==
  ASSUME OneRequest PROVE SerialInv /\ [Next]_vars => SerialInv'
<1> SUFFICES ASSUME SerialInv, [Next]_vars PROVE SerialInv'
  OBVIOUS
<1>0. TypeOK'
  BY TypeStep DEF SerialInv
<1>1. ASSUME NEW w \in Workers, Console(w) PROVE SerialInv'
  BY <1>0, <1>1, SerialLoad DEF Console
<1>2. ASSUME NEW w \in Workers, Webhook(w) PROVE SerialInv'
  <2> PICK g \in Groups : BindMessage(w, g) \/ Join(w, g) \/ LeaveGroup(w, g)
    BY <1>2 DEF Webhook
  <2>1. CASE BindMessage(w, g)
    BY <1>0, <2>1, SerialLoad DEF BindMessage
  <2>2. CASE Join(w, g) \/ LeaveGroup(w, g)
    BY <1>0, <2>2, SerialJoin, SerialLeaveGroup
  <2> QED BY <2>1, <2>2
<1>3. ASSUME NEW w \in Workers, Handle(w) PROVE SerialInv'
  <2>1. CASE Refuse(w)
    <3>1. Fresh(Idle)
      BY DEF Fresh, Idle
    <3> QED BY <1>0, <2>1, <1>3, <3>1, SerialRequest DEF Refuse
  <2>2. CASE Bind(w) \/ Unbind(w)
    BY <1>0, <2>2, <1>3, SerialBind, SerialUnbind
  <2>3. CASE \E regenerate \in BOOLEAN : BindCode(w, regenerate)
    BY <1>0, <2>3, <1>3, SerialBindCode
  <2>4. CASE \E policy \in Policies \cup { Null }, others \in BOOLEAN :
               Configure(w, policy, others)
    BY <1>0, <2>4, <1>3, SerialConfigure
  <2> QED BY <1>3, <2>1, <2>2, <2>3, <2>4 DEF Handle
<1>4. ASSUME NEW w \in Workers, Commit(w) PROVE SerialInv'
  BY <1>0, <1>4, SerialWrite, SerialRollback DEF Commit
<1>5. ASSUME NEW w \in Workers, Abort(w) PROVE SerialInv'
  BY <1>0, <1>5, SerialRollback DEF Abort
<1>6. CASE UNCHANGED vars
  BY <1>6, <1>0 DEF vars, SerialInv, Agree, SamePolicy, Fresh, DocsAfter, TriggerAfter
<1> QED BY <1>1, <1>2, <1>3, <1>4, <1>5, <1>6 DEF Next

LEMMA SerialInvariant == ASSUME OneRequest PROVE Spec => []SerialInv
BY SerialInit, SerialStep, PTL DEF Spec

\* Requests one after another, for any number of platforms and groups: the
\* document of a platform and the rows of the groups always agree about who is
\* bound to whom, whatever LINE repeats or reorders and wherever a request
\* dies.  The assumption is needed: two overlapping binds bind one group twice.
THEOREM BindingsAgree == ASSUME OneRequest PROVE Spec => []BindingAgrees
<1>1. SerialInv => BindingAgrees
  BY DEF SerialInv, Agree, BindingAgrees
<1> QED BY <1>1, SerialInvariant, PTL

\* Requests one after another: the cluster policy in a platform's document is
\* the one on its trigger module, which update_configuration writes apart.
THEOREM PoliciesAgree == ASSUME OneRequest PROVE Spec => []PolicyAgrees
<1>1. SerialInv => PolicyAgrees
  BY DEF SerialInv, SamePolicy, PolicyAgrees
<1> QED BY <1>1, SerialInvariant, PTL
=============================================================================
