---------------------------- MODULE LineBinding ----------------------------
(***************************************************************************)
(* Which LINE group hears of which platform: the group rows, and the copy  *)
(* of the binding in the configuration document of the platform            *)
(* (app/services/line_service.py), together with the other writer of that  *)
(* document, update_configuration (app/services/platform_service.py).      *)
(*                                                                         *)
(* The document is one JSON column: whoever changes a key writes all of it *)
(* back as it was loaded.  LINE may deliver an event late, twice or in     *)
(* another order, so any event may arrive at any time; a body with several *)
(* events is several transactions, one after the other.  The webhook       *)
(* is a coroutine that never awaits once it has the body, so no two        *)
(* webhooks are in progress together; console requests have threads.       *)
(*                                                                         *)
(* Of the document only the keys with a rule are kept.  An UPDATE waits    *)
(* for the row lock and then overwrites, so a transaction takes effect as  *)
(* a whole when it commits.  The SELECTs a request makes after it has its  *)
(* platform are one step.  Deleting platforms (demonstration mode) is not  *)
(* modelled.                                                               *)
(***************************************************************************)
EXTENDS Naturals

CONSTANTS
  Platforms,
  Groups,     \* LINE groups the bot may be invited to
  Policies,   \* cluster policies an administrator may set
  DefaultPolicy,
  Null,       \* no group, no platform, nothing written
  Workers,    \* requests that may be in progress together
  MaxCodes,   \* bound: binding codes generated
  MaxAborts   \* bound: requests that die half way

ASSUME NullAssumption   == Null \notin Platforms \cup Groups \cup Policies
ASSUME PolicyAssumption == DefaultPolicy \in Policies
ASSUME BoundsAssumption == MaxCodes \in Nat /\ MaxAborts \in Nat

VARIABLES
  docs,      \* docs[p]: the committed platforms.configuration of p
  groups,    \* groups[g]: the committed line_groups row of g
  trigger,   \* trigger[p]: the committed configuration of p's two_report_trigger
  issued,    \* binding codes generated so far; a code is its number
  req,       \* req[w]: the transaction of worker w
  aborts     \* requests that died so far

vars == <<docs, groups, trigger, issued, req, aborts>>

-----------------------------------------------------------------------------
(* The shape of the data *)

NoCode == 0

Doc == [ group : Groups \cup { Null }, code : Nat, policy : Policies ]

ASSUME DocAssumption == Null \notin Doc

GroupRow == [ status : { "absent", "joined", "bound", "left" },
              platform : Platforms \cup { Null } ]

NewDoc == [ group |-> Null, code |-> NoCode, policy |-> DefaultPolicy ]
NoRow  == [ status |-> "absent", platform |-> Null ]

\* A transaction: the platform it is about and that document as loaded, the
\* group named in the request, and what the commit is to write: documents,
\* group rows (as loaded and as wanted), the trigger.
Transaction ==
  [ pc : { "idle", "loaded", "decided" },
    kind : { "none", "bind", "unbind", "code", "configure", "event" },
    hook : BOOLEAN,
    p : Platforms \cup { Null }, doc : Doc, g : Groups \cup { Null },
    newDocs : [Platforms -> Doc \cup { Null }],
    oldRows : [Groups -> GroupRow], newRows : [Groups -> GroupRow],
    newTrigger : Policies \cup { Null } ]

Idle ==
  [ pc |-> "idle", kind |-> "none", hook |-> FALSE,
    p |-> Null, doc |-> NewDoc, g |-> Null,
    newDocs |-> [p \in Platforms |-> Null],
    oldRows |-> [g \in Groups |-> NoRow], newRows |-> [g \in Groups |-> NoRow],
    newTrigger |-> Null ]

Init ==
  /\ docs = [p \in Platforms |-> NewDoc]
  /\ groups = [g \in Groups |-> NoRow]
  /\ trigger = [p \in Platforms |-> DefaultPolicy]
  /\ issued = 0
  /\ req = [w \in Workers |-> Idle]
  /\ aborts = 0

-----------------------------------------------------------------------------
(* A request arrives and loads its platform *)

Load(w, kind, hook, p, g) ==
  /\ req[w].pc = "idle"
  /\ req' = [req EXCEPT ![w] =
       [Idle EXCEPT !.pc = "loaded", !.kind = kind, !.hook = hook,
                    !.p = p, !.doc = docs[p], !.g = g]]
  /\ UNCHANGED <<docs, groups, trigger, issued, aborts>>

HookFree == \A v \in Workers : ~ req[v].hook

\* The text message "bind <code>" in a group: the platform with that code.
BindMessage(w, g) ==
  /\ HookFree
  /\ \E p \in Platforms : docs[p].code # NoCode /\ Load(w, "bind", TRUE, p, g)

Console(w) ==
  \E p \in Platforms :
    \/ \E g \in Groups : Load(w, "bind", FALSE, p, g)
    \/ \E kind \in { "unbind", "code", "configure" } : Load(w, kind, FALSE, p, Null)

-----------------------------------------------------------------------------
(* What a request makes of what it reads *)

Nothing == [p \in Platforms |-> Null]

\* Transaction r of worker w will write these documents, rows and trigger.
Decide(w, r, newDocs, newRows, newTrigger) ==
  /\ req' = [req EXCEPT ![w] =
       [r EXCEPT !.pc = "decided", !.newDocs = newDocs, !.newTrigger = newTrigger,
                 !.oldRows = groups, !.newRows = newRows]]
  /\ UNCHANGED <<docs, groups, trigger, aborts>>

\* The operators marked "slip" are mistakes a change to the next operator could
\* make; no action uses them.
Released_slip == [ status |-> "unbound", platform |-> Null ]

\* A row whose group notifies nobody any more but still has the bot.
Released == [ status |-> "joined", platform |-> Null ]

Unbound(doc) == [doc EXCEPT !.group = Null]

\* _set_config on platform p alone.
Only(p, doc) == [Nothing EXCEPT ![p] = doc]

RowsOfBind_slip(p, g) == [groups EXCEPT ![g] = [ status |-> "bound", platform |-> p ]]

\* The group is bound to p; the groups p had are released.
RowsOfBind(p, g) ==
  [h \in Groups |->
     IF h = g THEN [ status |-> "bound", platform |-> p ]
     ELSE IF groups[h].platform = p THEN Released
     ELSE groups[h]]

\* bind_group: the platform that had the group is told too, if its document
\* still says so.
Bind(w) ==
  LET r == req[w]
      previous == { q \in Platforms \ { r.p } :
                      groups[r.g].platform = q /\ docs[q].group = r.g }
  IN
  /\ r.pc = "loaded" /\ r.kind = "bind"
  /\ Decide(w, r,
       [q \in Platforms |->
          IF q = r.p THEN [r.doc EXCEPT !.group = r.g]
          ELSE IF q \in previous THEN Unbound(docs[q])
          ELSE Null],
       RowsOfBind(r.p, r.g), Null)
  /\ UNCHANGED issued

\* unbind: the document names the group whose row is released.
Unbind(w) ==
  LET r == req[w]
      g == r.doc.group
  IN
  /\ r.pc = "loaded" /\ r.kind = "unbind"
  /\ Decide(w, r, Only(r.p, Unbound(r.doc)),
            [h \in Groups |-> IF h = g /\ groups[h].status # "absent" THEN Released
                              ELSE groups[h]],
            Null)
  /\ UNCHANGED issued

\* bind_code: reading the settings makes a code where there is none; the
\* administrator may ask for another one.
BindCode(w, regenerate) ==
  LET r == req[w] IN
  /\ r.pc = "loaded" /\ r.kind = "code"
  /\ r.doc.code = NoCode \/ regenerate
  /\ issued < MaxCodes
  /\ issued' = issued + 1
  /\ Decide(w, r, Only(r.p, [r.doc EXCEPT !.code = issued + 1]), groups, Null)

TriggerOf_slip(p, policy) == Null

\* The trigger's row gets the policy if it has another.
TriggerOf(p, policy) == IF policy = trigger[p] THEN Null ELSE policy

\* update_configuration: a cluster policy (Null: none), other keys, or both.
\* The document is written if any of it changed.  The other keys are free-form:
\* that they are none of those kept here is assumed of the caller.
Configure(w, policy, others) ==
  LET r   == req[w]
      doc == IF policy = Null THEN r.doc ELSE [r.doc EXCEPT !.policy = policy]
  IN
  /\ r.pc = "loaded" /\ r.kind = "configure"
  /\ Decide(w, r, IF others \/ doc # r.doc THEN Only(r.p, doc) ELSE Nothing,
            groups, TriggerOf(r.p, policy))
  /\ UNCHANGED issued

\* The request is refused (a malformed group id, an invalid setting) or has
\* nothing to write (the code is there; no further code within the bound).
Refuse(w) ==
  /\ req[w].pc = "loaded" /\ req[w].kind # "unbind"
  /\ req[w].kind = "code" => req[w].doc.code # NoCode \/ issued = MaxCodes
  /\ req' = [req EXCEPT ![w] = Idle]
  /\ UNCHANGED <<docs, groups, trigger, issued, aborts>>

\* The bot was invited to a group, or LINE says so again.
Join(w, g) ==
  /\ req[w].pc = "idle" /\ HookFree
  /\ Decide(w, [Idle EXCEPT !.hook = TRUE], Nothing,
       [groups EXCEPT ![g].status = IF @ \in { "absent", "left" } THEN "joined" ELSE @],
       Null)
  /\ UNCHANGED issued

\* The bot was removed from a group it had a row for: the binding goes too.
LeaveGroup(w, g) ==
  /\ req[w].pc = "idle" /\ HookFree
  /\ groups[g].status # "absent"
  /\ Decide(w, [Idle EXCEPT !.hook = TRUE],
       [q \in Platforms |->
          IF groups[g].platform = q /\ docs[q].group = g THEN Unbound(docs[q]) ELSE Null],
       [groups EXCEPT ![g] = [ status |-> "left", platform |-> Null ]],
       Null)
  /\ UNCHANGED issued

-----------------------------------------------------------------------------
(* The end of a transaction *)

Col(old, new, cur) == IF new # old THEN new ELSE cur

\* line_groups.group_id is unique: of two requests that insert the row of one
\* group the second fails.
Clash(r) ==
  \E g \in Groups : /\ r.oldRows[g].status = "absent" /\ r.newRows[g].status # "absent"
                    /\ groups[g].status # "absent"

Rollback(w) ==
  /\ req' = [req EXCEPT ![w] = Idle]
  /\ UNCHANGED <<docs, groups, trigger, issued>>

Write(w) ==
  LET r == req[w] IN
  /\ docs' = [p \in Platforms |-> IF r.newDocs[p] = Null THEN docs[p] ELSE r.newDocs[p]]
  /\ groups' = [g \in Groups |->
       [ status   |-> Col(r.oldRows[g].status, r.newRows[g].status, groups[g].status),
         platform |-> Col(r.oldRows[g].platform, r.newRows[g].platform,
                          groups[g].platform) ]]
  /\ trigger' = IF r.newTrigger = Null THEN trigger
                ELSE [trigger EXCEPT ![r.p] = r.newTrigger]
  /\ req' = [req EXCEPT ![w] = Idle]
  /\ UNCHANGED issued

Commit(w) ==
  /\ req[w].pc = "decided"
  /\ IF Clash(req[w]) THEN Rollback(w) ELSE Write(w)
  /\ UNCHANGED aborts

\* The process or its connection dies.
Abort(w) ==
  /\ req[w].pc # "idle"
  /\ aborts < MaxAborts
  /\ aborts' = aborts + 1
  /\ Rollback(w)

-----------------------------------------------------------------------------
(* The specification *)

Handle(w) ==
  \/ Bind(w) \/ Unbind(w) \/ Refuse(w)
  \/ \E regenerate \in BOOLEAN : BindCode(w, regenerate)
  \/ \E policy \in Policies \cup { Null }, others \in BOOLEAN : Configure(w, policy, others)

Webhook(w) == \E g \in Groups : BindMessage(w, g) \/ Join(w, g) \/ LeaveGroup(w, g)

Next == \E w \in Workers :
  Console(w) \/ Webhook(w) \/ Handle(w) \/ Commit(w) \/ Abort(w)

Spec == Init /\ [][Next]_vars

-----------------------------------------------------------------------------
(* What holds *)

\* Every variable has its type (the columns of db/models.py).
TypeOK ==
  /\ docs \in [Platforms -> Doc]
  /\ groups \in [Groups -> GroupRow]
  /\ trigger \in [Platforms -> Policies]
  /\ issued \in Nat /\ aborts \in Nat
  /\ req \in [Workers -> Transaction]

\* When requests do not overlap, the two places that say who is bound to whom
\* agree, whatever LINE delivers twice, late or out of order and wherever a
\* request dies: a platform's document names a group exactly when that group's
\* row names the platform, and exactly such rows are marked bound.
BindingAgrees ==
  \A g \in Groups :
    /\ \A p \in Platforms : docs[p].group = g <=> groups[g].platform = p
    /\ groups[g].status = "bound" <=> groups[g].platform # Null

\* When requests do not overlap, the policy reports are clustered by (in the
\* document) is the one shown on the trigger module (in its own row).
PolicyAgrees == \A p \in Platforms : trigger[p] = docs[p].policy
=============================================================================
