--------------------------- MODULE ModelsSettings ---------------------------
(***************************************************************************)
(* The registered models (pages/Settings/sections/ModelsSection.tsx and    *)
(* modelsLogic.ts over hooks/useModels.ts): one form, four locks, the      *)
(* test results under the rows, and API keys that leave the form when a    *)
(* save is sent.  A version of a model stands for everything a test        *)
(* depends on; a key is a number, 0 for none typed.  The locks of          *)
(* deletions and of status changes are one here: the buttons of all rows   *)
(* are disabled while either call is pending.  A call may be served and    *)
(* its answer lost; what the server still does after a loss is a change by *)
(* another.                                                                *)
(***************************************************************************)
EXTENDS Naturals, FiniteSets

CONSTANTS
    Models, None,
    MaxVersions,   \* bound: changes of models, by all
    MaxOpens,      \* bound: forms opened
    MaxKey         \* bound: the keys typed are 1..MaxKey

VARIABLES
    registry,      \* the server: [Models -> [version: 0 for no row, key, paused]]
    rows,          \* the polled list: the same
    formMode,      \* None, "create" or the model edited
    formKey,       \* the key field
    typedKey,      \* history: the last key typed into this form
    saveLock, testLock, rowLock,   \* the refs; deletions and status changes share the last
    save, test, rowCall,           \* the calls under way, or None
    testResults,   \* [Models -> version tested, 0 for no result]
    ownVersion,    \* history: the version this page's last answered save or status change left
    changes, opens

modelVars == <<registry, rows, formMode, formKey, typedKey, saveLock, testLock, rowLock,
               save, test, rowCall, testResults, ownVersion, changes, opens>>

Row(v, k, p) == [version |-> v, key |-> k, paused |-> p]
Absent == Row(0, 0, FALSE)
Removed == Row(0, 1, FALSE)      \* an id is not used again
Registered(list) == {m \in Models : list[m].version > 0}

ModelsInit ==
    /\ registry \in [Models -> {Absent, Row(1, 1, FALSE)}] /\ rows = registry
    /\ formMode = None /\ formKey = 0 /\ typedKey = 0
    /\ saveLock = FALSE /\ testLock = FALSE /\ rowLock = FALSE
    /\ save = None /\ test = None /\ rowCall = None
    /\ testResults = [m \in Models |-> 0] /\ ownVersion = [m \in Models |-> 0]
    /\ changes = 0 /\ opens = 0

Form == <<formMode, formKey, typedKey>>
Saving == <<saveLock, save>>
Testing == <<testLock, test>>
RowCalling == <<rowLock, rowCall>>

\* What the pending flags show: reset() forgets a save, its lock does not.
IsSaving == save # None /\ save.observed
MutationPending == IsSaving \/ test # None \/ rowCall # None

\* A bug: the row's buttons mind only the form.
RowActionsDisabledByForm(m) == formMode = "create" \/ formMode = m

RowActionsDisabled(m) == MutationPending \/ formMode = "create" \/ formMode = m

InRow(m) == m \in Registered(rows) /\ ~RowActionsDisabled(m)

CloseForm == formMode' = None /\ formKey' = 0 /\ typedKey' = 0

-----------------------------------------------------------------------------
(* The form *)

OpenCreate ==
    /\ formMode = None /\ opens < MaxOpens
    /\ formMode' = "create" /\ formKey' = 0 /\ typedKey' = 0
    /\ save' = IF save = None THEN None ELSE [save EXCEPT !.observed = FALSE]
    /\ opens' = opens + 1
    /\ UNCHANGED <<registry, rows, saveLock, Testing, RowCalling, testResults, ownVersion, changes>>

OpenEdit(m) ==
    /\ InRow(m) /\ opens < MaxOpens
    /\ formMode' = m /\ formKey' = 0 /\ typedKey' = 0
    /\ save' = IF save = None THEN None ELSE [save EXCEPT !.observed = FALSE]
    /\ testResults' = [testResults EXCEPT ![m] = 0]
    /\ opens' = opens + 1
    /\ UNCHANGED <<registry, rows, saveLock, Testing, RowCalling, ownVersion, changes>>

\* The fields are disabled while a save is under way.
TypeKey(k) ==
    /\ formMode # None /\ ~IsSaving /\ k # formKey
    /\ formKey' = k /\ typedKey' = k
    /\ save' = IF save = None THEN None ELSE [save EXCEPT !.observed = FALSE]
    /\ UNCHANGED <<registry, rows, formMode, saveLock, Testing, RowCalling, testResults, ownVersion, changes, opens>>

Cancel ==
    /\ formMode # None /\ ~IsSaving
    /\ CloseForm
    /\ save' = IF save = None THEN None ELSE [save EXCEPT !.observed = FALSE]
    /\ UNCHANGED <<registry, rows, saveLock, Testing, RowCalling, testResults, ownVersion, changes, opens>>

\* A new cloud model needs a key, and so does one that has none; an edit without one keeps
\* what is stored.
KeyValid == formKey = 0 => formMode # "create" /\ rows[formMode].key # 0

\* The key leaves the form with the call.
Save ==
    /\ formMode # None /\ ~IsSaving /\ KeyValid
    /\ ~saveLock
    /\ saveLock' = TRUE
    /\ save' = [model |-> formMode, key |-> formKey, at |-> "asked", observed |-> TRUE, version |-> 0]
    /\ formKey' = 0
    /\ UNCHANGED <<registry, rows, formMode, typedKey, Testing, RowCalling, testResults, ownVersion, changes, opens>>

SaveServed ==
    /\ save # None /\ save.at = "asked"
    /\ \E m \in Models :
        /\ IF save.model = "create" THEN registry[m] = Absent
           ELSE m = save.model /\ m \in Registered(registry)
        /\ changes < MaxVersions /\ changes' = changes + 1
        /\ registry' = [registry EXCEPT ![m].version = @ + 1,
                                        ![m].key = IF save.key = 0 THEN @ ELSE save.key]
        /\ save' = [save EXCEPT !.at = "saved", !.model = IF @ = "create" THEN "create" ELSE m,
                                !.version = registry'[m].version]
    /\ UNCHANGED <<rows, Form, saveLock, Testing, RowCalling, testResults, ownVersion, opens>>

\* The handlers of a call run for an observed call alone, and onSettled, which releases
\* the lock, is one of them.
SaveReturns ==
    /\ save # None /\ save.at = "saved"
    /\ save' = None
    /\ IF save.observed
       THEN /\ saveLock' = FALSE /\ CloseForm
            /\ testResults' = IF save.model = "create" THEN testResults
                              ELSE [testResults EXCEPT ![save.model] = 0]
            /\ ownVersion' = IF save.model = "create" THEN ownVersion
                             ELSE [ownVersion EXCEPT ![save.model] = save.version]
       ELSE UNCHANGED <<saveLock, Form, testResults, ownVersion>>
    /\ UNCHANGED <<registry, rows, Testing, RowCalling, changes, opens>>

\* Refused, or unheard of, stored or not: the form stays, without the key, and so do the
\* test results.
SaveFails ==
    /\ save # None
    /\ save' = None
    /\ saveLock' = (IF save.observed THEN FALSE ELSE saveLock)
    /\ UNCHANGED <<registry, rows, Form, Testing, RowCalling, testResults, ownVersion, changes, opens>>

\* The list is polled, and asked again after an answer.  A form whose model is gone closes,
\* and closing resets the save it may have sent.
RowsPolled ==
    /\ rows' = registry
    /\ IF formMode \in Models /\ formMode \notin Registered(registry)
       THEN /\ CloseForm
            /\ save' = IF save = None THEN None ELSE [save EXCEPT !.observed = FALSE]
       ELSE UNCHANGED <<Form, save>>
    /\ UNCHANGED <<registry, saveLock, Testing, RowCalling, testResults, ownVersion, changes, opens>>

-----------------------------------------------------------------------------
(* The rows *)

RunTest(m) ==
    /\ InRow(m) /\ ~testLock
    /\ testLock' = TRUE
    /\ test' = [model |-> m, at |-> "asked", version |-> 0]
    /\ testResults' = [testResults EXCEPT ![m] = 0]
    /\ UNCHANGED <<registry, rows, Form, Saving, RowCalling, ownVersion, changes, opens>>

\* The server asks the provider under the configuration it reads.
TestServed ==
    /\ test # None /\ test.at = "asked" /\ test.model \in Registered(registry)
    /\ test' = [test EXCEPT !.at = "tested", !.version = registry[test.model].version]
    /\ UNCHANGED <<registry, rows, Form, Saving, testLock, RowCalling, testResults, ownVersion, changes, opens>>

TestReturns ==
    /\ test # None /\ test.at = "tested"
    /\ testResults' = [testResults EXCEPT ![test.model] = test.version]
    /\ testLock' = FALSE /\ test' = None
    /\ UNCHANGED <<registry, rows, Form, Saving, RowCalling, ownVersion, changes, opens>>

\* A failed call is shown as a result too, of no version in particular.
TestFails ==
    /\ test # None
    /\ testLock' = FALSE /\ test' = None
    /\ UNCHANGED <<registry, rows, Form, Saving, RowCalling, testResults, ownVersion, changes, opens>>

\* Remove, and pause or resume as the row's status says.
RowAction(m, op) ==
    /\ InRow(m) /\ ~rowLock
    /\ op = (IF op = "delete" THEN "delete" ELSE IF rows[m].paused THEN "resume" ELSE "pause")
    /\ rowLock' = TRUE
    /\ rowCall' = [model |-> m, op |-> op, at |-> "asked", version |-> 0]
    /\ UNCHANGED <<registry, rows, Form, Saving, Testing, testResults, ownVersion, changes, opens>>

RowActionServed ==
    /\ rowCall # None /\ rowCall.at = "asked" /\ rowCall.model \in Registered(registry)
    /\ changes < MaxVersions /\ changes' = changes + 1
    /\ LET m == rowCall.model IN
       /\ registry' = [registry EXCEPT ![m] =
              IF rowCall.op = "delete" THEN Removed
              ELSE Row(registry[m].version + 1, registry[m].key, rowCall.op = "pause")]
       /\ rowCall' = [rowCall EXCEPT !.at = "served", !.version = registry'[m].version]
    /\ UNCHANGED <<rows, Form, Saving, Testing, rowLock, testResults, ownVersion, opens>>

RowActionReturns ==
    /\ rowCall # None /\ rowCall.at = "served"
    /\ rowLock' = FALSE /\ rowCall' = None
    /\ IF rowCall.op = "delete" THEN UNCHANGED <<testResults, ownVersion>>
       ELSE /\ testResults' = [testResults EXCEPT ![rowCall.model] = 0]
            /\ ownVersion' = [ownVersion EXCEPT ![rowCall.model] = rowCall.version]
    /\ UNCHANGED <<registry, rows, Form, Saving, Testing, changes, opens>>

\* Refused, or unheard of: the row shows an error; the results stay.
RowActionFails ==
    /\ rowCall # None
    /\ rowLock' = FALSE /\ rowCall' = None
    /\ UNCHANGED <<registry, rows, Form, Saving, Testing, testResults, ownVersion, changes, opens>>

\* Another administrator changes or removes a model.
ModelForeignStep(m) ==
    /\ m \in Registered(registry) /\ changes < MaxVersions /\ changes' = changes + 1
    /\ \E r \in {Removed, Row(registry[m].version + 1, registry[m].key, ~registry[m].paused)} :
           registry' = [registry EXCEPT ![m] = r]
    /\ UNCHANGED <<rows, Form, Saving, Testing, RowCalling, testResults, ownVersion, opens>>

ModelsNext ==
    \/ OpenCreate \/ Cancel \/ Save \/ SaveServed \/ SaveReturns \/ SaveFails \/ RowsPolled
    \/ \E k \in 0..MaxKey : TypeKey(k)
    \/ \E m \in Models : OpenEdit(m) \/ RunTest(m) \/ ModelForeignStep(m)
    \/ \E m \in Models, op \in {"delete", "pause", "resume"} : RowAction(m, op)
    \/ TestServed \/ TestReturns \/ TestFails \/ RowActionServed \/ RowActionReturns \/ RowActionFails

ModelsSpec == ModelsInit /\ [][ModelsNext]_modelVars

-----------------------------------------------------------------------------
(* Properties *)

\* A test result on the page is not older than the page's own last answered change of the
\* model: no answer of a test that ran under the former key, endpoint or status comes after it.
ResultNotOutlived ==
    \A m \in Models : testResults[m] # 0 => testResults[m] >= ownVersion[m]

\* Each lock admits one call, and a call under way holds its lock: a second save, test or
\* row action never overtakes the first.
CallsHoldLocks ==
    /\ save # None => saveLock
    /\ test # None <=> testLock
    /\ rowCall # None <=> rowLock

\* The key is in the form only until it is sent.
SentKeyLeavesForm == IsSaving => formKey = 0

ModelsSafe == ResultNotOutlived /\ CallsHoldLocks /\ SentKeyLeavesForm

\* A held save lock has a call that will release it.  It does not after the model of the
\* form is removed by another while the save is out: nothing is ever saved again.
SaveLockReleased == saveLock => (save # None /\ save.observed)

\* A save that succeeds stores the key last typed.  After a failure it stores none.
TypedKeyStored ==
    [][\A m \in Models :
          (save # None /\ save.at = "saved" /\ save.observed /\ save.model = m /\ save' = None
              /\ typedKey # 0 /\ m \in Registered(registry))
          => registry[m].key = typedKey]_modelVars

=============================================================================
