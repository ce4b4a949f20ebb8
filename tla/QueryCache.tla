---------------------------- MODULE QueryCache ----------------------------
(***************************************************************************)
(* The query cache of the web console: which queries an operation          *)
(* invalidates (hooks/*.ts, lib/queryClient.ts) and what the server reads  *)
(* to answer them.  Queries are independent of each other, so a behaviour  *)
(* watches one of them, chosen at the start.                               *)
(*                                                                         *)
(* The cache itself is @tanstack/react-query 5, outside the repository: it *)
(* is modelled from how the hooks use it.  An invalidation marks a query;  *)
(* a mounted one that has data cancels its fetch and starts another; a     *)
(* first fetch, and the fetch of an unmounted query, run on and their      *)
(* answer clears the mark.                                                 *)
(***************************************************************************)
EXTENDS Naturals, Sequences

CONSTANTS
    None,
    MaxWrites,    \* bound: operations of this tab
    MaxForeign,   \* bound: writes of other users and of the server
    MaxMounts,    \* bound: times the query is mounted
    MaxFailures   \* bound: failed calls

VARIABLES
    watched,  \* the query key
    truth,    \* version of what the query reads
    data,     \* the version cached
    marked,   \* isInvalidated
    aged,     \* staleTime has passed
    failed,   \* the last fetch failed
    mounted,
    fetch,    \* the running fetch: what it read, and whether an invalidation left it running
    overtaken,\* the data came from such a fetch
    calls,    \* mutations: the operation, its stage, the version it wrote
    own,      \* the newest version this tab was told it wrote
    used      \* how often each bounded event happened

cacheVars == <<watched, truth, data, marked, aged, failed, mounted, fetch, overtaken, calls, own, used>>

-----------------------------------------------------------------------------
(* What the server reads to answer a query. *)

Query(keys, reads) == [keys |-> keys, reads |-> reads]

Queries == {
    Query({"agents", "todos", "todo"}, {"agents", "todos", "models"}),
    Query({"model-registry", "report-models"}, {"models"}),
    Query({"schedules"}, {"schedules"}),
    Query({"schedule-occurrences"}, {"schedules", "skips"}),
    Query({"reports", "report-history"}, {"reports"}),
    Query({"vault"}, {"pages"}),
    Query({"wiki-latest-audit"}, {"audits", "suggestions"}),
    Query({"wiki-open-audit-counts"}, {"suggestions"}),
    Query({"sources"}, {"sources", "texts", "tags"}),
    Query({"source-tags", "source-tag-counts"}, {"tags"}),
    Query({"source-extracted", "source-history"}, {"texts"}),
    Query({"workspaces"}, {"workspaces"}),
    Query({"projects"}, {"projects"}),
    Query({"workspaces-overview"}, {"workspaces", "projects", "members"}),
    Query({"workspace-members"}, {"members"}),
    Query({"user-directory"}, {"members", "grants"}),
    Query({"user-access"}, {"workspaces", "projects", "roles", "members", "grants", "groups"}),
    Query({"vault-access"}, {"members", "grants"}),
    Query({"guests"}, {"projects", "members", "grants", "invites"}),
    Query({"users"}, {"users", "roles", "invites"}),
    Query({"groups"}, {"groups"}),
    Query({"org-graph"}, {"workspaces", "projects", "users", "roles", "members", "grants", "groups", "invites"}),
    Query({"me"}, {"me"}),
    Query({"notifications"}, {"notifications"}),
    Query({"persona"}, {"persona"}) }

Keys == UNION {q.keys : q \in Queries}
Reads(k) == UNION {q.reads : q \in {r \in Queries : k \in r.keys}}

\* refetchInterval: four seconds, a second and a half for a running todo.
Polled == {"agents", "todos", "todo", "model-registry"}

-----------------------------------------------------------------------------
(* What each operation writes and which keys its onSuccess invalidates. *)

Ops(names, writes, keys) == [names |-> names, writes |-> writes, invalidates |-> keys]

AgentOps == {
    Ops({"agents:create", "agents:update", "agents:delete"}, {"agents", "todos"}, {"agents", "todos"}),
    Ops({"todos:create", "todos:set_priority", "todos:delete"}, {"todos"}, {"agents", "todos"}),
    Ops({"todos:stop", "todos:continue"}, {"todos"}, {"agents", "todos", "todo"}) }

ModelOps == {
    Ops({"models:create", "models:update", "models:delete", "models:pause", "models:resume"},
        {"models"}, {"model-registry", "report-models"}) }

\* Mutant: the hooks of the schedules invalidate the list only.
ScheduleOpsListOnly == {
    Ops({"schedules:set_enabled", "schedules:delete", "schedules:update"}, {"schedules"}, {"schedules"}),
    Ops({"schedules:skip", "schedules:unskip"}, {"skips"}, {"schedules"}) }

ScheduleOps == {
    Ops({"schedules:set_enabled", "schedules:delete", "schedules:update"},
        {"schedules"}, {"schedules", "schedule-occurrences"}),
    Ops({"schedules:skip", "schedules:unskip"}, {"skips"}, {"schedules", "schedule-occurrences"}) }

ReportOps == {
    Ops({"reports:generate"}, {"reports"}, {"reports", "report-history"}),
    Ops({"schedules:create"}, {"schedules"}, {"reports", "schedules"}) }

VaultOps == {
    Ops({"vault:write_page", "vault:revert"}, {"pages"}, {"vault"}),
    Ops({"wiki:audit"}, {"audits"}, {}),
    Ops({"wiki:accept_suggestion"}, {"pages", "suggestions"}, {"vault"}),
    Ops({"wiki:dismiss_suggestion"}, {"suggestions"}, {}) }

SourceOps == {
    Ops({"sources:put_extracted"}, {"texts"}, {"source-extracted", "source-history"}),
    Ops({"sources:restore_extraction", "sources:reingest"}, {"texts"},
        {"sources", "source-extracted", "source-history"}),
    Ops({"sources:delete"}, {"sources", "tags"}, {"sources", "source-extracted", "source-history"}) }

TagOps == {
    Ops({"sources:tag", "sources:untag", "sources:tags:rename", "sources:tags:delete"}, {"tags"},
        {"sources", "source-extracted", "source-history", "source-tags", "source-tag-counts"}) }

IngestOps == {
    Ops({"from_url", "from_text"}, {"sources"}, {"sources", "source-extracted", "source-history"}),
    Ops({"upload"}, {"sources", "tags"}, {"sources", "source-extracted", "source-history", "source-tags"}) }

Overview == {"workspaces-overview", "workspaces", "projects"}
WorkspaceOps == {
    Ops({"workspaces:create"}, {"workspaces", "members"}, Overview),
    Ops({"workspaces:update", "workspaces:archive", "workspaces:delete"}, {"workspaces"}, Overview),
    Ops({"projects:move", "projects:set_mode", "projects:rename", "projects:archive", "create_project"},
        {"projects"}, Overview) }

MemberKeys == {"workspace-members", "user-access", "workspaces-overview", "org-graph"}
MemberOps == {
    Ops({"workspace_members:add", "workspace_members:remove"}, {"members"}, MemberKeys \cup {"user-directory"}),
    Ops({"workspace_members:set_role"}, {"members"}, MemberKeys) }

AccessOps == {
    Ops({"vault_access:add_guest", "vault_access:set_guest_role", "vault_access:remove_guest"},
        {"grants"}, {"vault-access", "guests", "org-graph"}) }

GuestOps == { Ops({"guests:invite"}, {"users", "grants", "invites"}, {"guests", "users", "org-graph"}) }

PeopleOps == {
    Ops({"create_user"}, {"users", "members"}, {"users", "org-graph"}),
    Ops({"set_user_role"}, {"roles"}, {"users", "org-graph"}),
    Ops({"transfer_ownership"}, {"roles", "me"}, {"users", "me", "org-graph"}),
    Ops({"users:invite"}, {"users", "members", "invites"}, {"users", "user-access", "workspaces-overview", "org-graph"}),
    Ops({"users:resend_invite"}, {"invites"}, {"users"}),
    Ops({"users:revoke_invite"}, {"invites"}, {"users", "org-graph"}) }

GroupOps == {
    Ops({"groups:create", "groups:rename", "groups:delete", "groups:add_member", "groups:remove_member",
         "groups:set_workspace_role", "groups:remove_workspace_role", "groups:set_vault_role",
         "groups:remove_vault_role"}, {"groups"}, {"groups", "user-access", "org-graph"}) }

OwnOps == {
    Ops({"update_profile"}, {"me", "users"}, {"me"}),
    Ops({"persona:set"}, {"persona"}, {"persona"}),
    Ops({"notifications:mark_read", "notifications:mark_all_read"}, {"notifications"}, {"notifications"}) }

Operations == AgentOps \cup ModelOps \cup ScheduleOps \cup ReportOps \cup VaultOps \cup SourceOps \cup TagOps
              \cup IngestOps \cup WorkspaceOps \cup MemberOps \cup AccessOps \cup GuestOps \cup PeopleOps
              \cup GroupOps \cup OwnOps

\* The operations that change what the watched query reads.
Mutations == LET read == Reads(watched) IN {o \in Operations : o.writes \cap read # {}}
Refreshes(o) == watched \in o.invalidates

\* Operations whose effect on a query the hooks leave to its next fetch.
LeftStale ==
    LET vaults == UNION {o.names : o \in {p \in WorkspaceOps : p.writes = {"projects"}}}
        boards == UNION {o.names : o \in WorkspaceOps}
        members == UNION {o.names : o \in MemberOps}
        guests == UNION {o.names : o \in AccessOps \cup GuestOps}
        joining == {"workspaces:create", "create_user", "users:invite"}
        models == UNION {o.names : o \in ModelOps}
        polled == UNION {o.names : o \in {p \in AgentOps : "todo" \notin p.invalidates}}
        suggestions == {"wiki:accept_suggestion", "wiki:dismiss_suggestion"}
    IN models \X {"agents", "todos", "todo"}
       \cup polled \X {"todo"}
       \cup {"schedules:create"} \X {"schedule-occurrences"}
       \cup (suggestions \cup {"wiki:audit"}) \X {"wiki-latest-audit"}
       \cup suggestions \X {"wiki-open-audit-counts"}
       \cup {"sources:put_extracted"} \X {"sources"}
       \cup {"sources:delete"} \X {"source-tags", "source-tag-counts"}
       \cup {"upload"} \X {"source-tag-counts"}
       \cup {"create_user"} \X {"workspaces-overview"}
       \cup joining \X {"workspace-members", "vault-access", "user-directory", "guests"}
       \cup (guests \cup {"workspace_members:set_role"}) \X {"user-directory"}
       \cup (boards \cup guests \cup {"create_user", "set_user_role", "transfer_ownership"}) \X {"user-access"}
       \cup (members \cup {"guests:invite"}) \X {"vault-access"}
       \cup (vaults \cup members \cup {"users:resend_invite", "users:revoke_invite"}) \X {"guests"}
       \cup {"update_profile"} \X {"users", "org-graph"}
       \cup (boards \cup {"users:resend_invite"}) \X {"org-graph"}

-----------------------------------------------------------------------------
NewFetch == [read |-> None, missed |-> FALSE]

CacheInit ==
    /\ watched \in Keys
    /\ truth = 0 /\ own = 0
    /\ data = None /\ marked = FALSE /\ aged = FALSE /\ failed = FALSE
    /\ mounted = FALSE /\ fetch = None /\ overtaken = FALSE
    /\ calls = <<>>
    /\ used = [foreign |-> 0, mounts |-> 0, failures |-> 0]

\* A component that uses the query appears; fresh data is shown as it is.
Mount ==
    /\ ~mounted /\ used.mounts < MaxMounts
    /\ mounted' = TRUE
    /\ used' = [used EXCEPT !.mounts = @ + 1]
    /\ fetch' = IF fetch = None /\ (data = None \/ marked \/ aged) THEN NewFetch ELSE fetch
    /\ UNCHANGED <<watched, truth, data, marked, aged, failed, overtaken, calls, own>>

\* The last such component is gone; a running fetch goes on.
Unmount ==
    /\ mounted /\ mounted' = FALSE
    /\ UNCHANGED <<watched, truth, data, marked, aged, failed, fetch, overtaken, calls, own, used>>

\* Thirty seconds, the staleTime of lib/queryClient.ts, have passed since the last answer.
Age ==
    /\ data # None /\ ~aged /\ aged' = TRUE
    /\ UNCHANGED <<watched, truth, data, marked, failed, mounted, fetch, overtaken, calls, own, used>>

\* An unused query leaves the cache.
Collect ==
    /\ ~mounted /\ fetch = None /\ (data # None \/ failed)
    /\ data' = None /\ marked' = FALSE /\ aged' = FALSE /\ failed' = FALSE /\ overtaken' = FALSE
    /\ UNCHANGED <<watched, truth, mounted, fetch, calls, own, used>>

\* The refetchInterval of a polled query.
Poll ==
    /\ watched \in Polled
    /\ mounted /\ fetch = None /\ fetch' = NewFetch
    /\ UNCHANGED <<watched, truth, data, marked, aged, failed, mounted, overtaken, calls, own, used>>

FetchServed ==
    /\ fetch # None /\ fetch.read = None
    /\ fetch' = [fetch EXCEPT !.read = truth]
    /\ UNCHANGED <<watched, truth, data, marked, aged, failed, mounted, overtaken, calls, own, used>>

FetchReturns ==
    /\ fetch # None /\ fetch.read # None
    /\ data' = fetch.read /\ overtaken' = fetch.missed
    /\ marked' = FALSE /\ aged' = FALSE /\ failed' = FALSE
    /\ fetch' = None
    /\ UNCHANGED <<watched, truth, mounted, calls, own, used>>

\* The call and its one retry failed.
FetchFails ==
    /\ fetch # None /\ used.failures < MaxFailures
    /\ used' = [used EXCEPT !.failures = @ + 1]
    /\ failed' = TRUE /\ marked' = TRUE /\ fetch' = None
    /\ UNCHANGED <<watched, truth, data, aged, mounted, overtaken, calls, own>>

\* Another user, or a worker of the server, writes what the query reads.
Foreign ==
    /\ used.foreign < MaxForeign
    /\ used' = [used EXCEPT !.foreign = @ + 1]
    /\ truth' = truth + 1
    /\ UNCHANGED <<watched, data, marked, aged, failed, mounted, fetch, overtaken, calls, own>>

-----------------------------------------------------------------------------
(* An operation of this tab. *)

Mutate ==
    /\ Len(calls) < MaxWrites
    /\ \E o \in Mutations : \E n \in o.names :
          calls' = Append(calls, [stage |-> "sent", wrote |-> 0, refreshes |-> Refreshes(o),
                                  promised |-> <<n, watched>> \notin LeftStale])
    /\ UNCHANGED <<watched, truth, data, marked, aged, failed, mounted, fetch, overtaken, own, used>>

MutateServed(i) ==
    /\ calls[i].stage = "sent"
    /\ truth' = truth + 1
    /\ calls' = [calls EXCEPT ![i] = [@ EXCEPT !.stage = "written", !.wrote = truth + 1]]
    /\ UNCHANGED <<watched, data, marked, aged, failed, mounted, fetch, overtaken, own, used>>

\* Mutant: a running fetch is always kept.
InvalidateJoins ==
    /\ marked' = (marked \/ data # None \/ fetch # None \/ failed)
    /\ fetch' = IF mounted /\ fetch = None THEN NewFetch ELSE fetch

\* invalidateQueries: only a mounted query with data gives up the fetch it has.
Invalidate ==
    /\ marked' = (marked \/ data # None \/ fetch # None \/ failed)
    /\ fetch' = IF fetch # None /\ (data = None \/ ~mounted) THEN [fetch EXCEPT !.missed = TRUE]
                ELSE IF mounted THEN NewFetch
                ELSE fetch

MutateReturns(i) ==
    /\ calls[i].stage = "written"
    /\ calls' = [calls EXCEPT ![i] = [@ EXCEPT !.stage = "done", !.wrote = 0]]
    /\ own' = IF calls[i].promised /\ calls[i].wrote > own THEN calls[i].wrote ELSE own
    /\ IF calls[i].refreshes THEN Invalidate ELSE UNCHANGED <<marked, fetch>>
    /\ UNCHANGED <<watched, truth, data, aged, failed, mounted, overtaken, used>>

\* The answer is an error or is lost: no onSuccess, whatever was written.
MutateFails(i) ==
    /\ calls[i].stage \in {"sent", "written"} /\ used.failures < MaxFailures
    /\ used' = [used EXCEPT !.failures = @ + 1]
    /\ calls' = [calls EXCEPT ![i] = [@ EXCEPT !.stage = "done", !.wrote = 0]]
    /\ UNCHANGED <<watched, truth, data, marked, aged, failed, mounted, fetch, overtaken, own>>

CacheNext ==
    \/ Mount \/ Unmount \/ Age \/ Collect \/ Poll
    \/ FetchServed \/ FetchReturns \/ FetchFails \/ Foreign
    \/ Mutate
    \/ \E i \in DOMAIN calls : MutateServed(i) \/ MutateReturns(i) \/ MutateFails(i)

CacheSpec == CacheInit /\ [][CacheNext]_cacheVars

-----------------------------------------------------------------------------
(* Properties. *)

\* "... so those surfaces reflect the change immediately" (useWorkspaces.ts:52), of every
\* hook: once an operation of the tab succeeded, a mounted query that reads what it wrote
\* and is not listed in LeftStale shows the write when no fetch is running, unless its
\* last fetch failed or was one an invalidation could not replace.
OwnWritesShown ==
    mounted /\ fetch = None /\ ~failed /\ ~overtaken => data # None /\ data >= own
==========================================================================
