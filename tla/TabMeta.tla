------------------------------- MODULE TabMeta ------------------------------
(***************************************************************************)
(* The metadata of terminal tabs in Redis (webui/tabmeta/store.go) and its *)
(* HTTP handlers (webui/handlers_terminal_tabs.go).  Each session has a    *)
(* hash; every Redis command is a step of its own, and nothing makes the   *)
(* commands of one request a transaction.  Of a hash's fields the model    *)
(* keeps the label, the sort order and whether created_at is there; notes  *)
(* are written and lost exactly as the label is.                           *)
(***************************************************************************)
EXTENDS Integers, FiniteSets, FiniteSetsExt

CONSTANTS
  TabSessions,  \* tmux sessions, and possible keys
  TabRequests,  \* concurrent HTTP requests, each used once
  MaxTabFaults  \* bound on failing Redis commands

\* A request stands for the label it sets; "" is that of a hash without one.
ASSUME RequestIsALabel == "" \notin TabRequests
ASSUME TabConstants == MaxTabFaults \in Nat

VARIABLES
  tabActive,    \* sessions tmux has
  tabHash,      \* each session's hash: the set of its field-value pairs, empty for no key
  tabReq,       \* the requests
  tabBorn,      \* per listing: the keys made since it scanned (history)
  tabFaults

tabVars == <<tabActive, tabHash, tabReq, tabBorn, tabFaults>>

TabIdle == [kind |-> "none", pc |-> "new", session |-> "none", names |-> {}, todo |-> {},
            found |-> {}, missed |-> {}, order |-> 0, answer |-> "none"]

TabInit ==
  /\ tabActive \in SUBSET TabSessions
  /\ tabHash = [s \in TabSessions |-> {}]
  /\ tabReq = [r \in TabRequests |-> TabIdle]
  /\ tabBorn = [r \in TabRequests |-> {}]
  /\ tabFaults = 0

\* HSet replaces the fields that are given and keeps the others.
HSet(hash, fields) == {f \in hash : \A g \in fields : g[1] # f[1]} \union fields
FieldOf(hash, name, default) ==
  IF \E f \in hash : f[1] = name THEN (CHOOSE f \in hash : f[1] = name)[2] ELSE default
TabLabel(s) == FieldOf(tabHash[s], "label", "")

TabStep(r, next) == tabReq' = [tabReq EXCEPT ![r] = next]
Answers(r, a) == TabStep(r, [tabReq[r] EXCEPT !.pc = "done", !.answer = a])
\* The command fails and the handler answers 500 (or 404 for Patch of a missing session).
RedisFails == tabFaults < MaxTabFaults /\ tabFaults' = tabFaults + 1

\* tmux sessions come and go; the metadata stays.
SessionsChange ==
  /\ \E s \in TabSessions : tabActive' = IF s \in tabActive THEN tabActive \ {s} ELSE tabActive \union {s}
  /\ UNCHANGED <<tabHash, tabReq, tabFaults>>

-----------------------------------------------------------------------------
(* GET of the list: EnsureDefaults.  found are the sessions it has read,   *)
(* missed those whose read failed.                                         *)

\* ListActiveSessions of tmux; when that fails no session counts as active.
ListActive(r) ==
  /\ tabReq[r].pc = "new"
  /\ \E names \in {tabActive, {}} :
       TabStep(r, [TabIdle EXCEPT !.kind = "list", !.pc = "scan", !.names = names])
  /\ UNCHANGED <<tabActive, tabHash, tabFaults>>

\* Scan of the keys (one page of up to 100).
ScanKeys(r) ==
  /\ tabReq[r].pc = "scan"
  /\ \/ /\ TabStep(r, [tabReq[r] EXCEPT !.pc = "read",
                                     !.todo = {s \in TabSessions : tabHash[s] # {}}])
        /\ UNCHANGED tabFaults
     \/ RedisFails /\ Answers(r, "failed")
  /\ UNCHANGED <<tabActive, tabHash>>

\* HGetAll of one key; one that fails or is empty by now is left out of the list.
ReadTab(r) ==
  /\ tabReq[r].pc = "read"
  /\ \E s \in tabReq[r].todo :
       \/ /\ TabStep(r, [tabReq[r] EXCEPT !.todo = @ \ {s},
                        !.found = IF tabHash[s] = {} THEN @ ELSE @ \union {s},
                        !.order = Max({@, FieldOf(tabHash[s], "order", 0)})])
          /\ UNCHANGED tabFaults
       \/ RedisFails /\ TabStep(r, [tabReq[r] EXCEPT !.todo = @ \ {s}, !.missed = @ \union {s}])
  /\ UNCHANGED <<tabActive, tabHash>>

\* Mutant: every active session is given defaults.
AllTabs(r) == tabReq[r].names

\* The active sessions that were not read, in any order, are given defaults.
MissingTabs(r) == tabReq[r].names \ tabReq[r].found

BeginDefaults(r) ==
  /\ tabReq[r].pc = "read" /\ tabReq[r].todo = {}
  /\ TabStep(r, [tabReq[r] EXCEPT !.pc = "set", !.todo = MissingTabs(r)])
  /\ UNCHANGED <<tabActive, tabHash, tabFaults>>

\* Set writes the whole record; a failure is logged and the next session tried.
SetDefault(r) ==
  /\ tabReq[r].pc = "set"
  /\ \E s \in tabReq[r].todo :
       /\ \/ /\ tabHash' = [tabHash EXCEPT ![s] =
                  HSet(@, {<<"label", "default">>, <<"order", tabReq[r].order + 1>>, <<"created", TRUE>>})]
             /\ UNCHANGED tabFaults
          \/ RedisFails /\ UNCHANGED tabHash
       /\ TabStep(r, [tabReq[r] EXCEPT !.todo = @ \ {s}, !.order = @ + 1])
  /\ UNCHANGED tabActive

ListDone(r) ==
  /\ tabReq[r].pc = "set" /\ tabReq[r].todo = {} /\ Answers(r, "ok")
  /\ UNCHANGED <<tabActive, tabHash, tabFaults>>

-----------------------------------------------------------------------------
(* GET, PATCH and DELETE of one tab. *)

GetTab(r) ==
  /\ tabReq[r].pc = "new"
  /\ \E s \in TabSessions :
       \/ /\ TabStep(r, [TabIdle EXCEPT !.kind = "get", !.pc = "done", !.session = s,
                                     !.answer = IF tabHash[s] = {} THEN "not found" ELSE "ok"])
          /\ UNCHANGED tabFaults
       \/ RedisFails /\ TabStep(r, [TabIdle EXCEPT !.kind = "get", !.pc = "done", !.session = s, !.answer = "failed"])
  /\ UNCHANGED <<tabActive, tabHash>>

\* Patch first asks whether the key exists ...
PatchExists(r) ==
  /\ tabReq[r].pc = "new"
  /\ \E s \in TabSessions :
       LET asked == [TabIdle EXCEPT !.kind = "patch", !.session = s] IN
         \/ /\ TabStep(r, IF tabHash[s] = {} THEN [asked EXCEPT !.pc = "done", !.answer = "not found"]
                       ELSE [asked EXCEPT !.pc = "hset"])
            /\ UNCHANGED tabFaults
         \/ RedisFails /\ TabStep(r, [asked EXCEPT !.pc = "done", !.answer = "failed"])
  /\ UNCHANGED <<tabActive, tabHash>>

\* ... then sets the given fields, even if the key has been deleted since ...
PatchHSet(r) ==
  /\ tabReq[r].pc = "hset"
  /\ \/ /\ tabHash' = [tabHash EXCEPT ![tabReq[r].session] = HSet(@, {<<"label", r>>})]
        /\ TabStep(r, [tabReq[r] EXCEPT !.pc = "get"]) /\ UNCHANGED tabFaults
     \/ RedisFails /\ Answers(r, "failed") /\ UNCHANGED tabHash
  /\ UNCHANGED tabActive

\* ... and reads the record back: an error here answers 500 after the change was made.
PatchGet(r) ==
  /\ tabReq[r].pc = "get"
  /\ \/ Answers(r, "ok") /\ UNCHANGED tabFaults
     \/ RedisFails /\ Answers(r, "failed")
  /\ UNCHANGED <<tabActive, tabHash>>

DeleteTab(r) ==
  /\ tabReq[r].pc = "new"
  /\ \E s \in TabSessions :
       LET asked == [TabIdle EXCEPT !.kind = "delete", !.pc = "done", !.session = s] IN
         \/ /\ tabHash' = [tabHash EXCEPT ![s] = {}]
            /\ TabStep(r, [asked EXCEPT !.answer = "ok"]) /\ UNCHANGED tabFaults
         \/ RedisFails /\ TabStep(r, [asked EXCEPT !.answer = "failed"]) /\ UNCHANGED tabHash
  /\ UNCHANGED tabActive

\* Keys that a step makes are remembered for the listings that have scanned already.
RememberBorn ==
  tabBorn' = [r \in TabRequests |-> IF tabReq[r].pc \notin {"read", "set"} THEN tabBorn[r]
              ELSE tabBorn[r] \union {s \in TabSessions : tabHash[s] = {} /\ tabHash'[s] # {}}]

TabNext ==
  /\ \/ SessionsChange
     \/ \E r \in TabRequests :
          \/ ListActive(r) \/ ScanKeys(r) \/ ReadTab(r) \/ BeginDefaults(r) \/ SetDefault(r)
          \/ ListDone(r) \/ GetTab(r) \/ PatchExists(r) \/ PatchHSet(r) \/ PatchGet(r) \/ DeleteTab(r)
  /\ RememberBorn

TabSpec == TabInit /\ [][TabNext]_tabVars

-----------------------------------------------------------------------------
\* A step changes a user's label to another user's, deletes it, or is a default
\* of a listing that did not see the tab.
KeepsLabel(s) ==
  TabLabel(s) \in TabRequests /\ TabLabel(s)' # TabLabel(s) =>
    \/ TabLabel(s)' \in TabRequests
    \/ \E r \in TabRequests : tabReq'[r] # tabReq[r] /\
         \/ tabReq'[r].kind = "delete" /\ tabReq'[r].session = s
         \/ tabReq[r].kind = "list" /\ s \in tabBorn[r] \union tabReq[r].missed

TabFields ==
  ({"label"} \X (TabRequests \union {"default"})) \union ({"order"} \X Nat)
    \union ({"created"} \X {TRUE})
TabRecord ==
  [kind : {"none", "list", "get", "patch", "delete"},
   pc : {"new", "scan", "read", "set", "hset", "get", "done"},
   session : TabSessions \union {"none"}, names : SUBSET TabSessions, todo : SUBSET TabSessions,
   found : SUBSET TabSessions, missed : SUBSET TabSessions, order : Nat,
   answer : {"none", "ok", "not found", "failed"}]

TabTypeOK ==
  /\ tabActive \subseteq TabSessions
  /\ tabHash \in [TabSessions -> SUBSET TabFields]
  /\ tabReq \in [TabRequests -> TabRecord]
  /\ tabBorn \in [TabRequests -> SUBSET TabSessions]
  /\ tabFaults \in 0..MaxTabFaults

\* "tabs remember their custom labels/notes even after tmux sessions are destroyed"
\* (tabmeta/store.go), as far as the code keeps it: a label that a user has set goes only
\* with a later PATCH or DELETE of the tab, or with a listing that had scanned the keys
\* before the tab's was made, or to which the read of that key failed.
LabelsAreKept ==
  [][\A s \in TabSessions : KeepsLabel(s)]_tabVars
=============================================================================
