---------------------------- MODULE SkillPackages ----------------------------
(***************************************************************************)
(* Packages of skills and tools: skill_packages.rs with its remote.rs over *)
(* the scopes of plugin_runtime.rs and the handlers of the tool catalog,   *)
(* and the skills a conversation (single_agent.rs) has read.               *)
(*                                                                         *)
(* The transition lock is held from the first check of an operation to its *)
(* return, but a conversation reads the registry without it.  So an        *)
(* operation is one action per change that others can see: todo[u] is the  *)
(* change that comes next, and whoever has one holds the lock.             *)
(*                                                                         *)
(* A manifest is the tools a package declares and the packages it needs.   *)
(* A local package is read from its directory, a remote one is fetched     *)
(* from its service without the lock: disk[p] is what either says at the   *)
(* moment, and skill[p] the manifest that the instructions in its          *)
(* directory, another file, were written for.  What a service says goes    *)
(* together.  Left out: built-in packages (they are there at every start and *)
(* cannot be removed), a directory whose package changes its id, and the   *)
(* library namespaces, which are kept apart like the names of tools.       *)
(***************************************************************************)
EXTENDS Naturals, SequencesExt

CONSTANTS
    Packages, Remotes,   \* ids; those that are services
    Tools,
    Manifests,           \* the manifests of an id: [tools |-> ..., inject |-> ...]
    Skills,              \* the packages the conversation reads
    Requests,            \* HTTP requests of the plugin settings, one operation each
    Startup,             \* the task that connects remote packages at start
    None, Gone,          \* a manifest that is not valid, a directory that is not there
    MaxScopes,           \* bound: scopes of one process
    MaxEdits,            \* bound: changes of directories and services
    MaxFaults,           \* bound: settings that cannot be written
    MaxBoots,            \* bound: starts of the process
    MaxMishaps           \* bound: the three together

ASSUME PackagesAssumption ==
    /\ Remotes \subseteq Packages /\ Startup \notin Requests
    /\ None \notin Packages \cup {Gone, <<>>} /\ Skills \subseteq Packages
    /\ \A p \in Packages : /\ {None, Gone} \cap Manifests[p] = {}
                           /\ \A m \in Manifests[p] : /\ m.tools \subseteq Tools
                                                     /\ m.inject \subseteq Packages
    /\ {MaxScopes, MaxEdits, MaxFaults, MaxBoots, MaxMishaps} \subseteq Nat

VARIABLES
    disk,        \* the manifest a directory or service has now
    skill,       \* the manifest that the instructions in a directory belong to
    roster,      \* settings: packages and remotes, in the order of installation
    off,         \* settings: ids with enabled = false
    removed,     \* settings: ids that were removed
    entries,     \* the registry: manifest and scope of a package
    scopes, next,\* plugin_runtime: the scopes of packages, the number of the next one
    handlers,    \* the tool catalog: the scope whose handler a tool has
    loading,     \* the packages a start has yet to load
    up,          \* the process serves requests
    todo, op,    \* the change that comes next and what it is about
    connecting,  \* restore: remotes still to connect, ids that were off
    active,      \* the saved window: scopes of the skills that are active
    reading,     \* the call of read_skill
    known,       \* history: the instructions read of a package, in this process, as
                 \* far as its directory was whole and nobody changed it meanwhile
    lost,        \* history: packages that could not be restored, or whose settings an
                 \* operation that failed has left, until they are saved as the process
                 \* has them
    edits, faults, boots

files    == <<disk, skill>>
settings == <<roster, off, removed>>
host     == <<entries, scopes, next, handlers>>
process  == <<host, loading, up, todo, op, connecting>>
talk     == <<active, reading, known>>
budget   == <<edits, faults, boots>>
others   == <<files, settings, loading, up, talk, lost, budget>>
vars     == <<files, settings, process, talk, lost, budget>>

Usable(m) == m \notin {None, Gone}
AnyManifest == UNION {Manifests[p] : p \in Packages}
Actors == Requests \cup {Startup}
Waits  == {"none", "done", "settings", "fetch", "lock", "again"}

\* Scope 0 is the root, which is no package's: an entry with it is disabled, a tool
\* with it has no handler.
Absent == [manifest |-> None, scope |-> 0]
NoOp   == [kind |-> "none", id |-> None, new |-> None, old |-> Absent, undo |-> FALSE]
NotReading == [at |-> "none", id |-> None, manifest |-> None, scope |-> 0]

Listed      == {p \in Packages : entries[p].manifest # None}
Mounted(p)  == entries[p].scope # 0
ScopesOf(p) == {n.scope : n \in {k \in scopes : k.id = p}}
Handled     == {t \in Tools : handlers[t] # 0}

-----------------------------------------------------------------------------
(* plugin_runtime: mount and unmount; PackagePlugin::start *)

\* Not mounted yet, and every service the manifest asks for is there.
Provided(p, m) == ScopesOf(p) = {} /\ \A q \in m.inject : ScopesOf(q) # {}

\* No other package declares one of the tools, mounted or not, none has a handler.
Startable(p, m) ==
    /\ \A q \in Listed \ {p} : entries[q].manifest.tools \cap m.tools = {}
    /\ m.tools \cap Handled = {}

Mountable(p, m) == Provided(p, m) /\ Startable(p, m)

\* Scope and handlers; the entry follows (List).
Register(p, m) ==
    /\ next' = next + 1
    /\ scopes' = scopes \cup
          {[scope |-> next, id |-> p, requires |-> UNION {ScopesOf(q) : q \in m.inject}]}
    /\ handlers' = [t \in Tools |-> IF t \in m.tools THEN next ELSE handlers[t]]

\* A start that fails has used up a number.
Refuse(p, m) ==
    /\ next' = IF Provided(p, m) THEN next + 1 ELSE next
    /\ UNCHANGED <<scopes, handlers>>

Enter(p, m, s) == entries' = [entries EXCEPT ![p] = [manifest |-> m, scope |-> s]]

\* unmount refuses to take a service from under another package.
Needed(p)    == \E n \in scopes : entries[p].scope \in n.requires
Removable(p) == Mounted(p) => ~Needed(p)

-----------------------------------------------------------------------------
(* The process *)

NoEntries  == [p \in Packages |-> Absent]
NoHandlers == [t \in Tools |-> 0]

\* What a process has is gone with it.
Forget == entries' = NoEntries /\ scopes' = {} /\ next' = 1 /\ handlers' = NoHandlers

\* A process is about to start with the settings an earlier one has left.
Init ==
    /\ disk \in {f \in [Packages -> AnyManifest] : \A p \in Packages : f[p] \in Manifests[p]}
    /\ skill = disk
    /\ \E S \in SUBSET Packages :
           IsFiniteSet(S) /\ roster \in SetToSeqs(S) /\ off \in SUBSET S
    /\ removed = {}
    /\ entries = NoEntries /\ scopes = {} /\ next = 1 /\ handlers = NoHandlers
    /\ loading = None /\ up = FALSE
    /\ todo = [u \in Actors |-> "none"] /\ op = [u \in Actors |-> NoOp]
    /\ connecting = [left |-> {}, off |-> {}]
    /\ active = [p \in Packages |-> 0] /\ reading = NotReading
    /\ known = [p \in Packages |-> None]
    /\ lost = {} /\ edits = 0 /\ faults = 0 /\ boots = 0

MayGoWrong == edits + faults + boots < MaxMishaps

\* Somebody changes a directory, its manifest, its instructions or both, or a service
\* comes back different or not at all.
Edit(p) ==
    /\ edits < MaxEdits /\ MayGoWrong /\ edits' = edits + 1
    /\ \E m \in Manifests[p] \cup {None, Gone}, k \in Manifests[p] :
           /\ m # disk[p] \/ k # skill[p]
           /\ k # skill[p] => p \in Skills \ Remotes /\ Usable(m)
           /\ disk' = [disk EXCEPT ![p] = m] /\ skill' = [skill EXCEPT ![p] = k]
    /\ UNCHANGED <<settings, process, talk, lost, faults, boots>>

Crash ==
    /\ up /\ boots < MaxBoots /\ MayGoWrong
    /\ up' = FALSE /\ Forget /\ reading' = NotReading /\ lost' = {}
    /\ known' = [p \in Packages |-> None]
    /\ todo' = [u \in Actors |-> IF todo[u] = "none" THEN "none" ELSE "done"]
    /\ op' = [u \in Actors |-> NoOp]
    /\ connecting' = [left |-> {}, off |-> {}]
    /\ UNCHANGED <<files, settings, loading, active, budget>>

\* PackagesPlugin::start: every local package of the settings in its order, the
\* enabled ones mounted; one that cannot be loaded or mounted stops the start.
Begin ==
    /\ ~up /\ loading = None /\ loading' = roster
    /\ UNCHANGED <<files, settings, host, up, todo, op, connecting, talk, lost, budget>>

Load(p) ==
    /\ loading \notin {None, <<>>} /\ p = Head(loading) /\ next <= MaxScopes
    /\ LET m == disk[p] IN
       \/ /\ p \in Remotes \/ (Usable(m) /\ p \in removed)
          /\ loading' = Tail(loading) /\ UNCHANGED host
       \/ /\ p \notin Remotes \cup removed \cup Listed /\ Usable(m) /\ p \in off
          /\ Enter(p, m, 0)
          /\ loading' = Tail(loading) /\ UNCHANGED <<scopes, next, handlers>>
       \/ /\ p \notin Remotes \cup removed \cup Listed \cup off /\ Usable(m) /\ Mountable(p, m)
          /\ Register(p, m) /\ Enter(p, m, next)
          /\ loading' = Tail(loading)
       \/ /\ p \notin Remotes
          /\ Usable(m) => /\ p \notin removed
                          /\ p \in Listed \/ (p \notin off /\ ~Mountable(p, m))
          /\ loading' = None /\ Forget
    /\ UNCHANGED <<files, settings, up, todo, op, connecting, talk, lost, budget>>

Serve ==
    /\ ~up /\ loading = <<>> /\ loading' = None
    /\ up' = TRUE /\ boots' = boots + 1
    /\ todo' = [todo EXCEPT ![Startup] = "settings"]
    /\ UNCHANGED <<files, settings, host, op, connecting, talk, lost, edits, faults>>

-----------------------------------------------------------------------------
(* The operations up to their first change *)

Free == up /\ \A u \in Actors : todo[u] \in Waits

Go(u, kind, p, new, step) ==
    /\ todo' = [todo EXCEPT ![u] = step]
    /\ op' = [op EXCEPT ![u] = [kind |-> kind, id |-> p, new |-> new,
                                old |-> entries[p], undo |-> FALSE]]
End(u) ==
    /\ todo' = [todo EXCEPT ![u] = IF u = Startup THEN "none" ELSE "done"]
    /\ op' = [op EXCEPT ![u] = NoOp]

Idle(u) == up /\ u \in Requests /\ todo[u] = "none"

\* reload_package: a directory is read again, a remote package stays what it was.
Current(p) == IF p \in Remotes THEN entries[p].manifest ELSE disk[p]

Install(u, p) ==
    /\ Free /\ Idle(u) /\ p \notin Remotes \cup Listed /\ Usable(disk[p])
    /\ Go(u, "install", p, disk[p], "register")
    /\ UNCHANGED <<host, connecting, others>>

Reload(u, p) ==
    /\ Free /\ Idle(u) /\ p \in Listed \ Remotes /\ Usable(disk[p])
    /\ Removable(p)
    /\ Go(u, "reload", p, disk[p], IF Mounted(p) THEN "unlist" ELSE "replace")
    /\ UNCHANGED <<host, connecting, others>>

Uninstall(u, p) ==
    /\ Free /\ Idle(u) /\ p \in Listed /\ Removable(p)
    /\ Go(u, "remove", p, None, IF Mounted(p) THEN "unlist" ELSE "save")
    /\ UNCHANGED <<host, connecting, others>>

\* set_enabled; a remote package is connected again before it is enabled.
Enable(u, p) ==
    /\ Free /\ p \in Listed /\ (Mounted(p) \/ Usable(Current(p)))
    /\ IF p \in Remotes THEN todo[u] = "again" /\ op[u].kind = "turn_on" /\ op[u].id = p
                        ELSE Idle(u)
    /\ Go(u, "enable", p, Current(p), IF Mounted(p) THEN "save" ELSE "register")
    /\ UNCHANGED <<host, connecting, others>>

Disable(u, p) ==
    /\ Free /\ Idle(u) /\ p \in Listed /\ Removable(p)
    /\ Go(u, "disable", p, None, IF Mounted(p) THEN "unlist" ELSE "save")
    /\ UNCHANGED <<host, connecting, others>>

-----------------------------------------------------------------------------
(* Remote packages: what the service says is fetched before the lock is taken *)

Connect(u, p) ==
    /\ Idle(u) /\ p \in Remotes
    /\ \/ Go(u, "connect", p, None, "fetch")
       \/ p \notin Listed \cup off /\ Contains(roster, p) /\ Go(u, "user", p, None, "fetch")
       \/ p \in Listed /\ \E kind \in {"reconnect", "turn_on"} : Go(u, kind, p, None, "fetch")
    /\ UNCHANGED <<host, connecting, others>>

Fetch(u) ==
    /\ todo[u] = "fetch"
    /\ \/ /\ Usable(disk[op[u].id])
          /\ op' = [op EXCEPT ![u].new = disk[op[u].id]]
          /\ todo' = [todo EXCEPT ![u] = "lock"]
       \/ End(u)   \* not reachable, or the client hangs up
    /\ UNCHANGED <<host, connecting, others>>

SameAnyway(u)   == op[u].id \in Listed
\* The package must still be what it was when the connection was made.
SameAsBefore(u) == op[u].id \in Listed /\ entries[op[u].id].scope = op[u].old.scope

Adopt(u) ==
    LET p == op[u].id  first == op[u].kind \in {"connect", "user", "restore"} IN
    /\ Free /\ todo[u] = "lock"
    /\ IF IF first THEN p \in Listed
                   ELSE ~SameAsBefore(u) \/ (op[u].old.scope # 0 /\ ~Removable(p))
       THEN End(u)
       ELSE /\ todo' = [todo EXCEPT ![u] = IF first THEN "register"
                                           ELSE IF op[u].old.scope # 0 THEN "unlist"
                                           ELSE "replace"]
            /\ UNCHANGED op
    /\ UNCHANGED <<host, connecting, others>>

\* restore: one remote of the settings after the other; what was off when the
\* settings were read is mounted and then disabled, under two locks.
ReadSettings ==
    /\ up /\ todo[Startup] = "settings"
    /\ connecting' = [left |-> ToSet(roster) \cap Remotes, off |-> off \cap Remotes]
    /\ todo' = [todo EXCEPT ![Startup] = "none"]
    /\ UNCHANGED <<host, op, others>>

ConnectNext(p) ==
    /\ up /\ todo[Startup] = "none" /\ p \in connecting.left
    /\ connecting' = [connecting EXCEPT !.left = @ \ {p}]
    /\ Go(Startup, "restore", p, None, "fetch")
    /\ UNCHANGED <<host, others>>

Quieten ==
    LET p == op[Startup].id IN
    /\ Free /\ todo[Startup] = "again"
    /\ IF p \in Listed /\ Removable(p)
       THEN IF Mounted(p)
            THEN Go(Startup, "quiet", p, None, "unlist") /\ UNCHANGED connecting
            ELSE End(Startup) /\ UNCHANGED connecting
       ELSE End(Startup) /\ connecting' = [connecting EXCEPT !.left = {}]
    /\ UNCHANGED <<host, others>>

\* The enabling that follows a connection finds the package removed.
TooLate(u) ==
    /\ u \in Requests /\ Free /\ todo[u] = "again" /\ op[u].id \notin Listed
    /\ End(u)
    /\ UNCHANGED <<host, connecting, others>>

-----------------------------------------------------------------------------
(* The changes, under the lock.  Disposers run in the reverse order of a start. *)

AtStep(u, step) == up /\ todo[u] = step
Then(u, step)   == IF step = "end" THEN End(u) ELSE todo' = [todo EXCEPT ![u] = step] /\ UNCHANGED op
Retry(u, step, m) ==
    /\ todo' = [todo EXCEPT ![u] = step]
    /\ op' = [op EXCEPT ![u].undo = TRUE, ![u].new = m]

Renews  == {"reload", "reconnect", "turn_on"}
Creates == {"install", "connect"}

\* A disabled package is only listed anew.
Replace(u) ==
    /\ AtStep(u, "replace")
    /\ Enter(op[u].id, op[u].new, 0)
    /\ Then(u, IF op[u].kind = "turn_on" THEN "again" ELSE "end")
    /\ UNCHANGED <<scopes, next, handlers, connecting, others>>

Unlist(u) ==
    /\ AtStep(u, "unlist")
    /\ entries' = [entries EXCEPT ![op[u].id].scope = 0]
    /\ Then(u, "unregister")
    /\ UNCHANGED <<scopes, next, handlers, connecting, others>>

Unregister(u) ==
    LET p == op[u].id  kind == op[u].kind IN
    /\ AtStep(u, "unregister")
    /\ handlers' = [t \in Tools |-> IF t \in entries[p].manifest.tools THEN 0 ELSE handlers[t]]
    /\ scopes' = {n \in scopes : n.id # p}
    /\ Then(u, CASE kind \in Renews -> "register"
                 [] kind \in Creates -> "drop"
                 [] kind \in {"remove", "disable"} -> "save"
                 [] OTHER -> "end")
    /\ UNCHANGED <<entries, next, connecting, others>>

\* A new manifest that cannot be mounted gives way to the old one.
MountNew(u) ==
    LET p == op[u].id  m == op[u].new IN
    /\ AtStep(u, "register") /\ next <= MaxScopes
    /\ UNCHANGED <<files, settings, entries, loading, up, connecting, talk, budget>>
    /\ \/ /\ Mountable(p, m)
          /\ Register(p, m)
          /\ Then(u, "list")
          /\ UNCHANGED lost
       \/ /\ ~Mountable(p, m)
          /\ Refuse(p, m)
          /\ IF op[u].kind \in Renews /\ ~op[u].undo
             THEN Retry(u, "register", op[u].old.manifest) /\ UNCHANGED lost
             ELSE /\ End(u)
                  /\ lost' = IF op[u].undo THEN lost \cup {p} ELSE lost

List(u) ==
    LET p == op[u].id  kind == op[u].kind IN
    /\ AtStep(u, "list")
    /\ \E s \in ScopesOf(p) : Enter(p, op[u].new, s)
    /\ Then(u, IF op[u].undo THEN "end"
               ELSE CASE kind \in Creates \cup {"enable"} -> "save"
                      [] kind = "turn_on" -> "again"
                      [] kind = "restore" /\ p \in connecting.off -> "again"
                      [] OTHER -> "end")
    /\ UNCHANGED <<files, settings, scopes, next, handlers, loading, up, connecting, talk, lost, budget>>

\* The list without the path of a package, which is in it once at most.
Retain(s, p) ==
    IF Contains(s, p) THEN RemoveAt(s, CHOOSE i \in DOMAIN s : s[i] = p) ELSE s

\* A path is taken from the settings if it resolves to the root of the package.
Written(p, kind) ==
    /\ roster' = CASE kind = "remove" /\ (disk[p] # Gone \/ p \in Remotes) -> Retain(roster, p)
                   [] kind \in Creates /\ ~Contains(roster, p) -> Append(roster, p)
                   [] OTHER -> roster
    /\ off' = IF kind = "disable" THEN off \cup {p} ELSE off \ {p}
    /\ removed' = IF kind = "remove" THEN removed \cup {p}
                  ELSE IF kind \in Creates THEN removed \ {p} ELSE removed

Save(u) ==
    LET p == op[u].id  kind == op[u].kind IN
    /\ AtStep(u, "save")
    /\ Written(p, kind)
    /\ Then(u, IF kind = "remove" THEN "drop" ELSE "end")
    /\ lost' = IF kind = "remove" \/ (Contains(roster', p) /\ p \notin removed')
               THEN lost \ {p} ELSE lost
    /\ UNCHANGED <<files, host, loading, up, connecting, talk, budget>>

SavesOrNot(u) ==
    /\ AtStep(u, "save") /\ faults < MaxFaults /\ MayGoWrong /\ faults' = faults + 1
    /\ End(u)
    /\ UNCHANGED <<files, settings, host, loading, up, connecting, talk, lost, edits, boots>>

\* The settings cannot be written, or their permissions not be set afterwards: what
\* was done is taken back.
CannotSave(u) ==
    LET p == op[u].id  was == op[u].old.scope # 0  kind == op[u].kind IN
    /\ AtStep(u, "save") /\ faults < MaxFaults /\ MayGoWrong /\ faults' = faults + 1
    /\ \/ UNCHANGED <<settings, lost>>
       \/ Written(p, kind) /\ lost' = lost \cup {p}
    /\ IF was /\ kind \in {"remove", "disable"} THEN Retry(u, "register", op[u].old.manifest)
       ELSE IF kind \in Creates \/ (~was /\ kind = "enable") THEN Retry(u, "unlist", op[u].new)
       ELSE End(u)
    /\ UNCHANGED <<files, host, loading, up, connecting, talk, edits, boots>>

Drop(u) ==
    /\ AtStep(u, "drop")
    /\ entries' = [entries EXCEPT ![op[u].id] = Absent]
    /\ End(u)
    /\ UNCHANGED <<files, settings, scopes, next, handlers, loading, up, connecting, talk, lost, budget>>

-----------------------------------------------------------------------------
(* The skills of a conversation *)

\* read_skill: the entry, without the lock.  A service's instructions are in it ...
ReadSkill(p) ==
    /\ up /\ reading.at = "none" /\ Mounted(p)
    /\ reading' = [at |-> IF p \in Remotes THEN "read" ELSE "entry", id |-> p,
                   scope |-> entries[p].scope, manifest |-> entries[p].manifest]
    /\ UNCHANGED <<files, settings, process, active, known, lost, budget>>

SeesPackage(m) == reading' = [reading EXCEPT !.at = "same", !.manifest = m]

CompareNot ==
    /\ reading.at = "entry"
    /\ IF Usable(disk[reading.id]) THEN SeesPackage(disk[reading.id])
       ELSE reading' = NotReading
    /\ UNCHANGED <<files, settings, process, active, known, lost, budget>>

\* ... a directory must still have the manifest that is mounted ...
Compare ==
    /\ reading.at = "entry"
    /\ IF disk[reading.id] = reading.manifest THEN SeesPackage(disk[reading.id])
       ELSE reading' = NotReading
    /\ UNCHANGED <<files, settings, process, active, known, lost, budget>>

\* ... and its instructions are read after that, as they are.  They belong to the
\* manifest if the directory is whole and nobody has changed it since.
ReadBody ==
    /\ reading.at = "same"
    /\ LET p == reading.id IN
       reading' = [reading EXCEPT !.at = "read",
                      !.manifest = IF disk[p] = reading.manifest /\ skill[p] = disk[p]
                                   THEN skill[p] ELSE None]
    /\ UNCHANGED <<files, settings, process, active, known, lost, budget>>

\* The call is answered and the window saved some time later.
Activate ==
    /\ reading.at = "read" /\ reading' = NotReading
    /\ \/ /\ active' = [active EXCEPT ![reading.id] = reading.scope]
          /\ known' = [known EXCEPT ![reading.id] = reading.manifest]
       \/ UNCHANGED <<active, known>>   \* the instructions do not fit
    /\ UNCHANGED <<files, settings, process, lost, budget>>

Unload(p) ==
    /\ up /\ active[p] # 0 /\ active' = [active EXCEPT ![p] = 0]
    /\ known' = [known EXCEPT ![p] = None]
    /\ UNCHANGED <<files, settings, process, reading, lost, budget>>

\* valid_active: the tools of these packages are in the next request.
Valid(p) == active[p] # 0 /\ active[p] = entries[p].scope

-----------------------------------------------------------------------------
Request(u, p) ==
    \/ Install(u, p) \/ Reload(u, p) \/ Uninstall(u, p)
    \/ Enable(u, p) \/ Disable(u, p) \/ Connect(u, p)

Change(u) ==
    \/ Fetch(u) \/ Adopt(u) \/ TooLate(u)
    \/ Replace(u) \/ Unlist(u) \/ Unregister(u) \/ MountNew(u) \/ List(u)
    \/ Save(u) \/ CannotSave(u) \/ Drop(u)

Next ==
    \/ \E u \in Requests, p \in Packages : Request(u, p)
    \/ \E u \in Actors : Change(u)
    \/ ReadSettings \/ Quieten \/ (\E p \in Remotes : ConnectNext(p))
    \/ \E p \in Skills : ReadSkill(p) \/ Unload(p)
    \/ \E p \in Packages : Edit(p) \/ Load(p)
    \/ Compare \/ ReadBody \/ Activate
    \/ Crash \/ Begin \/ Serve

Spec == Init /\ [][Next]_vars

-----------------------------------------------------------------------------
(* Properties *)

Steps == {"replace", "unlist", "unregister", "register", "list", "save", "drop"}
Entries == [manifest : AnyManifest \cup {None}, scope : Nat]
Kinds   == {"none", "install", "reload", "remove", "enable", "disable", "connect", "user",
            "reconnect", "turn_on", "restore", "quiet"}
Ops     == [kind : Kinds, id : Packages \cup {None}, new : AnyManifest \cup {None, Gone},
            old : Entries, undo : BOOLEAN]
Reading == [at : {"none", "entry", "same", "read"}, id : Packages \cup {None},
            manifest : AnyManifest \cup {None}, scope : Nat]
TypeOK ==
    /\ disk \in [Packages -> AnyManifest \cup {None, Gone}]
    /\ skill \in [Packages -> AnyManifest]
    /\ entries \in [Packages -> Entries]
    /\ scopes \subseteq [scope : Nat, id : Packages, requires : SUBSET Nat]
    /\ next \in Nat \ {0} /\ handlers \in [Tools -> Nat] /\ up \in BOOLEAN
    /\ todo \in [Actors -> Waits \cup Steps] /\ op \in [Actors -> Ops]
    /\ active \in [Packages -> Nat] /\ known \in [Packages -> AnyManifest \cup {None}]
    /\ reading \in Reading

\* Between two operations, however they failed and whatever was rolled back, the
\* registry, the scopes and the tool catalog tell the same: a package has a scope if
\* and only if it is listed as enabled, with that scope; a tool has the handler of the
\* enabled package that declares it, or none; what a package needs is mounted.
RegistryAgrees ==
    Free =>
        /\ \A p \in Packages : ScopesOf(p) = {entries[p].scope} \ {0}
        /\ \A t \in Tools :
               {handlers[t]} \ {0} =
                   {entries[p].scope : p \in {q \in Packages : Mounted(q) /\ t \in entries[q].manifest.tools}}
        /\ \A n \in scopes : n.requires \subseteq {k.scope : k \in scopes}

\* Between two operations the process has the local packages the settings will give
\* the next one, enabled or not as they say: what a request reported as failed was
\* taken back on both sides.  The exceptions are a package that could not be restored
\* and one whose settings were written by a request that failed all the same, until
\* a request saves it as removed, or among the installed packages.
SettingsTell ==
    Free => \A p \in Packages \ (Remotes \cup lost) :
                LET installed == Contains(roster, p) /\ p \notin removed IN
                /\ p \in Listed <=> installed
                /\ Mounted(p) <=> installed /\ p \notin off

\* The tools of a package are offered to the model only with the instructions of
\* this very manifest read, in the life of one process (numbers of scopes start
\* again with the next, and the saved window keeps them), whatever is reloaded,
\* removed or connected between the steps of the read and before its answer; unless
\* the directory had instructions of another version than its manifest, or somebody
\* changed it between the comparison and the reading of the instructions.
ReadIsMounted ==
    \A p \in Packages :
        Valid(p) /\ known[p] # None => known[p] = entries[p].manifest
=============================================================================
