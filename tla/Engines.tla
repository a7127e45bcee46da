------------------------------- MODULE Engines -------------------------------
(***************************************************************************)
(* The engines of a worker that dial for themselves, and the admission they *)
(* have to pass: tools that reach the target only through a local proxy     *)
(* (src/external_scanners.py, external_profile.py, external_proxy.py), one  *)
(* after the other, and then the TLS scanner, whose sockets are replaced by *)
(* leased ones (src/tls.py, tls_transport.py).                              *)
(*                                                                         *)
(* A thread serves one connection at a time; while it is admitted it is a  *)
(* request of Traffic.  The threads of the proxy are daemons: they outlive *)
(* the tool that connected and the proxy that started them.  The threads   *)
(* of other workers keep asking too.  Tools, TLS scanner, site and DNS are *)
(* the environment.                                                        *)
(***************************************************************************)
EXTENDS Traffic

CONSTANTS
  Threads,      \* the requests that are connections of these engines
  Host,         \* the worker they run in
  Site,         \* the origin of its target
  External, Tls, \* engines
  Addresses,
  Resolutions,  \* the sets of them that the target's name may resolve to
  Approved,     \* the addresses the policy allows
  Tools         \* how many tools are run

ASSUME EnginesAssumption ==
  /\ Threads \subseteq Requests /\ \A h \in Threads : Owner[h] = Host
  /\ Host \in Workers /\ Site \in Origins
  /\ {External, Tls} \subseteq Engines \ {Provider} /\ External # Tls
  /\ Resolutions \subseteq (SUBSET Addresses) \ {{}} /\ Approved \subseteq Addresses
  /\ None \notin Addresses
  /\ Tools \in Nat

VARIABLES
  job,          \* what the worker does: next, tool, tls, done, raised or killed
  tool,         \* tools begun
  limit,        \* deadline of the current proxy, or of the TLS scan
  snapshot,     \* the address the TLS scan is for
  points,       \* what the name resolves to at the moment
  phase,        \* where a thread is with its connection
  kind,         \* External or Tls: the engine the thread works for
  due,          \* the deadline of its proxy or scan
  addr          \* the address it is to dial

work == <<job, tool, limit, snapshot>>
links == <<phase, kind, due, addr>>
engines == <<work, points, links>>
all == <<vars, engines>>

EnginesTypeOK ==
  /\ job \in {"next", "tool", "tls", "done", "raised", "killed"} /\ tool \in 0..Tools
  /\ limit \in 0..Horizon /\ snapshot \in Addresses \cup {None}
  /\ points \in Resolutions
  /\ phase \in [Threads -> {"free", "begun", "asking", "dial", "open"}]
  /\ kind \in [Threads -> {External, Tls, None}]
  /\ due \in [Threads -> 0..Horizon] /\ addr \in [Threads -> Addresses \cup {None}]

EnginesInit ==
  /\ Init
  /\ job = "next" /\ tool = 0 /\ limit = 0 /\ snapshot = None
  /\ points \in Resolutions
  /\ phase = [h \in Threads |-> "free"]
  /\ kind = [h \in Threads |-> None]
  /\ due = [h \in Threads |-> 0] /\ addr = [h \in Threads |-> None]

\* A deadline lies ahead, as far as the clock goes.
Later == {d \in 1..Horizon : d > now \/ d = Horizon}

\* Every answer of the DNS has to be allowed.
Resolves == points \subseteq Approved

Rebind(ps) == points' = ps /\ UNCHANGED <<vars, work, links>>
-----------------------------------------------------------------------------
(* The worker.                                                             *)

\* A name that is denied or unknown, or an asset that is not the reviewed one,
\* is an error of this tool; d is the deadline of its proxy.
StartTool(d) ==
  /\ job = "next" /\ tool < Tools
  /\ tool' = tool + 1
  /\ \/ Resolves /\ job' = "tool" /\ limit' = d
     \/ UNCHANGED <<job, limit>>
  /\ UNCHANGED <<vars, snapshot, points, links>>

\* Whatever its exit code and its output, the tool is gone and its proxy
\* accepts nobody any more; the threads the proxy has started go on.
ToolEnds ==
  /\ job = "tool" /\ job' = "next" /\ limit' = 0
  /\ UNCHANGED <<vars, tool, snapshot, points, links>>

\* It is killed.  TimeoutExpired is none of the errors scan_with_external()
\* handles: see Raises of TargetScan.
ToolTimesOut ==
  /\ job = "tool" /\ now >= limit /\ job' = "raised" /\ limit' = 0
  /\ UNCHANGED <<vars, tool, snapshot, points, links>>

StartTls(d, a) ==
  /\ job = "next" /\ tool = Tools
  /\ \/ Resolves /\ a \in points /\ job' = "tls" /\ limit' = d /\ snapshot' = a
     \/ job' = "done" /\ UNCHANGED <<limit, snapshot>>
  /\ UNCHANGED <<vars, tool, points, links>>

\* One connection at a time, and none when the scanner has its result.
Dialling == {h \in Threads : kind[h] = Tls}

TlsEnds ==
  /\ job = "tls" /\ Dialling = {} /\ job' = "done"
  /\ limit' = 0 /\ snapshot' = None
  /\ UNCHANGED <<vars, tool, points, links>>

\* The worker is killed with its process group, at its deadline, by a signal
\* or after its result: tool and threads are gone, and their sockets closed.
HostDies ==
  /\ Kill(Host)
  /\ job' = "killed" /\ tool' = 0 /\ limit' = 0 /\ snapshot' = None
  /\ phase' = [h \in Threads |-> "free"] /\ kind' = [h \in Threads |-> None]
  /\ due' = [h \in Threads |-> 0] /\ addr' = [h \in Threads |-> None]
  /\ UNCHANGED points
-----------------------------------------------------------------------------
(* The threads of the connections.                                         *)

Begins(h, who) ==
  /\ phase[h] = "free"
  /\ phase' = [phase EXCEPT ![h] = "begun"]
  /\ kind' = [kind EXCEPT ![h] = who]
  /\ due' = [due EXCEPT ![h] = limit]
  /\ UNCHANGED <<vars, work, points, addr>>

ToolConnects(h) == job = "tool" /\ Begins(h, External)

TlsConnects(h) == job = "tls" /\ Dialling = {} /\ Begins(h, Tls)

At(h, where) == phase[h] = where

Moves(h, to) ==
  phase' = [phase EXCEPT ![h] = to] /\ UNCHANGED <<work, points, kind, due>>

Over(h) ==
  /\ phase' = [phase EXCEPT ![h] = "free"]
  /\ kind' = [kind EXCEPT ![h] = None] /\ due' = [due EXCEPT ![h] = 0]
  /\ addr' = [addr EXCEPT ![h] = None]
  /\ UNCHANGED <<work, points>>

\* The request head ends early, comes late, is too long, malformed or for
\* another origin; or the name does not resolve as it must.
Drop(h) == At(h, "begun") /\ Over(h) /\ UNCHANGED vars

\* The name is resolved anew for each connection, and the address kept.
Lookup(h, a) ==
  /\ At(h, "begun") /\ Resolves
  /\ a \in points /\ (kind[h] = Tls => a = snapshot)
  /\ addr' = [addr EXCEPT ![h] = a]
  /\ Moves(h, "asking")
  /\ Ask(h, Site, kind[h], due[h])

Wait(h) == At(h, "asking") /\ (ReadClock(h) \/ PollAgain(h)) /\ UNCHANGED engines
Deny(h) == At(h, "asking") /\ (DenyStopped(h) \/ DenyExhausted(h)) /\ Over(h)
Admit(h) == At(h, "asking") /\ Grant(h) /\ Moves(h, "dial") /\ UNCHANGED addr

\* Mutant: the lease is let go when the socket is connected.
LetGo(h) == Release(h)
\* The lease is kept for as long as the socket is open.
Keep(h) == UNCHANGED vars

Dial(h) == At(h, "dial") /\ Keep(h) /\ Moves(h, "open") /\ UNCHANGED addr

\* Not connected; or closed by either end, at its deadline or byte limit.  The
\* socket is closed first, then its lease released.
Close(h) == phase[h] \in {"dial", "open"} /\ Release(h) /\ Over(h)

Connection(h) ==
  \/ ToolConnects(h) \/ TlsConnects(h) \/ Drop(h)
  \/ \E a \in Addresses : Lookup(h, a)
  \/ Wait(h) \/ Deny(h) \/ Admit(h) \/ Dial(h) \/ Close(h)

\* Other threads and workers.
Elsewhere ==
  \/ Tick \/ Cancel
  \/ \E r \in Requests \ Threads :
       \/ \E o \in Origins, g \in Engines \ {External, Tls}, d \in Later : Ask(r, o, g, d)
       \/ ReadClock(r) \/ Decide(r) \/ Release(r)
  \/ \E w \in Workers \ {Host} : Kill(w)
  \/ \E w \in Workers : ReleaseOwner(w)

EnginesNext ==
  \/ Elsewhere /\ UNCHANGED engines
  \/ \E ps \in Resolutions : Rebind(ps)
  \/ \E d \in Later : StartTool(d) \/ \E a \in Addresses : StartTls(d, a)
  \/ ToolEnds \/ ToolTimesOut \/ TlsEnds \/ HostDies
  \/ \E h \in Threads : Connection(h)

\* What a thread does by itself.  A silent peer keeps a tool's connection up to
\* the deadline of its proxy.
Forced(h) ==
  \/ Wait(h) \/ Deny(h) \/ Admit(h) \/ Dial(h)
  \/ kind[h] = External /\ now >= due[h] /\ (Drop(h) \/ Close(h))

\* The parent kills a worker that is still at its TLS scan by then.
Overdue == job = "tls" /\ now >= limit /\ HostDies

\* Time passes, threads and worker go on, and tools and workers are killed when
\* their time is up.  No tool, scanner or peer needs to end anything.
EnginesSpec ==
  /\ EnginesInit /\ [][EnginesNext]_all
  /\ WF_all(Tick /\ UNCHANGED engines)
  /\ \A r \in Requests \ Threads : WF_all((ReadClock(r) \/ Decide(r)) /\ UNCHANGED engines)
  /\ \A h \in Threads : WF_all(Forced(h))
  /\ WF_all(ToolTimesOut \/ Overdue
             \/ \E d \in Later : StartTool(d) \/ \E a \in Addresses : StartTls(d, a))
-----------------------------------------------------------------------------
\* ARCHITECTURE.md has every dial revalidate the name and hold its lease until
\* the socket is closed.  So, whatever the DNS says in between, whichever tool,
\* proxy or worker is gone, and whatever others do meanwhile: a thread that
\* dials or is connected goes to an allowed address (of a TLS scan, always the
\* same one), has its lease until its deadline, and shares the run's limit with
\* the requests of all other workers.
Dialled == {h \in Threads : phase[h] \in {"dial", "open"}}
DialsAreAdmitted ==
  /\ EnginesTypeOK
  /\ \A h \in Dialled : /\ addr[h] \in Approved
                        /\ kind[h] = Tls => addr[h] = snapshot
                        /\ now < due[h] => h \in leases
  /\ Cardinality({h \in Dialled : now < due[h]} \cup (Working \ Threads)) <= Concurrency

\* Why DialsAreAdmitted holds: how far a thread is with its connection says how
\* far it is with its admission, and what it found out on the way stays true of
\* it; a thread of the TLS scanner never outlives the scan.
ThreadInv == \A h \in Threads :
  /\ phase[h] # "free" => kind[h] # None /\ due[h] # 0
  /\ phase[h] \in {"free", "begun"} => pc[h] \in {"idle", "gone"}
  /\ phase[h] = "asking" => pc[h] \in {"poll", "enter"}
  /\ phase[h] \in {"dial", "open"} => pc[h] = "held"
  /\ phase[h] \in {"asking", "dial", "open"} =>
       /\ deadline[h] = due[h] /\ addr[h] \in Approved
       /\ kind[h] = Tls => addr[h] = snapshot
  /\ kind[h] = Tls => job = "tls"
EngineInv ==
  /\ EnginesTypeOK /\ ThreadInv
  /\ job \in {"tool", "tls"} => limit # 0

\* Time alone ends everything: each admission is answered, each connection over
\* and the worker done with its engines, whatever tools and site do.
NothingHangs ==
  /\ AdmissionEnds
  /\ \A h \in Threads : phase[h] # "free" ~> phase[h] = "free"
  /\ <>(job \in {"done", "raised", "killed"})
=============================================================================
