---------------------------- MODULE RemBotServer ----------------------------
(***************************************************************************)
(* The RemBot server (RemBotServiceImpl, ServerConfig, RemBotCtr.main):    *)
(* processes started in one directory, each of which reads the settings    *)
(* file into the defaults and writes it back, makes an RMI registry at the *)
(* configured port, exports its service and binds it; and callers that     *)
(* look it up and shut it down, each served by a thread of its own.        *)
(*                                                                         *)
(* A setting is a place in the file; the file is what is in it from the    *)
(* top, and whether it ends as it should.  A missing file is an empty one. *)
(***************************************************************************)
EXTENDS Naturals, Sequences

CONSTANTS
  Servers,     (* the processes that may run                               *)
  Callers,     (* clients that shut a server down                          *)
  Remote,      (* those of them on another host than the servers           *)
  NumFields,   (* settings; the first one is the port                      *)
  Values,
  Default,     (* what initDefaultInstance sets                            *)
  Unset,       (* a setting the user's file does not mention               *)
  UserFiles,   (* what the user may write                                  *)
  Nobody       (* no server                                                *)

Fields == 1..NumFields

ASSUME ServerAssumption ==
  /\ NumFields \in Nat \ {0}
  /\ Default \in [Fields -> Values]
  /\ Unset \notin Values
  /\ UserFiles \subseteq [Fields -> Values \cup {Unset}]
  /\ Nobody \notin Servers
  /\ Remote \subseteq Callers

VARIABLES
  file,        (* config.xml                                               *)
  user,        (* history: the settings as the user last wrote them        *)
  torn,        (* history: a server has read a file not wholly written     *)
  conf,        (* ServerConfig.INSTANCE of each process                    *)
  pc,          (* where main() of each process is                          *)
  registry,    (* processes with a registry at their port                  *)
  exported,    (* processes with an exported service                       *)
  bound,       (* processes with the service in their registry             *)
  call         (* where each caller is, and at which server                *)

configVars == <<file, user, torn, conf>>
serviceVars == <<registry, exported, bound>>
vars == <<configVars, pc, serviceVars, call>>

Complete(settings) == [lines |-> settings, closed |-> TRUE]
Idle == [at |-> "idle", server |-> Nobody]
Calling(c, place, p) == call[c] = [at |-> place, server |-> p]

Init ==
  /\ user \in UserFiles /\ file = Complete(user) /\ torn = FALSE
  /\ conf = [p \in Servers |-> Default]
  /\ pc = [p \in Servers |-> "off"]
  /\ registry = {} /\ exported = {} /\ bound = {}
  /\ call = [c \in Callers |-> Idle]

Goes(p, from, to) == pc[p] = from /\ pc' = [pc EXCEPT ![p] = to]

-----------------------------------------------------------------------------
(* The settings.                                                           *)

Starting(p) == pc[p] \in {"load", "open", "write"}

\* The file is edited while no server is starting.
UserEdits ==
  /\ \A p \in Servers : ~Starting(p)
  /\ user' \in UserFiles
  /\ file' = Complete(user')
  /\ UNCHANGED <<torn, conf, pc, serviceVars, call>>

Boot(p) ==
  /\ Goes(p, "off", "load")
  /\ conf' = [conf EXCEPT ![p] = Default]
  /\ UNCHANGED <<file, user, torn, serviceVars, call>>

\* A plausible slip: setting the defaults after the file is read.
Load_DefaultsLast(p) ==
  /\ Goes(p, "load", "open")
  /\ torn' = (torn \/ ~file.closed)
  /\ UNCHANGED <<file, user, conf, serviceVars, call>>

\* loadFromXml reads into INSTANCE itself (createServerConfig): what stands in the
\* file before it breaks off has replaced the defaults, whatever the log says.
Load(p) ==
  /\ Goes(p, "load", "open")
  /\ conf' = [conf EXCEPT ![p] =
       [f \in Fields |-> IF f \in DOMAIN file.lines /\ file.lines[f] # Unset
                         THEN file.lines[f] ELSE Default[f]]]
  /\ torn' = (torn \/ ~file.closed)
  /\ UNCHANGED <<file, user, serviceVars, call>>

\* saveToXml empties the file and then fills it.
SaveOpens(p) ==
  /\ Goes(p, "open", "write")
  /\ file' = [lines |-> << >>, closed |-> FALSE]
  /\ UNCHANGED <<user, torn, conf, serviceVars, call>>

SaveWrites(p) ==
  /\ Goes(p, "write", "create")
  /\ file' = Complete(conf[p])
  /\ UNCHANGED <<user, torn, conf, serviceVars, call>>

\* A write that fails is only logged.
SaveFails(p) ==
  /\ Goes(p, "write", "create")
  /\ \E n \in 0..NumFields :
       file' = [lines |-> [f \in 1..n |-> conf[p][f]], closed |-> FALSE]
  /\ UNCHANGED <<user, torn, conf, serviceVars, call>>

-----------------------------------------------------------------------------
(* RemBotServiceImpl.start, called by main.                                *)

PortTaken(p) == \E q \in registry : conf[q][1] = conf[p][1]

\* The port goes with the process, and so do the calls to it.
Ends(p) ==
  /\ pc' = [pc EXCEPT ![p] = "off"]
  /\ registry' = registry \ {p} /\ exported' = exported \ {p} /\ bound' = bound \ {p}
  /\ call' = [c \in Callers |-> IF call[c].server = p THEN Idle ELSE call[c]]
  /\ UNCHANGED configVars

\* Without the port start() logs, main returns, and nothing keeps the process.
CreateRegistry(p) ==
  \/ /\ PortTaken(p)
     /\ pc[p] = "create"
     /\ Ends(p)
  \/ /\ ~PortTaken(p)
     /\ Goes(p, "create", "export")
     /\ registry' = registry \cup {p}
     /\ UNCHANGED <<configVars, exported, bound, call>>

\* The same when exporting fails: the registry, which daemon threads serve, keeps
\* no process alive.
Export(p) ==
  \/ /\ Goes(p, "export", "bind")
     /\ exported' = exported \cup {p}
     /\ UNCHANGED <<configVars, registry, bound, call>>
  \/ /\ pc[p] = "export"
     /\ Ends(p)

Bind(p) ==
  /\ Goes(p, "bind", "running")
  /\ bound' = bound \cup {p}
  /\ UNCHANGED <<configVars, registry, exported, call>>

-----------------------------------------------------------------------------
(* shutDown(), which calls stop(), from callers.                           *)

Caller(c, from, to, p) ==
  /\ Calling(c, from, p)
  /\ call' = [call EXCEPT ![c] = IF to = "idle" THEN Idle ELSE [at |-> to, server |-> p]]

LookUp(c, p) ==
  /\ call[c] = Idle /\ p \in bound
  /\ call' = [call EXCEPT ![c] = [at |-> "stub", server |-> p]]
  /\ UNCHANGED <<configVars, pc, serviceVars>>

\* A stub of an object that is no longer exported gives an exception.
Invoke(c, p) ==
  /\ Caller(c, "stub", IF p \in exported THEN "unbind" ELSE "idle", p)
  /\ UNCHANGED <<configVars, pc, serviceVars>>

\* A plausible slip: taking the service away before its name.
Unbind_ExportFirst(c, p) ==
  /\ Caller(c, "unbind", IF p \in exported THEN "unexport" ELSE "idle", p)
  /\ exported' = exported \ {p}
  /\ UNCHANGED <<configVars, pc, registry, bound>>

\* The second of two calls finds nothing bound, and leaves it at that.  The registry
\* refuses a caller on another host (an AccessException, which is a RemoteException).
Unbind(c, p) ==
  LET unbinds == p \in bound /\ c \notin Remote IN
  /\ Caller(c, "unbind", IF unbinds THEN "unexport" ELSE "idle", p)
  /\ bound' = IF unbinds THEN bound \ {p} ELSE bound
  /\ UNCHANGED <<configVars, pc, registry, exported>>

\* Plausible slips: not forcing it, which leaves the service exported while a call
\* runs, as this one does; and unexporting the registry only.
Unexport_NotForced(c, p) ==
  /\ Caller(c, "unexport", "registry", p)
  /\ UNCHANGED <<configVars, pc, serviceVars>>

Unexport_RegistryOnly(c, p) ==
  /\ Caller(c, "unexport", "idle", p)
  /\ registry' = registry \ {p}
  /\ UNCHANGED <<configVars, pc, exported, bound>>

Unexport(c, p) ==
  /\ Caller(c, "unexport", "registry", p)
  /\ exported' = exported \ {p}
  /\ UNCHANGED <<configVars, pc, registry, bound>>

UnexportRegistry(c, p) ==
  /\ Caller(c, "registry", "idle", p)
  /\ registry' = registry \ {p}
  /\ UNCHANGED <<configVars, pc, exported, bound>>

-----------------------------------------------------------------------------
(* The end of a process: by itself, when main has returned and its service *)
(* is no longer exported, or by a kill at any place.                       *)

Exits(p) == pc[p] = "running" /\ p \notin exported /\ Ends(p)

Killed(p) == pc[p] # "off" /\ Ends(p)

MainStep(p) ==
  \/ Load(p) \/ SaveOpens(p) \/ SaveWrites(p) \/ SaveFails(p)
  \/ CreateRegistry(p) \/ Export(p) \/ Bind(p) \/ Exits(p)

CallStep(c, p) == Invoke(c, p) \/ Unbind(c, p) \/ Unexport(c, p) \/ UnexportRegistry(c, p)

Next ==
  \/ UserEdits
  \/ \E p \in Servers :
       \/ Boot(p) \/ MainStep(p) \/ Killed(p)
       \/ \E c \in Callers : LookUp(c, p) \/ CallStep(c, p)

\* A process goes on with what it has begun; nobody has to start a server, to call
\* it or to kill it.
Spec == Init /\ [][Next]_vars
FairSpec ==
  /\ Spec
  /\ \A p \in Servers : WF_vars(MainStep(p))
  /\ \A c \in Callers : WF_vars(\E p \in Servers : CallStep(c, p))

-----------------------------------------------------------------------------
(* Properties.                                                             *)

\* What the user has set outlives every start, also of two servers at once, as long
\* as none of them has read a file that another one, or a kill, left half written:
\* a whole file always holds it, and fills in the rest (ServerConfig.java:72-78).
SettingsSurvive ==
  ~torn /\ file.closed => \A f \in Fields : user[f] # Unset => file.lines[f] = user[f]

\* Whoever finds the name in a registry finds a service that can be called, in
\* start() and in stop(), also of two callers at once.
LookUpIsLive == bound \subseteq registry \cap exported

\* A server that started in order and cannot be found holds its port only until the
\* process ends: with the service no longer exported, or with a call that will see to
\* that on its way.  No overlap of calls of shutDown(), refused ones among them, and
\* no exception in stop() leaves a port that only a kill gives back.
PortNotLeaked ==
  \A p \in registry :
    pc[p] = "running" =>
      p \in bound \/ p \notin exported \/ \E c \in Callers : Calling(c, "unexport", p)

\* A call of shutDown() that reaches the server from its own host ends the process,
\* whatever other calls overlap with it, so that the next one has the port.
ShutDownEndsServer ==
  \A p \in Servers : (\E c \in Callers \ Remote : Calling(c, "unbind", p)) ~> pc[p] = "off"
=============================================================================
