------------------------- MODULE RemBotServerProofs -------------------------
(***************************************************************************)
(* What holds of the RemBot server for any number of servers, callers and  *)
(* settings.  The service and the settings have an invariant each; neither *)
(* needs the other.                                                        *)
(***************************************************************************)
EXTENDS RemBotServer, TLAPS

-----------------------------------------------------------------------------
(* The service.                                                            *)

Places == {"off", "load", "open", "write", "create", "export", "bind", "running"}
CallPlaces == {"idle", "stub", "unbind", "unexport", "registry"}
CallState == [at : CallPlaces, server : Servers \cup {Nobody}]

Stopping(p) == \E c \in Callers : call[c].server = p /\ call[c].at \in {"unexport", "registry"}
Unexporting(p) == \E c \in Callers : call[c].server = p /\ call[c].at = "unexport"

\* What a server has at each place of main(), and that a call past Unbind finds the
\* name gone.
ServerOK(p) ==
  /\ p \in registry => pc[p] \in {"export", "bind", "running"}
  /\ p \in exported => pc[p] \in {"bind", "running"}
  /\ p \in bound => pc[p] = "running" /\ p \in registry /\ p \in exported
  /\ pc[p] = "export" => p \in registry
  /\ pc[p] = "bind" => p \in registry /\ p \in exported
  /\ p \in exported /\ pc[p] = "running" => p \in bound \/ Unexporting(p)
  /\ Stopping(p) => p \notin bound
  /\ \A c \in Callers : call[c].server = p => pc[p] = "running"

ServiceInv ==
  /\ pc \in [Servers -> Places]
  /\ call \in [Callers -> CallState]
  /\ registry \subseteq Servers /\ bound \subseteq Servers
  /\ \A p \in Servers : ServerOK(p)

LEMMA ServiceInit == Init => ServiceInv
<1> SUFFICES ASSUME Init PROVE ServiceInv
  OBVIOUS
<1>1. pc \in [Servers -> Places] /\ call \in [Callers -> CallState] /\ registry \subseteq Servers
      /\ bound \subseteq Servers
  BY DEF Init, Places, CallPlaces, CallState, Idle
<1>2. /\ \A p \in Servers : pc[p] = "off"
      /\ \A c \in Callers : call[c].server = Nobody
      /\ registry = {} /\ exported = {} /\ bound = {}
  BY DEF Init, Idle
<1>3. \A p \in Servers : ServerOK(p)
  BY <1>2, ServerAssumption DEF ServerOK, Stopping, Unexporting
<1> QED BY <1>1, <1>3 DEF ServiceInv

\* main() of one server takes a step.
LEMMA ServerGoes ==
  ASSUME pc \in [Servers -> Places], NEW p \in Servers, NEW to \in Places,
         pc' = [pc EXCEPT ![p] = to]
  PROVE  /\ pc' \in [Servers -> Places]
         /\ pc'[p] = to
         /\ \A q \in Servers : q # p => pc'[q] = pc[q]
OBVIOUS

\* A call takes a step at its server.
LEMMA CallGoes ==
  ASSUME call \in [Callers -> CallState], NEW c \in Callers, NEW p \in Servers,
         NEW from \in CallPlaces, NEW to \in CallPlaces, Caller(c, from, to, p)
  PROVE  /\ call' \in [Callers -> CallState]
         /\ call[c].at = from /\ call[c].server = p
         /\ call'[c].at = to /\ call'[c].server = (IF to = "idle" THEN Nobody ELSE p)
         /\ \A d \in Callers : d # c => call'[d] = call[d]
<1> DEFINE next == IF to = "idle" THEN Idle ELSE [at |-> to, server |-> p]
<1>1. call[c].at = from /\ call[c].server = p
  BY DEF Caller, Calling
<1>2. next \in CallState /\ next.at = to /\ next.server = (IF to = "idle" THEN Nobody ELSE p)
  BY DEF Idle, CallState, CallPlaces
<1>3. call' = [call EXCEPT ![c] = next]
  BY DEF Caller
<1> HIDE DEF next
<1> QED BY <1>1, <1>2, <1>3

\* While main() goes through start(), nobody can be calling the server.  (Where start()
\* fails, the process ends: ServiceOfEnds.)
LEMMA ServiceOfMain ==
  ASSUME ServiceInv, NEW p \in Servers,
         \/ Boot(p) \/ Load(p) \/ SaveOpens(p) \/ SaveWrites(p) \/ SaveFails(p)
         \/ CreateRegistry(p) \/ Export(p) \/ Bind(p),
         ~Ends(p)
  PROVE  ServiceInv'
<1>0. PICK to \in Places :
        /\ pc' = [pc EXCEPT ![p] = to] /\ pc[p] # "running" /\ call' = call
        /\ \/ /\ pc[p] \in {"off", "load", "open", "write", "create"}
              /\ to \in {"load", "open", "write", "create"}
              /\ UNCHANGED <<registry, exported, bound>>
           \/ /\ pc[p] = "create" /\ to = "export" /\ registry' = registry \cup {p}
              /\ UNCHANGED <<exported, bound>>
           \/ /\ pc[p] = "export" /\ to = "bind" /\ exported' = exported \cup {p}
              /\ UNCHANGED <<registry, bound>>
           \/ /\ pc[p] = "bind" /\ to = "running" /\ bound' = bound \cup {p}
              /\ UNCHANGED <<registry, exported>>
  BY DEF Boot, Load, SaveOpens, SaveWrites, SaveFails, CreateRegistry, Export, Bind, Goes,
         serviceVars, Places
<1>1. /\ pc' \in [Servers -> Places]
      /\ pc'[p] = to
      /\ \A q \in Servers : q # p => pc'[q] = pc[q]
  BY <1>0, ServerGoes DEF ServiceInv
<1>2. \A c \in Callers : call[c].server # p
  BY <1>0 DEF ServiceInv, ServerOK
<1>3. /\ ~Stopping(p)
      /\ \A q \in Servers : (Stopping(q)' <=> Stopping(q)) /\ (Unexporting(q)' <=> Unexporting(q))
  BY <1>0, <1>2 DEF Stopping, Unexporting
<1>4. ASSUME NEW q \in Servers, q # p PROVE ServerOK(q)'
  <2>1. /\ ServerOK(q) /\ pc'[q] = pc[q]
        /\ Stopping(q)' <=> Stopping(q)
        /\ Unexporting(q)' <=> Unexporting(q)
    BY <1>1, <1>3, <1>4 DEF ServiceInv
  <2>2. /\ q \in registry' <=> q \in registry
        /\ q \in exported' <=> q \in exported
        /\ q \in bound' <=> q \in bound
    BY <1>0, <1>4
  <2> QED BY <1>0, <2>1, <2>2 DEF ServerOK
<1>5. ServerOK(p)'
  <2>1. ServerOK(p) /\ ~Stopping(p)' /\ pc'[p] = to
    BY <1>1, <1>3 DEF ServiceInv
  <2> QED BY <1>0, <1>2, <2>1 DEF ServerOK
<1>6. registry' \subseteq Servers /\ bound' \subseteq Servers /\ call' \in [Callers -> CallState]
  BY <1>0 DEF ServiceInv
<1> QED BY <1>1, <1>4, <1>5, <1>6 DEF ServiceInv

LEMMA ServiceOfLookUp ==
  ASSUME ServiceInv, NEW c \in Callers, NEW p \in Servers, LookUp(c, p)
  PROVE  ServiceInv'
<1>1. /\ call[c] = Idle /\ p \in bound /\ call' = [call EXCEPT ![c] = [at |-> "stub", server |-> p]]
      /\ UNCHANGED <<pc, registry, exported, bound>>
  BY DEF LookUp, serviceVars
<1>2. /\ call' \in [Callers -> CallState]
      /\ call[c].at = "idle" /\ call'[c].at = "stub" /\ call'[c].server = p
      /\ \A d \in Callers : d # c => call'[d] = call[d]
  BY <1>1 DEF ServiceInv, CallState, CallPlaces, Idle
<1>3. \A q \in Servers : (Stopping(q)' <=> Stopping(q)) /\ (Unexporting(q)' <=> Unexporting(q))
  BY <1>2 DEF Stopping, Unexporting
<1>4. pc[p] = "running"
  BY <1>1 DEF ServiceInv, ServerOK
<1>5. ASSUME NEW q \in Servers PROVE ServerOK(q)'
  BY <1>1, <1>2, <1>3, <1>4 DEF ServiceInv, ServerOK
<1> QED BY <1>1, <1>2, <1>5 DEF ServiceInv

LEMMA ServiceOfCalls ==
  ASSUME ServiceInv, NEW c \in Callers, NEW p \in Servers, CallStep(c, p)
  PROVE  ServiceInv'
<1>0. PICK from \in CallPlaces, to \in CallPlaces :
        /\ Caller(c, from, to, p) /\ pc' = pc
        /\ \/ from = "stub" /\ to \in {"unbind", "idle"} /\ UNCHANGED <<registry, exported, bound>>
           \/ /\ from = "unbind" /\ UNCHANGED <<registry, exported>>
              /\ \/ to = "unexport" /\ bound' = bound \ {p}
                 \/ to = "idle" /\ bound' = bound
           \/ /\ from = "unexport" /\ to = "registry" /\ exported' = exported \ {p}
              /\ UNCHANGED <<registry, bound>>
           \/ /\ from = "registry" /\ to = "idle" /\ registry' = registry \ {p}
              /\ UNCHANGED <<exported, bound>>
  BY DEF CallStep, Invoke, Unbind, Unexport, UnexportRegistry, CallPlaces, serviceVars
<1>1. /\ call' \in [Callers -> CallState]
      /\ call[c].at = from /\ call[c].server = p
      /\ call'[c].at = to /\ call'[c].server = (IF to = "idle" THEN Nobody ELSE p)
      /\ \A d \in Callers : d # c => call'[d] = call[d]
  BY <1>0, CallGoes DEF ServiceInv
<1>2. ASSUME NEW q \in Servers, q # p PROVE ServerOK(q)'
  <2>1. (Stopping(q)' <=> Stopping(q)) /\ (Unexporting(q)' <=> Unexporting(q))
    BY <1>1, <1>2, ServerAssumption DEF Stopping, Unexporting
  <2>2. /\ q \in registry' <=> q \in registry
        /\ q \in exported' <=> q \in exported
        /\ q \in bound' <=> q \in bound
        /\ pc'[q] = pc[q]
    BY <1>0, <1>2
  <2>3. \A d \in Callers : call'[d].server = q => call[d].server = q
    BY <1>1, <1>2, ServerAssumption
  <2>4. ServerOK(q)
    BY DEF ServiceInv
  <2> QED BY <2>1, <2>2, <2>3, <2>4 DEF ServerOK
<1>3. ServerOK(p)'
  <2>1. ServerOK(p) /\ pc[p] = "running" /\ pc'[p] = "running"
    BY <1>0, <1>1 DEF ServiceInv, ServerOK
  <2>2. to \in {"unexport", "registry"} => Stopping(p)'
    BY <1>1, ServerAssumption DEF Stopping
  <2>3. from \notin {"unexport", "registry"} /\ to \notin {"unexport", "registry"}
          => (Stopping(p)' <=> Stopping(p))
    BY <1>1, ServerAssumption DEF Stopping
  <2>4. from \in {"unexport", "registry"} => Stopping(p)
    BY <1>1 DEF Stopping
  <2>5. Stopping(p)' => Stopping(p) \/ to \in {"unexport", "registry"}
    BY <1>1 DEF Stopping
  <2>6. Unexporting(p) /\ from # "unexport" => Unexporting(p)'
    BY <1>1 DEF Unexporting
  <2>7. to = "unexport" => Unexporting(p)'
    BY <1>1, ServerAssumption DEF Unexporting
  <2> QED BY <1>0, <2>1, <2>2, <2>3, <2>4, <2>5, <2>6, <2>7 DEF ServerOK
<1>4. registry' \subseteq Servers /\ bound' \subseteq Servers /\ pc' \in [Servers -> Places]
  BY <1>0 DEF ServiceInv
<1> QED BY <1>1, <1>2, <1>3, <1>4 DEF ServiceInv

LEMMA ServiceOfEnds ==
  ASSUME ServiceInv, NEW p \in Servers, Ends(p)
  PROVE  ServiceInv'
<1>1. /\ pc' = [pc EXCEPT ![p] = "off"]
      /\ p \notin registry' /\ p \notin exported' /\ p \notin bound'
      /\ \A q \in Servers : q # p => /\ q \in registry' <=> q \in registry
                                     /\ q \in exported' <=> q \in exported
                                     /\ q \in bound' <=> q \in bound
      /\ registry' \subseteq registry /\ bound' \subseteq bound
      /\ call' = [c \in Callers |-> IF call[c].server = p THEN Idle ELSE call[c]]
  BY DEF Ends
<1>2. /\ pc' \in [Servers -> Places]
      /\ pc'[p] = "off"
      /\ \A q \in Servers : q # p => pc'[q] = pc[q]
  BY <1>1, ServerGoes DEF ServiceInv, Places
<1>3. /\ call' \in [Callers -> CallState]
      /\ \A c \in Callers : IF call[c].server = p
                            THEN call'[c].server = Nobody ELSE call'[c] = call[c]
  BY <1>1 DEF ServiceInv, CallState, CallPlaces, Idle
<1>4. \A q \in Servers : q # p =>
        (Stopping(q)' <=> Stopping(q)) /\ (Unexporting(q)' <=> Unexporting(q))
  BY <1>3, ServerAssumption DEF Stopping, Unexporting
<1>5. ~Stopping(p)' /\ \A c \in Callers : call'[c].server # p
  BY <1>3, ServerAssumption DEF Stopping
<1>6. ASSUME NEW q \in Servers, q # p PROVE ServerOK(q)'
  <2>1. ServerOK(q)
    BY DEF ServiceInv
  <2>2. \A c \in Callers : call'[c].server = q => call[c].server = q
    BY <1>3, ServerAssumption
  <2> QED BY <1>1, <1>2, <1>4, <1>6, <2>1, <2>2 DEF ServerOK
<1>7. ServerOK(p)'
  BY <1>1, <1>2, <1>5 DEF ServerOK
<1>8. registry' \subseteq Servers /\ bound' \subseteq Servers
  BY <1>1 DEF ServiceInv
<1> QED BY <1>2, <1>3, <1>6, <1>7, <1>8 DEF ServiceInv

THEOREM ServiceInvHolds == Spec => []ServiceInv
<1>1. ServiceInv /\ [Next]_vars => ServiceInv'
  <2> SUFFICES ASSUME ServiceInv, [Next]_vars PROVE ServiceInv'
    OBVIOUS
  <2>1. CASE UNCHANGED <<pc, registry, exported, bound, call>>
    BY <2>1 DEF ServiceInv, ServerOK, Stopping, Unexporting
  <2>2. CASE UNCHANGED vars \/ UserEdits
    BY <2>1, <2>2 DEF vars, UserEdits, serviceVars
  <2>3. ASSUME NEW p \in Servers, Boot(p) \/ MainStep(p) \/ Killed(p) PROVE ServiceInv'
    BY <2>3, ServiceOfMain, ServiceOfEnds DEF MainStep, Exits, Killed
  <2>4. ASSUME NEW p \in Servers, NEW c \in Callers, LookUp(c, p) \/ CallStep(c, p)
        PROVE  ServiceInv'
    BY <2>4, ServiceOfLookUp, ServiceOfCalls
  <2> QED BY <2>2, <2>3, <2>4 DEF Next
<1> QED BY <1>1, ServiceInit, PTL DEF Spec

\* A name that can be found belongs to a service that can be called, however calls
\* of shutDown() and kills overlap (RemBotServiceImpl.start, stop).
THEOREM FoundIsLive == Spec => []LookUpIsLive
<1>1. ServiceInv => LookUpIsLive
  BY DEF ServiceInv, ServerOK, LookUpIsLive
<1> QED BY <1>1, ServiceInvHolds, PTL

\* No server that started in order is left with the port when it can no longer be
\* found, unless its process is about to end (RemBotServiceImpl.stop).
THEOREM PortReleased == Spec => []PortNotLeaked
<1>1. ServiceInv => PortNotLeaked
  <2> SUFFICES ASSUME ServiceInv, NEW p \in registry, pc[p] = "running",
                      p \notin bound, p \in exported
               PROVE  \E c \in Callers : Calling(c, "unexport", p)
    BY DEF PortNotLeaked
  <2>1. p \in Servers
    BY DEF ServiceInv
  <2>2. PICK c \in Callers : call[c].server = p /\ call[c].at = "unexport"
    BY <2>1 DEF ServiceInv, ServerOK, Unexporting
  <2>3. call[c] \in CallState
    BY DEF ServiceInv
  <2>4. call[c] = [at |-> "unexport", server |-> p]
    BY <2>2, <2>3 DEF CallState
  <2> QED BY <2>2, <2>4 DEF Calling
<1> QED BY <1>1, ServiceInvHolds, PTL

-----------------------------------------------------------------------------
(* The settings.                                                           *)

Agree(settings) == \A f \in Fields : user[f] # Unset => settings[f] = user[f]

\* As long as no half written file was read, a server that is starting holds what
\* the user has set, so its writing the file back changes nothing of that.
SettingsInv ==
  /\ pc \in [Servers -> Places]
  /\ conf \in [Servers -> [Fields -> Values]]
  /\ user \in UserFiles
  /\ torn \in BOOLEAN
  /\ \A f \in Fields \cap DOMAIN file.lines : file.lines[f] \in Values \cup {Unset}
  /\ file.closed = TRUE => Fields \subseteq DOMAIN file.lines
  /\ ~torn /\ file.closed = TRUE => Agree(file.lines)
  /\ ~torn => \A p \in Servers : pc[p] \in {"open", "write"} => Agree(conf[p])

LEMMA SettingsInit == Init => SettingsInv
<1> SUFFICES ASSUME Init PROVE SettingsInv
  OBVIOUS
<1>1. file.lines = user /\ user \in [Fields -> Values \cup {Unset}] /\ DOMAIN user = Fields
  BY ServerAssumption DEF Init, Complete
<1>2. /\ pc \in [Servers -> Places]
      /\ conf \in [Servers -> [Fields -> Values]]
      /\ \A p \in Servers : pc[p] = "off"
  BY ServerAssumption DEF Init, Places
<1> QED BY <1>1, <1>2 DEF Init, SettingsInv, Agree

LEMMA SettingsOfUser ==
  ASSUME SettingsInv, UserEdits
  PROVE  SettingsInv'
<1>1. user' \in UserFiles /\ file' = Complete(user') /\ UNCHANGED <<torn, conf, pc>>
  BY DEF UserEdits
<1>2. /\ user' \in [Fields -> Values \cup {Unset}] /\ DOMAIN user' = Fields
      /\ file'.lines = user'
  BY <1>1, ServerAssumption DEF Complete
<1>3. \A p \in Servers : pc'[p] \notin {"open", "write"}
  BY <1>1 DEF UserEdits, Starting
<1>4. Agree(file.lines)'
  BY <1>2 DEF Agree
<1> QED BY <1>1, <1>2, <1>3, <1>4 DEF SettingsInv

LEMMA SettingsOfBoot ==
  ASSUME SettingsInv, NEW p \in Servers, Boot(p)
  PROVE  SettingsInv'
<1>1. /\ pc' \in [Servers -> Places] /\ pc'[p] = "load"
      /\ \A q \in Servers : q # p => pc'[q] = pc[q]
  BY ServerGoes DEF Boot, Goes, SettingsInv, Places
<1>2. /\ conf' \in [Servers -> [Fields -> Values]]
      /\ \A q \in Servers : q # p => conf'[q] = conf[q]
      /\ UNCHANGED <<file, user, torn>>
  BY ServerAssumption DEF Boot, SettingsInv
<1> QED BY <1>1, <1>2 DEF SettingsInv, Agree

LEMMA SettingsOfLoad ==
  ASSUME SettingsInv, NEW p \in Servers, Load(p)
  PROVE  SettingsInv'
<1> DEFINE loaded == [f \in Fields |-> IF f \in DOMAIN file.lines /\ file.lines[f] # Unset
                                       THEN file.lines[f] ELSE Default[f]]
<1>1. /\ pc' \in [Servers -> Places] /\ pc'[p] = "open"
      /\ \A q \in Servers : q # p => pc'[q] = pc[q]
  BY ServerGoes DEF Load, Goes, SettingsInv, Places
<1>2. /\ conf' = [conf EXCEPT ![p] = loaded] /\ UNCHANGED <<file, user>>
      /\ torn' = (torn \/ ~file.closed)
  BY DEF Load
<1>3. loaded \in [Fields -> Values]
  BY ServerAssumption DEF SettingsInv
<1>4. ASSUME ~torn' PROVE Agree(loaded)
  <2>1. ~torn /\ file.closed
    BY <1>2, <1>4
  <2>2. Fields \subseteq DOMAIN file.lines /\ Agree(file.lines)
    BY <2>1 DEF SettingsInv
  <2> QED BY <2>2 DEF Agree
<1> HIDE DEF loaded
<1>5. /\ conf' \in [Servers -> [Fields -> Values]] /\ conf'[p] = loaded
      /\ \A q \in Servers : q # p => conf'[q] = conf[q]
  BY <1>2, <1>3 DEF SettingsInv
<1> QED BY <1>1, <1>2, <1>4, <1>5 DEF SettingsInv, Agree

\* A server that writes the file back, wholly or in part, at most leaves it torn.
LEMMA SettingsOfSave ==
  ASSUME SettingsInv, NEW p \in Servers, SaveOpens(p) \/ SaveWrites(p) \/ SaveFails(p)
  PROVE  SettingsInv'
<1>1. PICK to \in {"write", "create"} :
        /\ pc' = [pc EXCEPT ![p] = to] /\ pc[p] \in {"open", "write"}
        /\ to = "write" => pc[p] = "open"
        /\ UNCHANGED <<user, torn, conf>>
  BY DEF SaveOpens, SaveWrites, SaveFails, Goes
<1>2. /\ pc' \in [Servers -> Places]
      /\ \A q \in Servers : pc'[q] \in {"open", "write"} => pc[q] \in {"open", "write"}
  <2>1. to \in Places
    BY DEF Places
  <2> QED BY <1>1, <2>1, ServerGoes DEF SettingsInv
<1>3. conf[p] \in [Fields -> Values] /\ DOMAIN conf[p] = Fields
  BY DEF SettingsInv
<1>4. /\ \A f \in Fields \cap DOMAIN file'.lines : file'.lines[f] \in Values \cup {Unset}
      /\ file'.closed = TRUE => file'.lines = conf[p]
  <2>1. CASE SaveOpens(p)
    BY <2>1 DEF SaveOpens
  <2>2. CASE SaveWrites(p)
    <3>1. file'.lines = conf[p]
      BY <2>2 DEF SaveWrites, Complete
    <3> QED BY <3>1, <1>3
  <2>3. CASE SaveFails(p)
    <3>1. PICK n \in 0..NumFields :
            file' = [lines |-> [f \in 1..n |-> conf[p][f]], closed |-> FALSE]
      BY <2>3 DEF SaveFails
    <3> DEFINE top == [f \in 1..n |-> conf[p][f]]
    <3>2. file'.lines = top /\ file'.closed = FALSE
      BY <3>1
    <3>3. \A f \in Fields \cap DOMAIN top : top[f] \in Values
      BY <1>3
    <3> HIDE DEF top
    <3> QED BY <3>2, <3>3
  <2> QED BY <2>1, <2>2, <2>3
<1> QED BY <1>1, <1>2, <1>3, <1>4 DEF SettingsInv, Agree

\* The other steps leave the settings alone.
LEMMA SettingsOfService ==
  ASSUME SettingsInv, NEW p \in Servers, NEW to \in Places \ {"open", "write"},
         UNCHANGED configVars, pc' = [pc EXCEPT ![p] = to]
  PROVE  SettingsInv'
<1>1. /\ pc' \in [Servers -> Places] /\ pc'[p] = to
      /\ \A q \in Servers : q # p => pc'[q] = pc[q]
  BY ServerGoes DEF SettingsInv
<1>2. UNCHANGED <<file, user, torn, conf>>
  BY DEF configVars
<1> QED BY <1>1, <1>2 DEF SettingsInv, Agree

\* Starting servers, also several at once, loses nothing the user has set, as long as
\* no half written file is read (ServerConfig.createServerConfig, saveToXml).
THEOREM UserSettingsSurvive == Spec => []SettingsSurvive
<1>1. SettingsInv /\ [Next]_vars => SettingsInv'
  <2> SUFFICES ASSUME SettingsInv, [Next]_vars PROVE SettingsInv'
    OBVIOUS
  <2>1. CASE UNCHANGED <<configVars, pc>>
    BY <2>1 DEF configVars, SettingsInv, Agree
  <2>2. ASSUME NEW p \in Servers, MainStep(p) PROVE SettingsInv'
    <3>1. CASE Load(p)
      BY <3>1, SettingsOfLoad
    <3>2. CASE SaveOpens(p) \/ SaveWrites(p) \/ SaveFails(p)
      BY <3>2, SettingsOfSave
    <3>3. CASE CreateRegistry(p) \/ Export(p) \/ Bind(p) \/ Exits(p)
      BY <3>3, SettingsOfService
         DEF CreateRegistry, Export, Bind, Exits, Ends, Goes, Places
    <3> QED BY <2>2, <3>1, <3>2, <3>3 DEF MainStep
  <2>3. ASSUME NEW p \in Servers, Killed(p) PROVE SettingsInv'
    BY <2>3, SettingsOfService DEF Killed, Ends, Places
  <2>4. ASSUME NEW p \in Servers, NEW c \in Callers, LookUp(c, p) \/ CallStep(c, p)
        PROVE  SettingsInv'
    BY <2>1, <2>4 DEF LookUp, CallStep, Invoke, Unbind, Unexport, UnexportRegistry
  <2>5. CASE UNCHANGED vars
    BY <2>1, <2>5 DEF vars
  <2> QED BY <2>2, <2>3, <2>4, <2>5, SettingsOfUser, SettingsOfBoot DEF Next
<1>2. SettingsInv => SettingsSurvive
  BY DEF SettingsInv, SettingsSurvive, Agree
<1> QED BY <1>1, <1>2, SettingsInit, PTL DEF Spec
=============================================================================
