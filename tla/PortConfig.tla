---------------------------- MODULE PortConfig ----------------------------
(***************************************************************************)
(* pkg/devicestate/config.go: which OvsPortConfig a request of a claim     *)
(* gets.  The allocation of a claim carries a list of configuration        *)
(* entries; an entry names its driver, its source (the device class or the *)
(* claim), the requests it is for, none for all of them, and carries       *)
(* parameters.  parses says that they unmarshal into an OvsPortConfig of   *)
(* the right kind and apiVersion, and config is that OvsPortConfig.        *)
(***************************************************************************)
EXTENDS Integers, Sequences

CONSTANTS
  Request,     \* request names
  DriverName,  \* consts.DriverName
  Nil          \* a nil pointer

(* An OvsPortConfig, and an entry of the list.                             *)
OvsPortConfigs ==
  [vlan : Int \cup {Nil}, policing : {Nil} \cup [maxRate : Nat \cup {Nil}, burst : Nat \cup {Nil}]]

ConfigEntry == [driver : STRING, source : STRING, requests : SUBSET Request,
                parses : BOOLEAN, config : OvsPortConfigs]

ASSUME NilAssumption == Nil \notin OvsPortConfigs

(* An untagged port without policing.                                      *)
DefaultOvsPortConfig == [vlan |-> Nil, policing |-> Nil]

validatePortConfig(cfg) ==
  /\ cfg.vlan # Nil => cfg.vlan \in 0 .. 4095
  /\ cfg.policing # Nil => cfg.policing.maxRate # Nil

Ignored(entry) == entry.driver # DriverName \/ entry.source = "FromClass"

Acceptable(entry) ==
  entry.source = "FromClaim" /\ entry.parses /\ validatePortConfig(entry.config)

NoConfigs == [ok |-> TRUE, byRequest |-> [q \in Request |-> Nil], defaultCfg |-> Nil]

(* Mutant: an entry for all requests is for each of them.                  *)
ApplyToEach(result, entry) ==
  IF ~result.ok \/ Ignored(entry) THEN result
  ELSE IF ~Acceptable(entry) THEN [result EXCEPT !.ok = FALSE]
  ELSE [result EXCEPT !.byRequest =
          [q \in Request |-> IF entry.requests = {} \/ q \in entry.requests
                             THEN entry.config ELSE result.byRequest[q]]]

(* Mutant: a bad entry is passed over.                                     *)
ApplySkipping(result, entry) ==
  IF Ignored(entry) \/ ~Acceptable(entry) THEN result
  ELSE IF entry.requests = {} THEN [result EXCEPT !.defaultCfg = entry.config]
  ELSE [result EXCEPT !.byRequest =
          [q \in Request |-> IF q \in entry.requests
                             THEN entry.config ELSE result.byRequest[q]]]

(* One entry of the list: an error ends the loop.                          *)
Apply(result, entry) ==
  IF ~result.ok \/ Ignored(entry) THEN result
  ELSE IF ~Acceptable(entry) THEN [result EXCEPT !.ok = FALSE]
  ELSE IF entry.requests = {} THEN [result EXCEPT !.defaultCfg = entry.config]
  ELSE [result EXCEPT !.byRequest =
          [q \in Request |-> IF q \in entry.requests
                             THEN entry.config ELSE result.byRequest[q]]]

parseClaimConfigs(configs) ==
  LET after[i \in 0 .. Len(configs)] ==
        IF i = 0 THEN NoConfigs ELSE Apply(after[i - 1], configs[i])
  IN after[Len(configs)]

getConfig(parsed, q) ==
  IF parsed.byRequest[q] # Nil THEN parsed.byRequest[q]
  ELSE IF parsed.defaultCfg # Nil THEN parsed.defaultCfg
  ELSE DefaultOvsPortConfig

(* What of an OvsPortConfig reaches the port: no policing is rate 0 and    *)
(* burst 0.                                                                *)
ovsPortParams(cfg) ==
  LET policing == cfg.policing
      valueOf(p) == IF p = Nil THEN 0 ELSE p
  IN [vlan  |-> cfg.vlan,
      rate  |-> IF policing = Nil THEN 0 ELSE valueOf(policing.maxRate),
      burst |-> IF policing = Nil THEN 0 ELSE valueOf(policing.burst)]

-----------------------------------------------------------------------------
(* What a list of entries asks for, said without the loop.                 *)

OwnEntries(configs) == {i \in DOMAIN configs : ~Ignored(configs[i])}

(* Every entry of the claim that is for this driver is acceptable.         *)
WellConfigured(configs) == \A i \in OwnEntries(configs) : Acceptable(configs[i])

(* The last entry that names the request, else the last one for all        *)
(* requests, else the default.                                             *)
RequestedConfig(configs, q) ==
  LET naming == {i \in OwnEntries(configs) : q \in configs[i].requests}
      general == {i \in OwnEntries(configs) : configs[i].requests = {}}
      last(I) == CHOOSE i \in I : \A j \in I : j <= i
  IN IF naming # {} THEN configs[last(naming)].config
     ELSE IF general # {} THEN configs[last(general)].config
     ELSE DefaultOvsPortConfig
=============================================================================
