--------------------------- MODULE PromiseProofs ---------------------------
(***************************************************************************)
(* What a prepared claim is, for any claims, pods, allocations and         *)
(* configurations and any number of failures: its ports are configured the *)
(* way its entries ask, for any list of entries, and it is usable as       *)
(* PreparedClaims says: under the inductive invariant every step of Driver *)
(* is a step of PreparedClaims or changes nothing there.                   *)
(***************************************************************************)
EXTENDS DriverProofs, DriverResources, DriverRefinement, SequenceLemmas

(* First-order leaves go to Zenon; a leaf for the SMT solver says SMTT.    *)
USE ZenonT(60), SMTT(60)

-----------------------------------------------------------------------------
(* parseClaimConfigs and getConfig compute RequestedConfig.                *)

(* The results of the loop of parseClaimConfigs after each entry.          *)
IsParse(configs, n, f) ==
  f = [i \in 0 .. n |-> IF i = 0 THEN NoConfigs ELSE Apply(f[i - 1], configs[i])]

(* parseClaimConfigs is well defined: the loop has a result after every    *)
(* entry.                                                                  *)
LEMMA ParseDefined ==
  ASSUME NEW configs, NEW n \in Nat
  PROVE  \E f : IsParse(configs, n, f)
<1> DEFINE Good == {k \in Nat : \E f : IsParse(configs, k, f)}
<1>1. 0 \in Good
  <2> DEFINE g == [i \in 0 .. 0 |-> NoConfigs]
  <2>1. \A i \in 0 .. 0 : i = 0
    BY SMTT(60)
  <2>2. g = [i \in 0 .. 0 |-> IF i = 0 THEN NoConfigs ELSE Apply(g[i - 1], configs[i])]
    BY <2>1
  <2> QED
    BY <2>2 DEF IsParse
<1>2. ASSUME NEW k \in Nat, k \in Good PROVE k + 1 \in Good
  <2>1. PICK f : IsParse(configs, k, f)
    BY <1>2
  <2> DEFINE g == [i \in 0 .. k + 1 |-> IF i = 0 THEN NoConfigs ELSE Apply(f[i - 1], configs[i])]
  <2>2. ASSUME NEW i \in 0 .. k PROVE g[i] = f[i]
    <3>1. f[i] = IF i = 0 THEN NoConfigs ELSE Apply(f[i - 1], configs[i])
      BY <2>1 DEF IsParse
    <3>2. i \in 0 .. k + 1
      BY SMTT(60)
    <3> QED
      BY <3>1, <3>2
  <2>3. ASSUME NEW i \in 0 .. k + 1, i # 0 PROVE g[i - 1] = f[i - 1]
    <3>1. i - 1 \in 0 .. k
      BY SMTT(60), <2>3
    <3> QED
      BY <3>1, <2>2
  <2>4. g = [i \in 0 .. k + 1 |-> IF i = 0 THEN NoConfigs ELSE Apply(g[i - 1], configs[i])]
    BY <2>3
  <2>5. k + 1 \in Nat
    BY SMTT(60)
  <2> HIDE DEF g
  <2> QED
    BY <2>4, <2>5 DEF IsParse
<1> HIDE DEF Good
<1>3. Nat \subseteq Good
  BY <1>1, <1>2, NatSetInduction
<1> QED
  BY <1>3 DEF Good

(* The own entries among the first n that a request finds by name, or that *)
(* are for all requests.                                                   *)
Naming(configs, q, n) == {i \in OwnEntries(configs) : i <= n /\ q \in configs[i].requests}
General(configs, n) == {i \in OwnEntries(configs) : i <= n /\ configs[i].requests = {}}

(* The value is the configuration of the last of the entries, if any.      *)
LastOf(configs, I, value) ==
  \/ I = {} /\ value = Nil
  \/ \E m \in I : (\A j \in I : j <= m) /\ value = configs[m].config

(* A claimPortConfigs, with the error of the loop in ok.                   *)
IsConfigs(result) ==
  /\ result.ok \in BOOLEAN
  /\ result = [ok |-> result.ok, byRequest |-> result.byRequest,
               defaultCfg |-> result.defaultCfg]

(* What the loop knows after n entries.                                    *)
Parsed(configs, n, result) ==
  /\ IsConfigs(result)
  /\ result.ok <=> \A i \in OwnEntries(configs) : i <= n => Acceptable(configs[i])
  /\ result.ok => /\ \A q \in Request : LastOf(configs, Naming(configs, q, n), result.byRequest[q])
                  /\ LastOf(configs, General(configs, n), result.defaultCfg)

(* What one round of the loop does to its result.                          *)
LEMMA ApplyFacts ==
  ASSUME NEW r, IsConfigs(r), NEW e
  PROVE  LET s == Apply(r, e) IN
         /\ IsConfigs(s)
         /\ ~r.ok \/ Ignored(e) => s = r
         /\ r.ok /\ ~Ignored(e) /\ ~Acceptable(e) => ~s.ok
         /\ r.ok /\ ~Ignored(e) /\ Acceptable(e) =>
              /\ s.ok
              /\ s.defaultCfg = IF e.requests = {} THEN e.config ELSE r.defaultCfg
              /\ \A q \in Request :
                   s.byRequest[q] = IF q \in e.requests THEN e.config ELSE r.byRequest[q]
<1> DEFINE s == Apply(r, e)
           R(a, b, d) == [ok |-> a, byRequest |-> b, defaultCfg |-> d]
<1>0. r = R(r.ok, r.byRequest, r.defaultCfg) /\ r.ok \in BOOLEAN
  BY DEF IsConfigs
<1>1. CASE ~r.ok \/ Ignored(e)
  <2>1. s = r
    BY <1>1 DEF Apply
  <2> QED
    BY <1>1, <2>1
<1>2. CASE r.ok /\ ~Ignored(e) /\ ~Acceptable(e)
  <2>1. s = R(FALSE, r.byRequest, r.defaultCfg)
    BY <1>0, <1>2 DEF Apply
  <2>2. s.ok = FALSE /\ s.byRequest = r.byRequest /\ s.defaultCfg = r.defaultCfg
    BY SMTT(60), <2>1
  <2> HIDE DEF s
  <2>3. IsConfigs(s)
    BY <2>1, <2>2 DEF IsConfigs
  <2> QED
    BY <1>2, <2>2, <2>3 DEF s
<1>3. CASE r.ok /\ ~Ignored(e) /\ Acceptable(e) /\ e.requests = {}
  <2>1. s = R(r.ok, r.byRequest, e.config)
    BY <1>0, <1>3 DEF Apply
  <2>2. s.ok = r.ok /\ s.byRequest = r.byRequest /\ s.defaultCfg = e.config
    BY SMTT(60), <2>1
  <2> HIDE DEF s
  <2>3. IsConfigs(s)
    BY <1>0, <2>1, <2>2 DEF IsConfigs
  <2>4. \A q \in Request : q \notin e.requests
    BY <1>3
  <2> QED
    BY <1>3, <2>2, <2>3, <2>4 DEF s
<1>4. CASE r.ok /\ ~Ignored(e) /\ Acceptable(e) /\ e.requests # {}
  <2> DEFINE b == [q \in Request |-> IF q \in e.requests THEN e.config ELSE r.byRequest[q]]
  <2>1. s = R(r.ok, b, r.defaultCfg)
    BY <1>0, <1>4 DEF Apply
  <2>2. s.ok = r.ok /\ s.byRequest = b /\ s.defaultCfg = r.defaultCfg
    BY SMTT(60), <2>1
  <2> HIDE DEF s
  <2>3. IsConfigs(s)
    BY <1>0, <2>1, <2>2 DEF IsConfigs
  <2> QED
    BY <1>4, <2>2, <2>3 DEF s
<1> QED
  BY <1>0, <1>1, <1>2, <1>3, <1>4

(* The last entry counts.                                                  *)
LEMMA LastOfStep ==
  ASSUME NEW configs, NEW I, NEW J, NEW n \in Nat,
         \A i \in I : i \in Nat /\ i <= n, J = I \cup {n + 1}
  PROVE  LastOf(configs, J, configs[n + 1].config)
<1>1. \A j \in J : j <= n + 1
  BY SMTT(60)
<1> QED
  BY <1>1 DEF LastOf

(* A round of the loop keeps Parsed.                                       *)
LEMMA ParseStep ==
  ASSUME NEW configs \in Seq(ConfigEntry), NEW n \in Nat, n + 1 \in 1 .. Len(configs),
         NEW r, Parsed(configs, n, r)
  PROVE  Parsed(configs, n + 1, Apply(r, configs[n + 1]))
<1> DEFINE e == configs[n + 1]
           s == Apply(r, e)
           N(q, k) == Naming(configs, q, k)
           G(k) == General(configs, k)
<1>1. /\ OwnEntries(configs) \subseteq 1 .. Len(configs)
      /\ n + 1 \in OwnEntries(configs) <=> ~Ignored(e)
      /\ \A i \in OwnEntries(configs) : i \in Nat
  <2>1. DOMAIN configs = 1 .. Len(configs) /\ 1 .. Len(configs) \subseteq Nat
    BY SMTT(60)
  <2> QED
    BY <2>1 DEF OwnEntries
<1>2. \A i \in OwnEntries(configs) : i <= n + 1 <=> i <= n \/ i = n + 1
  BY SMTT(60), <1>1
<1>3. ~(n + 1 <= n)
  BY SMTT(60)
<1>4. IsConfigs(r)
  BY DEF Parsed
<1>5. CASE ~r.ok \/ Ignored(e)
  <2>1. s = r
    BY <1>4, <1>5, ApplyFacts
  <2>2. CASE Ignored(e)
    <3>1. \A i \in OwnEntries(configs) : i <= n + 1 <=> i <= n
      BY <1>1, <1>2, <2>2
    <3>2. \A q \in Request : N(q, n + 1) = N(q, n)
      BY <3>1 DEF Naming
    <3>3. G(n + 1) = G(n)
      BY <3>1 DEF General
    <3> QED
      BY <2>1, <3>1, <3>2, <3>3 DEF Parsed
  <2>3. CASE ~r.ok
    BY <1>2, <1>4, <2>1, <2>3 DEF Parsed
  <2> QED
    BY <1>5, <2>2, <2>3
<1>6. CASE r.ok /\ ~Ignored(e) /\ ~Acceptable(e)
  <2>1. IsConfigs(s) /\ ~s.ok
    BY <1>4, <1>6, ApplyFacts
  <2>2. n + 1 \in OwnEntries(configs) /\ n + 1 <= n + 1
    BY SMTT(60), <1>1, <1>6
  <2> HIDE DEF s
  <2> QED
    BY <1>6, <2>1, <2>2 DEF Parsed, s
<1>7. CASE r.ok /\ ~Ignored(e) /\ Acceptable(e)
  <2>1. /\ IsConfigs(s) /\ s.ok
        /\ s.defaultCfg = IF e.requests = {} THEN e.config ELSE r.defaultCfg
        /\ \A q \in Request :
              s.byRequest[q] = IF q \in e.requests THEN e.config ELSE r.byRequest[q]
    BY <1>4, <1>7, ApplyFacts
  <2> HIDE DEF s
  <2>2. n + 1 \in OwnEntries(configs)
    BY <1>1, <1>7
  <2>3. ASSUME NEW q \in Request PROVE LastOf(configs, N(q, n + 1), s.byRequest[q])
    <3>1. CASE q \in e.requests
      <4>1. N(q, n + 1) = N(q, n) \cup {n + 1}
        BY <1>2, <2>2, <3>1 DEF Naming
      <4>2. \A i \in N(q, n) : i \in Nat /\ i <= n
        BY <1>1 DEF Naming
      <4>3. LastOf(configs, N(q, n + 1), e.config)
        BY <4>1, <4>2, LastOfStep
      <4> QED
        BY <2>1, <3>1, <4>3
    <3>2. CASE q \notin e.requests
      <4>1. N(q, n + 1) = N(q, n)
        BY <1>2, <3>2 DEF Naming
      <4> QED
        BY <1>7, <2>1, <3>2, <4>1 DEF Parsed
    <3> QED
      BY <3>1, <3>2
  <2>4. LastOf(configs, G(n + 1), s.defaultCfg)
    <3>1. CASE e.requests = {}
      <4>1. G(n + 1) = G(n) \cup {n + 1}
        BY <1>2, <2>2, <3>1 DEF General
      <4>2. \A i \in G(n) : i \in Nat /\ i <= n
        BY <1>1 DEF General
      <4>3. LastOf(configs, G(n + 1), e.config)
        BY <4>1, <4>2, LastOfStep
      <4> QED
        BY <2>1, <3>1, <4>3
    <3>2. CASE e.requests # {}
      <4>1. G(n + 1) = G(n)
        BY <1>2, <3>2 DEF General
      <4> QED
        BY <1>7, <2>1, <3>2, <4>1 DEF Parsed
    <3> QED
      BY <3>1, <3>2
  <2>5. \A i \in OwnEntries(configs) : i <= n + 1 => Acceptable(configs[i])
    BY <1>2, <1>7 DEF Parsed
  <2> QED
    BY <2>1, <2>3, <2>4, <2>5 DEF Parsed, s
<1> QED
  BY <1>4, <1>5, <1>6, <1>7 DEF IsConfigs

(* parseClaimConfigs is the loop after all entries.                        *)
LEMMA ParseResult ==
  ASSUME NEW configs \in Seq(ConfigEntry)
  PROVE  Parsed(configs, Len(configs), parseClaimConfigs(configs))
<1> DEFINE n == Len(configs)
           after == CHOOSE f : IsParse(configs, n, f)
           Good == {k \in Nat : k <= n => Parsed(configs, k, after[k])}
<1>0. n \in Nat
  BY SMTT(60)
<1>1. IsParse(configs, n, after)
  BY <1>0, ParseDefined
<1>2. parseClaimConfigs(configs) = after[n]
  BY DEF parseClaimConfigs, IsParse
<1> HIDE DEF after
<1>3. ASSUME NEW i \in 0 .. n
      PROVE  after[i] = IF i = 0 THEN NoConfigs ELSE Apply(after[i - 1], configs[i])
  BY <1>1 DEF IsParse
<1>4. 0 \in Good
  <2>1. after[0] = NoConfigs
    <3>1. 0 \in 0 .. n
      BY SMTT(60), <1>0
    <3> QED
      BY <1>3, <3>1
  <2>2. NoConfigs.ok = TRUE /\ NoConfigs.defaultCfg = Nil /\ IsConfigs(NoConfigs)
    BY SMTT(60) DEF NoConfigs, IsConfigs
  <2>3. \A q \in Request : NoConfigs.byRequest[q] = Nil
    BY SMTT(60) DEF NoConfigs
  <2>4. \A i \in OwnEntries(configs) : ~(i <= 0)
    BY SMTT(60) DEF OwnEntries
  <2>5. General(configs, 0) = {} /\ \A q \in Request : Naming(configs, q, 0) = {}
    BY <2>4 DEF General, Naming
  <2>6. Parsed(configs, 0, NoConfigs)
    BY <2>2, <2>3, <2>4, <2>5 DEF Parsed, LastOf
  <2>7. 0 \in Nat
    BY SMTT(60)
  <2> QED
    BY <2>1, <2>6, <2>7
<1>5. ASSUME NEW k \in Nat, k \in Good PROVE k + 1 \in Good
  <2>0. k + 1 \in Nat
    BY SMTT(60)
  <2> SUFFICES ASSUME k + 1 <= n PROVE Parsed(configs, k + 1, after[k + 1])
    BY <2>0
  <2>1. k <= n /\ k + 1 \in 0 .. n /\ k + 1 \in 1 .. n /\ k + 1 # 0 /\ (k + 1) - 1 = k
    BY SMTT(60), <1>0
  <2>2. Parsed(configs, k, after[k])
    BY <1>5, <2>1
  <2>3. after[k + 1] = Apply(after[k], configs[k + 1])
    BY <1>3, <2>1
  <2> QED
    BY <2>1, <2>2, <2>3, ParseStep
<1> HIDE DEF Good
<1>6. Nat \subseteq Good
  BY <1>4, <1>5, NatSetInduction
<1>7. n <= n
  BY SMTT(60), <1>0
<1> QED
  BY <1>0, <1>2, <1>6, <1>7 DEF Good

(* What parseClaimConfigs and getConfig make of a list of entries is what  *)
(* the list asks for: one bad entry refuses the claim, and a request gets  *)
(* the last entry that names it, else the last one for all requests.       *)
THEOREM ParsedAsRequested ==
  ASSUME NEW configs \in Seq(ConfigEntry)
  PROVE  /\ parseClaimConfigs(configs).ok <=> WellConfigured(configs)
         /\ WellConfigured(configs) =>
              \A q \in Request :
                getConfig(parseClaimConfigs(configs), q) = RequestedConfig(configs, q)
<1> DEFINE n == Len(configs)
           result == parseClaimConfigs(configs)
           last(I) == CHOOSE i \in I : \A j \in I : j <= i
<1>1. Parsed(configs, n, result)
  BY ParseResult
<1> HIDE DEF result
<1>2. \A i \in OwnEntries(configs) : i \in Nat /\ i <= n
  BY SMTT(60) DEF OwnEntries
<1>3. result.ok <=> WellConfigured(configs)
  BY <1>1, <1>2 DEF Parsed, WellConfigured
<1>4. \A i \in OwnEntries(configs) : configs[i].config # Nil
  <2>1. \A i \in OwnEntries(configs) : configs[i] \in ConfigEntry
    BY SMTT(60) DEF OwnEntries
  <2>2. \A x \in ConfigEntry : x.config \in OvsPortConfigs
    BY DEF ConfigEntry
  <2> QED
    BY <2>1, <2>2, NilAssumption
<1>5. ASSUME NEW I, I \subseteq OwnEntries(configs), NEW v, LastOf(configs, I, v)
      PROVE  /\ I = {} <=> v = Nil
             /\ I # {} => v = configs[last(I)].config
  <2>1. CASE I = {}
    BY <1>5, <2>1 DEF LastOf
  <2>2. CASE I # {}
    <3>1. PICK m \in I : (\A j \in I : j <= m) /\ v = configs[m].config
      BY <1>5, <2>2 DEF LastOf
    <3>2. last(I) \in I /\ \A j \in I : j <= last(I)
      BY <3>1
    <3> HIDE DEF last
    <3>3. last(I) = m
      BY SMTT(60), <1>2, <1>5, <3>1, <3>2
    <3> QED
      BY <1>4, <1>5, <2>2, <3>1, <3>3
  <2> QED
    BY <2>1, <2>2
<1>6. ASSUME WellConfigured(configs), NEW q \in Request
      PROVE  getConfig(result, q) = RequestedConfig(configs, q)
  <2> DEFINE naming == {i \in OwnEntries(configs) : q \in configs[i].requests}
             general == {i \in OwnEntries(configs) : configs[i].requests = {}}
  <2>1. Naming(configs, q, n) = naming /\ General(configs, n) = general
    BY <1>2 DEF Naming, General
  <2>2. LastOf(configs, naming, result.byRequest[q]) /\ LastOf(configs, general, result.defaultCfg)
    BY <1>1, <1>3, <1>6, <2>1 DEF Parsed
  <2>0. naming \subseteq OwnEntries(configs) /\ general \subseteq OwnEntries(configs)
    OBVIOUS
  <2>3. /\ naming = {} <=> result.byRequest[q] = Nil
        /\ naming # {} => result.byRequest[q] = configs[last(naming)].config
        /\ general = {} <=> result.defaultCfg = Nil
        /\ general # {} => result.defaultCfg = configs[last(general)].config
    <3> HIDE DEF naming, general, last
    <3>1. /\ naming = {} <=> result.byRequest[q] = Nil
          /\ naming # {} => result.byRequest[q] = configs[last(naming)].config
      BY <1>5, <2>0, <2>2
    <3>2. /\ general = {} <=> result.defaultCfg = Nil
          /\ general # {} => result.defaultCfg = configs[last(general)].config
      BY <1>5, <2>0, <2>2
    <3> QED
      BY <3>1, <3>2
  <2>4. RequestedConfig(configs, q) =
          IF naming # {} THEN configs[last(naming)].config
          ELSE IF general # {} THEN configs[last(general)].config
          ELSE DefaultOvsPortConfig
    BY DEF RequestedConfig
  <2> HIDE DEF naming, general, last
  <2> QED
    BY <2>3, <2>4 DEF getConfig
<1> QED
  BY <1>3, <1>6 DEF result

-----------------------------------------------------------------------------
(* The configuration of ports and records.                                 *)

(* A step that makes no port and no record, and starts no preparation.     *)
LEMMA ConfigFrame ==
  ASSUME ConfigInv, NoNewPorts, \A c \in Claim : store'[c] \in {store[c], {}},
         pc' \in PreparingAt => pc \in PreparingAt /\ cur' = cur
  PROVE  ConfigInv'
<1>1. (pc \in PreparingAt => ~Misconfigured(cur))'
  BY DEF ConfigInv, Misconfigured
<1>2. \A c \in Claim : store'[c] # {} => ~Misconfigured(c)
  BY DEF ConfigInv
<1>3. ASSUME NEW c \in Claim, NEW q \in Request,
             ports'[ovsPortName(c, q)] # NoPort, ports'[ovsPortName(c, q)].claim = c
      PROVE  /\ ~Misconfigured(c)
             /\ ports'[ovsPortName(c, q)].params = ovsPortParams(portConfig(c, q))
  <2>1. ports'[ovsPortName(c, q)] = ports[ovsPortName(c, q)]
    BY <1>3, PortNameType DEF NoNewPorts
  <2> QED
    BY <1>3, <2>1 DEF ConfigInv
<1> QED
  BY <1>1, <1>2, <1>3 DEF ConfigInv, Misconfigured

(* MakePort configures the port of dev the way its claim asks for dev's    *)
(* request.                                                                *)
LEMMA MakePortConfig ==
  ASSUME IInv, ConfigInv, MakePort
  PROVE  ConfigInv'
<1>1. /\ pc = "port" /\ pc' \in {"check", "rmdir"}
      /\ UNCHANGED <<store, cur>>
  BY DEF MakePort, workVars
<1>2. PICK k \in Claim : k = cur
  BY <1>1, DevsAreRecords DEF PreparingAt
<1>3. ~Misconfigured(k)
  BY <1>1, <1>2 DEF ConfigInv, PreparingAt
<1>4. dev.request \in Request
  BY <1>1, <1>2, OwnResultType DEF IInv, ControlInv
<1>5. PICK q \in Request : q = dev.request
  BY <1>4
<1> DEFINE n == ovsPortName(k, q)
           row == [claim |-> k, bridge |-> dev.device, mtu |-> mtu,
                   params |-> ovsPortParams(portConfig(k, q))]
<1>6. ports' = ports \/ ports' = [ports EXCEPT ![n] = row]
  BY <1>2, <1>5 DEF MakePort, CreatePort, workVars
<1>7. row.claim = k /\ row.params = ovsPortParams(portConfig(k, q))
  BY SMTT(60)
<1> HIDE DEF row
<1>8. ASSUME NEW c \in Claim, NEW r \in Request,
             ports'[ovsPortName(c, r)] # NoPort, ports'[ovsPortName(c, r)].claim = c
      PROVE  /\ ~Misconfigured(c)
             /\ ports'[ovsPortName(c, r)].params = ovsPortParams(portConfig(c, r))
  <2>1. n \in PortName /\ ovsPortName(c, r) \in PortName
    BY PortNameType
  <2>2. CASE ports'[ovsPortName(c, r)] = ports[ovsPortName(c, r)]
    BY <1>8, <2>2 DEF ConfigInv
  <2>3. CASE ports'[ovsPortName(c, r)] # ports[ovsPortName(c, r)]
    <3>1. ovsPortName(c, r) = n /\ ports'[n] = row
      BY <1>6, <2>1, <2>3 DEF IInv, TypeOK, OvsTypeOK
    <3>2. c = k
      BY <1>7, <1>8, <3>1
    <3>3. r = q
      BY SMTT(60), <3>1 DEF ovsPortName
    <3> QED
      BY <1>3, <1>7, <3>1, <3>2, <3>3
  <2> QED
    BY <2>2, <2>3
<1>9. (pc \in PreparingAt => ~Misconfigured(cur))'
  BY <1>1, <1>2, <1>3 DEF Misconfigured
<1> QED
  BY <1>1, <1>8, <1>9 DEF ConfigInv, Misconfigured

(* Checkpoint records only the claim that is being prepared.               *)
LEMMA CheckpointConfig ==
  ASSUME IInv, ConfigInv, Checkpoint
  PROVE  ConfigInv'
<1>1. pc = "set" /\ pc' \in {"status", "undo"} /\ UNCHANGED ports
  BY DEF Checkpoint, Rollback
<1>2. PICK k \in Claim : k = cur
  BY <1>1, DevsAreRecords DEF PreparingAt
<1>3. ~Misconfigured(k)
  BY <1>1, <1>2 DEF ConfigInv, PreparingAt
<1>4. store' = store \/ store' = [store EXCEPT ![k] = devs]
  BY <1>2 DEF Checkpoint, StoreSet
<1>5. \A c \in Claim : store'[c] # {} => ~Misconfigured(c)
  BY <1>3, <1>4 DEF ConfigInv, IInv, TypeOK, StoreTypeOK
<1>6. pc' \notin PreparingAt
  BY <1>1 DEF PreparingAt
<1> QED
  BY <1>1, <1>5, <1>6 DEF ConfigInv, Misconfigured

(* Every step preserves ConfigInv.                                         *)
LEMMA NextConfig ==
  ASSUME IInv, ConfigInv, [Next]_vars
  PROVE  ConfigInv'
<1>1. CASE UNCHANGED vars
  BY <1>1, ConfigFrame DEF vars, nodeVars, workVars, NoNewPorts
<1>2. CASE Kubelet
  <2>1. pc' = "next" /\ UNCHANGED <<store, ports>>
    BY <1>2 DEF Kubelet, PrepareResourceClaims, UnprepareResourceClaims, Receive, nodeVars
  <2> QED
    BY <2>1, ConfigFrame DEF NoNewPorts, PreparingAt
<1>3. ASSUME NEW c \in Claim, PrepareBegin(c)
      PROVE  ConfigInv'
  <2>1. cur' = c /\ ~Misconfigured(c) /\ UNCHANGED <<store, ports>>
    BY <1>3 DEF PrepareBegin, nodeVars
  <2> QED
    BY <2>1 DEF ConfigInv, Misconfigured
<1>4. CASE \/ \E c \in Claim : PrepareGetFails(c) \/ PrepareCached(c) \/ PrepareRefused(c)
           \/ NoResults \/ UpdateStatus
  <2>1. pc' \in {"next", "reply"} /\ UNCHANGED <<store, ports>>
    BY <1>4 DEF PrepareGetFails, PrepareCached, PrepareRefused, NoResults, UpdateStatus,
       Abort, Continue, nodeVars
  <2> QED
    BY <2>1, ConfigFrame DEF NoNewPorts, PreparingAt
<1>5. CASE (\E r \in todo : CheckConfig(r)) \/ MakeSocketDir \/ RemoveFailedDir \/ WriteSpec
  <2>1. pc \in PreparingAt /\ UNCHANGED <<store, ports>>
    BY <1>5 DEF CheckConfig, MakeSocketDir, RemoveFailedDir, WriteSpec, nodeVars, PreparingAt
  <2>2. cur' = cur
    BY <1>5 DEF CheckConfig, MakeSocketDir, RemoveFailedDir, WriteSpec, Rollback, workVars
  <2> QED
    BY <2>1, <2>2, ConfigFrame DEF NoNewPorts
<1>6. CASE UndoStep
  <2>1. pc' \notin PreparingAt /\ UNCHANGED store
    BY <1>6 DEF UndoStep, UndoSpec, UndoPort, UndoDir, RolledBack, Abort, nodeVars, PreparingAt
  <2>2. NoNewPorts
    <3>1. ports' = ports \/ ports' = [ports EXCEPT ![dev.port] = NoPort]
      BY <1>6 DEF UndoStep, UndoSpec, UndoPort, UndoDir, RolledBack, DeletePort, nodeVars
    <3> QED
      BY <3>1 DEF NoNewPorts, IInv, TypeOK, OvsTypeOK
  <2> QED
    BY <2>1, <2>2, ConfigFrame
<1>7. CASE UnprepareStep
  <2>1. pc' \notin PreparingAt /\ UNCHANGED ports
    BY <1>7 DEF UnprepareStep, UnprepareGetFails, UnprepareUnknown, UnprepareBegin,
       UnprepareFailed, Forget, Abort, Continue, nodeVars, PreparingAt
  <2>2. store' = store \/ store' = [store EXCEPT ![cur] = {}]
    BY <1>7 DEF UnprepareStep, UnprepareGetFails, UnprepareUnknown, UnprepareBegin,
       UnprepareFailed, Forget, StoreDelete, nodeVars
  <2>3. \A c \in Claim : store'[c] \in {store[c], {}}
    BY <2>2 DEF IInv, TypeOK, StoreTypeOK
  <2> QED
    BY <2>1, <2>3, ConfigFrame DEF NoNewPorts
<1>8. CASE LoopDone \/ Reply \/ ReplyLost \/ Crash
  <2>1. pc' \in {"idle", "reply"} /\ UNCHANGED <<store, ports>>
    BY <1>8 DEF LoopDone, Reply, ReplyLost, Crash, EndCall, nodeVars
  <2> QED
    BY <2>1, ConfigFrame DEF NoNewPorts, PreparingAt
<1>9. CASE Reboot
  <2>1. pc' = "idle" /\ NoNewPorts /\ \A c \in Claim : store'[c] = {}
    BY <1>9 DEF Reboot, EndCall, StoreLost, DropTransientPorts, NoNewPorts
  <2> QED
    BY <2>1, ConfigFrame DEF PreparingAt
<1>10. CASE Surroundings
  <2>1. UNCHANGED <<store, pc, cur>>
    BY <1>10 DEF Surroundings, OvsRestart, BridgeRemoved, BridgeAdded, ConfigReconciled,
       PolicyReconciled, nodeVars, workVars
  <2>2. NoNewPorts
    BY <1>10 DEF Surroundings, OvsRestart, BridgeRemoved, BridgeAdded, ConfigReconciled,
       PolicyReconciled, DropTransientPorts, RemoveBridge, AddBridge, nodeVars, NoNewPorts
  <2> QED
    BY <2>1, <2>2, ConfigFrame
<1> QED
  BY <1>1, <1>2, <1>3, <1>4, <1>5, <1>6, <1>7, <1>8, <1>9, <1>10, MakePortConfig,
     CheckpointConfig DEF Next, Handler, PrepareStep, Environment

(* No claim has devices at the start.                                      *)
LEMMA InitConfig == Init => ConfigInv
<1> SUFFICES ASSUME Init
             PROVE  ConfigInv
  OBVIOUS
<1>1. pc = "idle" /\ store = [c \in Claim |-> {}] /\ ports = [n \in PortName |-> NoPort]
  BY DEF Init, NoCall, StoreInit, OvsInit
<1>2. \A c \in Claim, q \in Request : ovsPortName(c, q) \in PortName
  BY PortNameType
<1> QED
  BY <1>1, <1>2 DEF ConfigInv, PreparingAt

(* What parseClaimConfigs found is what the entries ask for.               *)
LEMMA AsRequestedByConfig ==
  ASSUME IInv, ConfigInv
  PROVE  PortsAreAsRequested
<1> SUFFICES ASSUME NEW c \in Claim
             PROVE  /\ \A q \in Request : LET row == ports[ovsPortName(c, q)] IN
                         row # NoPort /\ row.claim = c =>
                           wellConfigured[c] /\ row.params = ovsPortParams(requestedConfigs[c][q])
                    /\ \A pd \in store[c] :
                         wellConfigured[c] /\ pd.config = requestedConfigs[c][pd.request]
  BY DEF PortsAreAsRequested
<1>1. ClaimConfigs[c] \in Seq(ConfigEntry)
  BY EntriesAssumption
<1>2. portConfigs[c] = parseClaimConfigs(ClaimConfigs[c])
  BY DEF portConfigs
<1>3. ~Misconfigured(c) =>
        /\ wellConfigured[c]
        /\ \A q \in Request : portConfig(c, q) = requestedConfigs[c][q]
  BY <1>1, <1>2, ParsedAsRequested DEF Misconfigured, portConfig, wellConfigured, requestedConfigs
<1>4. ASSUME NEW q \in Request,
             ports[ovsPortName(c, q)] # NoPort, ports[ovsPortName(c, q)].claim = c
      PROVE  /\ wellConfigured[c]
             /\ ports[ovsPortName(c, q)].params = ovsPortParams(requestedConfigs[c][q])
  BY <1>3, <1>4 DEF ConfigInv
<1>5. ASSUME NEW pd \in store[c]
      PROVE  wellConfigured[c] /\ pd.config = requestedConfigs[c][pd.request]
  <2>1. ~Misconfigured(c)
    BY <1>5 DEF ConfigInv
  <2>2. PICK p \in Users[c], r \in OwnResults(c) : pd = preparedDevice(p, c, r)
    BY SMTT(60), <1>5 DEF IInv, RecordInv, RecordsOf
  <2>3. pd.request = r.request /\ pd.config = portConfig(c, r.request)
    BY SMTT(60), <2>2 DEF preparedDevice
  <2>4. r.request \in Request
    BY OwnResultType
  <2> QED
    BY <1>3, <2>1, <2>3, <2>4
<1> QED
  BY <1>4, <1>5

(* ConfigInv for every instance: a claim with a bad entry never gets past  *)
(* PrepareResourceClaim's first check, and a port is only made with what   *)
(* parseClaimConfigs and getConfig found.                                  *)
THEOREM ConfigurationIsKept ==
  ASSUME DistinctDirs
  PROVE  Spec => []ConfigInv
<1>1. Init => ConfigInv
  BY InitConfig
<1>2. IInv /\ ConfigInv /\ [Next]_vars => ConfigInv'
  BY NextConfig
<1> QED
  BY <1>1, <1>2, InductiveInvariant, PTL DEF Spec

(* PortsAreAsRequested for every instance: no order of the entries, and no *)
(* failure or retry, gives a port or a record another configuration.       *)
THEOREM PortsAreConfiguredAsRequested ==
  ASSUME DistinctDirs
  PROVE  Spec => []PortsAreAsRequested
<1>1. IInv /\ ConfigInv => PortsAreAsRequested
  BY AsRequestedByConfig
<1> QED
  BY <1>1, InductiveInvariant, ConfigurationIsKept, PTL

-----------------------------------------------------------------------------
(* Driver implements PreparedClaims.                                       *)

(* What PreparedClaims sees of a state.                                    *)
promised == <<kview, holder, usable>>

-----------------------------------------------------------------------------
(* How a step changes what is usable.                                      *)

(* What stores no record and changes no spec and no directory changes      *)
(* nothing that is usable.                                                 *)
LEMMA UsableFrame ==
  ASSUME UNCHANGED <<store, cdi, dirs>>
  PROVE  usable' = usable
BY DEF usable, Backed

(* A claim that is recorded neither before nor after a step is not usable. *)
LEMMA UnrecordedStep ==
  ASSUME NEW c \in Claim, store[c] = {}, store'[c] = {},
         \A d \in Claim \ {c} : Backed(d)' <=> Backed(d)
  PROVE  usable' = usable
<1>1. ~Backed(c) /\ ~Backed(c)'
  BY DEF Backed
<1> QED
  BY <1>1 DEF usable

(* A step that can only take from a claim that is being unprepared leaves  *)
(* what is usable alone or dismantles the claim.                           *)
LEMMA DismantlingStep ==
  ASSUME NEW c \in Claim, kview[c] = "unpreparing", UNCHANGED kubeVars,
         Backed(c)' => Backed(c),
         \A d \in Claim \ {c} : Backed(d)' <=> Backed(d)
  PROVE  UNCHANGED promised \/ Promise!Dismantled(c)
<1>1. CASE Backed(c)' <=> Backed(c)
  <2>1. usable' = usable
    BY <1>1 DEF usable
  <2> QED
    BY <2>1 DEF promised, kubeVars
<1>2. CASE Backed(c) /\ ~Backed(c)'
  <2>1. usable' = usable \ {c} /\ c \in usable
    BY <1>2 DEF usable
  <2> QED
    BY <2>1 DEF Promise!Dismantled, kubeVars
<1> QED
  BY <1>1, <1>2

(* A change of the spec or the record of one claim leaves the others'      *)
(* alone.                                                                  *)
LEMMA OthersBacked ==
  ASSUME NEW c \in Claim,
         \A d \in Claim \ {c} : store'[d] = store[d] /\ cdi'[d] = cdi[d],
         \A d \in Claim \ {c} : \A pd \in store[d] : dirs'[pd.dir] = dirs[pd.dir]
  PROVE  \A d \in Claim \ {c} : Backed(d)' <=> Backed(d)
BY DEF Backed

-----------------------------------------------------------------------------
(* The steps that PreparedClaims sees.                                     *)

(* Kubelet's prepare call is AskPrepare.                                   *)
LEMMA PrepareResourceClaimsPromise ==
  ASSUME NEW p \in Pod, NEW S \in SUBSET Claim, PrepareResourceClaims(p, S)
  PROVE  S # {} /\ Promise!AskPrepare(p, S)
<1>1. S # {} /\ UNCHANGED <<store, cdi, dirs>>
  BY DEF PrepareResourceClaims, Receive, nodeVars
<1> QED
  BY <1>1, UsableFrame DEF PrepareResourceClaims, Promise!AskPrepare

(* Kubelet's unprepare call is AskUnprepare.                               *)
LEMMA UnprepareResourceClaimsPromise ==
  ASSUME NEW S \in SUBSET Claim, UnprepareResourceClaims(S)
  PROVE  S # {} /\ Promise!AskUnprepare(S)
<1>1. S # {} /\ UNCHANGED <<store, cdi, dirs>>
  BY DEF UnprepareResourceClaims, Receive, nodeVars
<1> QED
  BY <1>1, UsableFrame DEF UnprepareResourceClaims, Promise!AskUnprepare

(* The record makes a claim usable: claimStore.Set is Prepared.            *)
LEMMA CheckpointPromise ==
  ASSUME IInv, Checkpoint
  PROVE  UNCHANGED promised \/ (cur \in Claim /\ Promise!Prepared(cur))
<1>1. /\ pc = "set" /\ cur \in Claim /\ store[cur] = {} /\ devs # {}
      /\ cdi[cur] = devs /\ \A pd \in devs : dirs[pd.dir] # Absent
      /\ holder[cur] \in Users[cur] /\ kview[cur] = "pending"
  <2>1. pc = "set" /\ cur \in Claim /\ store[cur] = {}
    BY DevsAreRecords DEF Checkpoint, PreparingAt
  <2>2. op = "prepare" /\ cur \in batch
    BY <2>1 DEF IInv, ControlInv, PreparingAt
  <2>3. devs # {} /\ cdi[cur] = devs /\ \A pd \in devs : dirs[pd.dir] # Absent
    BY <2>1 DEF IInv, PrepareInv, PreparingAt
  <2>4. holder[cur] \in Users[cur] /\ kview[cur] = "pending"
    BY <2>1, <2>2 DEF IInv, KubeletInv, RecordInv
  <2> QED
    BY <2>1, <2>3, <2>4
<1>c. PICK c \in Claim : c = cur
  BY <1>1
<1>2. UNCHANGED <<kview, holder, cdi, dirs>>
  BY DEF Checkpoint, kubeVars
<1>3. CASE UNCHANGED store
  BY <1>2, <1>3, UsableFrame DEF promised
<1>4. CASE store' = [store EXCEPT ![cur] = devs]
  <2>1. store'[cur] = devs /\ \A d \in Claim \ {c} : store'[d] = store[d]
    BY <1>1, <1>c, <1>4 DEF IInv, TypeOK, StoreTypeOK
  <2>2. \A d \in Claim \ {c} : Backed(d)' <=> Backed(d)
    BY <1>1, <1>c, <1>2, <2>1, OthersBacked
  <2>3. ~Backed(c) /\ Backed(c)'
    BY <1>1, <1>c, <1>2, <2>1 DEF Backed
  <2>4. usable' = usable \cup {cur} /\ cur \notin usable
    BY <1>1, <1>c, <2>2, <2>3 DEF usable
  <2> QED
    BY <1>1, <1>c, <1>2, <2>4 DEF Promise!Prepared
<1> QED
  BY <1>3, <1>4 DEF Checkpoint, StoreSet

(* CreateSocketDir changes nothing that is usable.                         *)
LEMMA MakeSocketDirPromise ==
  ASSUME DistinctDirs, IInv, MakeSocketDir
  PROVE  UNCHANGED promised
<1> DEFINE d == getSocketDir(pod, cur, dev.request)
<1>1. cur \in Claim /\ pod \in Users[cur] /\ store[cur] = {}
  BY DevsAreRecords DEF MakeSocketDir, PreparingAt
<1>2. UNCHANGED <<kview, holder, store, cdi>>
  BY DEF MakeSocketDir, kubeVars
<1>3. UNCHANGED dirs \/ \E v : dirs' = [dirs EXCEPT ![d] = v]
  BY DEF MakeSocketDir, CreateSocketDir, MkdirFails, PermissionsFail, PermissionsFailAndStay
<1>4. \A c \in Claim \ {cur} : \A pd \in store[c] : dirs'[pd.dir] = dirs[pd.dir]
  BY <1>1, <1>3, OtherDirs
<1>5. \A c \in Claim \ {cur} : Backed(c)' <=> Backed(c)
  BY <1>1, <1>2, <1>4, OthersBacked
<1>6. usable' = usable
  BY <1>1, <1>2, <1>5, UnrecordedStep
<1> QED
  BY <1>2, <1>6 DEF promised

(* Neither does removing the directory of a failed device.                 *)
LEMMA RemoveFailedDirPromise ==
  ASSUME DistinctDirs, IInv, RemoveFailedDir
  PROVE  UNCHANGED promised
<1> DEFINE d == getSocketDir(pod, cur, dev.request)
<1>1. cur \in Claim /\ pod \in Users[cur] /\ store[cur] = {}
  BY DevsAreRecords DEF RemoveFailedDir, PreparingAt
<1>2. UNCHANGED <<kview, holder, store, cdi>>
  BY DEF RemoveFailedDir, kubeVars
<1>3. UNCHANGED dirs \/ dirs' = [dirs EXCEPT ![d] = Absent]
  BY DEF RemoveFailedDir, RemoveSocketDir
<1>4. \A c \in Claim \ {cur} : \A pd \in store[c] : dirs'[pd.dir] = dirs[pd.dir]
  BY <1>1, <1>3, OtherDirs
<1>5. \A c \in Claim \ {cur} : Backed(c)' <=> Backed(c)
  BY <1>1, <1>2, <1>4, OthersBacked
<1>6. usable' = usable
  BY <1>1, <1>2, <1>5, UnrecordedStep
<1> QED
  BY <1>2, <1>6 DEF promised

(* Nor does writing the CDI spec of a claim that is not recorded yet.      *)
LEMMA WriteSpecPromise ==
  ASSUME IInv, WriteSpec
  PROVE  UNCHANGED promised
<1>1. cur \in Claim /\ store[cur] = {}
  BY DevsAreRecords DEF WriteSpec, PreparingAt
<1>2. UNCHANGED <<kview, holder, store, dirs>>
  BY DEF WriteSpec, kubeVars
<1>3. UNCHANGED cdi \/ cdi' = [cdi EXCEPT ![cur] = devs]
  BY DEF WriteSpec, CreateClaimSpecFile
<1>4. \A c \in Claim \ {cur} : cdi'[c] = cdi[c]
  BY <1>3 DEF IInv, TypeOK, CDITypeOK
<1>5. \A c \in Claim \ {cur} : Backed(c)' <=> Backed(c)
  BY <1>1, <1>2, <1>4, OthersBacked
<1>6. usable' = usable
  BY <1>1, <1>2, <1>5, UnrecordedStep
<1> QED
  BY <1>2, <1>6 DEF promised

(* Deleting the CDI spec dismantles a claim that is being unprepared.      *)
LEMMA UndoSpecPromise ==
  ASSUME IInv, NEW pd \in undo, UndoSpec(pd)
  PROVE  UNCHANGED promised \/ (cur \in Claim /\ Promise!Dismantled(cur))
<1>1. cur \in Claim /\ (store[cur] = {} \/ kview[cur] = "unpreparing")
  BY UndoingFacts DEF UndoSpec, UndoingAt
<1>c. PICK c \in Claim : c = cur
  BY <1>1
<1>2. UNCHANGED <<kubeVars, kview, holder, store, dirs>>
  BY DEF UndoSpec, kubeVars
<1>3. UNCHANGED cdi \/ cdi' = [cdi EXCEPT ![cur] = {}]
  BY DEF UndoSpec, DeleteClaimSpecFile
<1>4. \A d \in Claim \ {c} : cdi'[d] = cdi[d]
  BY <1>c, <1>3 DEF IInv, TypeOK, CDITypeOK
<1>5. \A d \in Claim \ {c} : Backed(d)' <=> Backed(d)
  BY <1>1, <1>c, <1>2, <1>4, OthersBacked
<1>6. CASE store[cur] = {}
  BY <1>1, <1>c, <1>2, <1>5, <1>6, UnrecordedStep DEF promised
<1>7. CASE kview[cur] = "unpreparing"
  <2>1. cdi'[cur] = cdi[cur] \/ cdi'[cur] = {}
    BY <1>1, <1>c, <1>3 DEF IInv, TypeOK, CDITypeOK
  <2>2. Backed(c)' => Backed(c)
    BY <1>c, <1>2, <2>1 DEF Backed
  <2> QED
    BY <1>1, <1>c, <1>2, <1>5, <1>7, <2>2, DismantlingStep
<1> QED
  BY <1>1, <1>c, <1>6, <1>7

(* So does removing a directory of it.                                     *)
LEMMA UndoDirPromise ==
  ASSUME DistinctDirs, IInv, UndoDir
  PROVE  UNCHANGED promised \/ (cur \in Claim /\ Promise!Dismantled(cur))
<1>1. /\ cur \in Claim /\ (store[cur] = {} \/ kview[cur] = "unpreparing")
      /\ dev \in RecordsOf(cur)
  BY UndoingFacts DEF UndoDir, UndoingAt, IInv, ControlInv
<1>c. PICK c \in Claim : c = cur
  BY <1>1
<1>2. UNCHANGED <<kubeVars, kview, holder, store, cdi>>
  BY DEF UndoDir, kubeVars
<1>3. UNCHANGED dirs \/ dirs' = [dirs EXCEPT ![dev.dir] = Absent]
  BY DEF UndoDir, RemoveSocketDir
<1>4. \A d \in Claim \ {c} : \A pd \in store[d] : dirs'[pd.dir] = dirs[pd.dir]
  BY <1>1, <1>c, <1>3, OtherDirs
<1>5. \A d \in Claim \ {c} : Backed(d)' <=> Backed(d)
  BY <1>1, <1>c, <1>2, <1>4, OthersBacked
<1>6. CASE store[cur] = {}
  BY <1>1, <1>c, <1>2, <1>5, <1>6, UnrecordedStep DEF promised
<1>7. CASE kview[cur] = "unpreparing"
  <2>1. \A pd \in store[cur] : pd.dir \in Dir
    BY SMTT(60), <1>1, <1>c DEF IInv, TypeOK, StoreTypeOK, DeviceRecord
  <2>2. \A pd \in store[cur] : dirs'[pd.dir] = dirs[pd.dir] \/ dirs'[pd.dir] = Absent
    BY <1>3, <2>1 DEF IInv, TypeOK, SocketFSTypeOK
  <2>3. Backed(c)' => Backed(c)
    BY <1>c, <1>2, <2>2 DEF Backed
  <2> QED
    BY <1>1, <1>c, <1>2, <1>5, <1>7, <2>3, DismantlingStep
<1> QED
  BY <1>1, <1>c, <1>6, <1>7

(* claimStore.Delete dismantles a claim of which only the record is left.  *)
LEMMA ForgetPromise ==
  ASSUME IInv, Forget
  PROVE  UNCHANGED promised \/ (cur \in Claim /\ Promise!Dismantled(cur))
<1>1. cur \in Claim /\ kview[cur] = "unpreparing"
  BY UndoingFacts DEF Forget, UndoingAt, IInv, KubeletInv
<1>c. PICK c \in Claim : c = cur
  BY <1>1
<1>2. UNCHANGED <<kubeVars, cdi, dirs>>
  BY DEF Forget
<1>3. UNCHANGED store \/ store' = [store EXCEPT ![cur] = {}]
  BY DEF Forget, StoreDelete
<1>4. /\ \A d \in Claim \ {c} : store'[d] = store[d]
      /\ store'[cur] = store[cur] \/ store'[cur] = {}
  BY <1>1, <1>c, <1>3 DEF IInv, TypeOK, StoreTypeOK
<1>5. \A d \in Claim \ {c} : Backed(d)' <=> Backed(d)
  BY <1>1, <1>c, <1>2, <1>4, OthersBacked
<1>6. Backed(c)' => Backed(c)
  BY <1>c, <1>2, <1>4 DEF Backed
<1> QED
  BY <1>1, <1>c, <1>2, <1>5, <1>6, DismantlingStep

(* The reply tells kubelet of usable claims after a prepare, and of claims *)
(* that are not after an unprepare.                                        *)
LEMMA ReplyPromise ==
  ASSUME IInv, Reply
  PROVE  \/ UNCHANGED promised
         \/ \E S \in (SUBSET Claim) \ {{}} : Promise!TellPrepared(S) \/ Promise!TellUnprepared(S)
<1>1. pc = "reply" /\ op \in {"prepare", "unprepare"} /\ UNCHANGED <<store, cdi, dirs>>
  BY DEF Reply, nodeVars, IInv, TypeOK, ControlInv
<1>2. PICK told \in SUBSET Claim :
        /\ told \subseteq ok
        /\ kview' = [c \in Claim |->
                       IF c \notin told THEN kview[c]
                       ELSE IF op = "prepare" THEN "prepared" ELSE "none"]
        /\ holder' = [c \in Claim |->
                        IF c \in told /\ op = "unprepare" THEN NoPod ELSE holder[c]]
  BY DEF Reply, IInv, TypeOK
<1>3. usable' = usable
  BY <1>1, UsableFrame
<1>4. CASE told = {}
  <2>1. UNCHANGED <<kview, holder>>
    BY <1>2, <1>4 DEF IInv, TypeOK
  <2> QED
    BY <1>3, <2>1 DEF promised
<1>5. CASE told # {} /\ op = "prepare"
  <2>1. \A c \in told : kview[c] \in {"pending", "prepared"} /\ store[c] # {}
    BY <1>2, <1>5 DEF IInv, KubeletInv, RecordInv
  <2>2. \A c \in told : c \in usable
    BY <1>2, <2>1 DEF IInv, RecordInv, usable, Backed
  <2>3. /\ kview' = [c \in Claim |-> IF c \in told THEN "prepared" ELSE kview[c]]
        /\ holder' = holder
    BY <1>2, <1>5 DEF IInv, TypeOK
  <2>4. Promise!TellPrepared(told)
    BY <1>3, <2>1, <2>2, <2>3 DEF Promise!TellPrepared
  <2> QED
    BY <1>5, <2>4
<1>6. CASE told # {} /\ op = "unprepare"
  <2>1. \A c \in told : kview[c] = "unpreparing" /\ store[c] = {}
    BY <1>2, <1>6 DEF IInv, KubeletInv, RecordInv
  <2>2. \A c \in told : c \notin usable
    BY <2>1 DEF usable, Backed
  <2>3. /\ kview' = [c \in Claim |-> IF c \in told THEN "none" ELSE kview[c]]
        /\ holder' = [c \in Claim |-> IF c \in told THEN NoPod ELSE holder[c]]
    BY <1>2, <1>6
  <2>4. Promise!TellUnprepared(told)
    BY <1>3, <2>1, <2>2, <2>3 DEF Promise!TellUnprepared
  <2> QED
    BY <1>6, <2>4
<1> QED
  BY <1>1, <1>4, <1>5, <1>6

(* A reboot is Lost.                                                       *)
LEMMA RebootPromise ==
  ASSUME Reboot
  PROVE  Promise!Lost
<1>1. \A c \in Claim : store'[c] = {}
  BY DEF Reboot, StoreLost
<1>2. usable' = {}
  BY <1>1 DEF usable, Backed
<1> QED
  BY <1>2 DEF Reboot, Promise!Lost

-----------------------------------------------------------------------------
(* Every step of the driver and its environment is a step of               *)
(* PreparedClaims, or changes nothing there.                               *)
LEMMA StepPromise ==
  ASSUME DistinctDirs, IInv, [Next]_vars
  PROVE  [Promise!Next]_promised
<1>1. ASSUME UNCHANGED <<kubeVars, store, cdi, dirs>>
      PROVE  UNCHANGED promised
  BY <1>1, UsableFrame DEF promised, kubeVars
<1>2. CASE UNCHANGED vars
  BY <1>1, <1>2 DEF vars, nodeVars
<1>3. CASE Kubelet
  BY <1>3, PrepareResourceClaimsPromise, UnprepareResourceClaimsPromise DEF Kubelet, Promise!Next
<1>4. CASE PrepareStep
  <2>1. ASSUME NEW c \in Claim,
               PrepareGetFails(c) \/ PrepareCached(c) \/ PrepareRefused(c) \/ PrepareBegin(c)
        PROVE  UNCHANGED promised
    BY <1>1, <2>1 DEF PrepareGetFails, PrepareCached, PrepareRefused, PrepareBegin, nodeVars
  <2>2. ASSUME NEW r \in todo, CheckConfig(r)
        PROVE  UNCHANGED promised
    BY <1>1, <2>2 DEF CheckConfig, nodeVars
  <2>3. ASSUME MakePort \/ NoResults \/ UpdateStatus
        PROVE  UNCHANGED promised
    BY <1>1, <2>3 DEF MakePort, NoResults, UpdateStatus, nodeVars
  <2> QED
    BY <1>4, <2>1, <2>2, <2>3, MakeSocketDirPromise, RemoveFailedDirPromise, WriteSpecPromise,
       CheckpointPromise DEF PrepareStep, Promise!Next
<1>5. CASE UndoStep
  <2>1. ASSUME UndoPort \/ RolledBack
        PROVE  UNCHANGED promised
    BY <1>1, <2>1 DEF UndoPort, RolledBack, nodeVars
  <2> QED
    BY <1>5, <2>1, UndoSpecPromise, UndoDirPromise DEF UndoStep, Promise!Next
<1>6. CASE UnprepareStep
  <2>1. ASSUME NEW c \in Claim, UnprepareGetFails(c) \/ UnprepareUnknown(c) \/ UnprepareBegin(c)
        PROVE  UNCHANGED promised
    BY <1>1, <2>1 DEF UnprepareGetFails, UnprepareUnknown, UnprepareBegin, nodeVars
  <2>2. ASSUME UnprepareFailed
        PROVE  UNCHANGED promised
    BY <1>1, <2>2 DEF UnprepareFailed, nodeVars
  <2> QED
    BY <1>6, <2>1, <2>2, ForgetPromise DEF UnprepareStep, Promise!Next
<1>7. CASE LoopDone \/ Reply \/ ReplyLost
  <2>1. ASSUME LoopDone \/ ReplyLost
        PROVE  UNCHANGED promised
    BY <1>1, <2>1 DEF LoopDone, ReplyLost, nodeVars
  <2> QED
    BY <1>7, <2>1, ReplyPromise DEF Promise!Next
<1>8. CASE Environment
  <2>1. ASSUME Crash \/ OvsRestart
        PROVE  UNCHANGED promised
    BY <1>1, <2>1 DEF Crash, OvsRestart, nodeVars
  <2>2. ASSUME NEW b \in Bridge, BridgeRemoved(b) \/ BridgeAdded(b)
        PROVE  UNCHANGED promised
    BY <1>1, <2>2 DEF BridgeRemoved, BridgeAdded
  <2>3. ASSUME NEW x, ConfigReconciled(x) \/ PolicyReconciled(x)
        PROVE  UNCHANGED promised
    BY <1>1, <2>3 DEF ConfigReconciled, PolicyReconciled, nodeVars
  <2> QED
    BY <1>8, <2>1, <2>2, <2>3, RebootPromise
    DEF Environment, Surroundings, Promise!Next
<1> QED
  BY <1>2, <1>3, <1>4, <1>5, <1>6, <1>7, <1>8 DEF Next, Handler

(* Driver implements PreparedClaims: claims become usable only while       *)
(* kubelet waits for them, are reported only when they are usable, stay    *)
(* so until kubelet asks to unprepare them or the node reboots, and are    *)
(* let go only once they are not usable.                                   *)
THEOREM DriverImplementsPreparedClaims ==
  ASSUME DistinctDirs
  PROVE  Spec => ImplementsPreparedClaims
<1>1. Init => Promise!Init
  BY DEF Init, StoreInit, Promise!Init, usable, Backed
<1>2. IInv /\ [Next]_vars => [Promise!Next]_promised
  BY StepPromise
<1>3. Spec => []IInv
  BY InductiveInvariant
<1> QED
  BY <1>1, <1>2, <1>3, PTL DEF Spec, ImplementsPreparedClaims, Promise!Spec, promised
=============================================================================
