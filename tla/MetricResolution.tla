-------------------------- MODULE MetricResolution --------------------------
(***************************************************************************)
(* app/telemetry/metrics.py: the product's metrics, resolved from the raw  *)
(* sensors of one snapshot by a table of rules, and the snapshots that     *)
(* follow one another while sensors lose their values and GPUs come and    *)
(* go.                                                                     *)
(*                                                                         *)
(* A sensor's name is the set of the rules' phrases that its normalized    *)
(* name contains.  Devices and sensors are numbered in the order of their  *)
(* identities.  A reading is the sensor it comes from: values, which are   *)
(* only scaled and, for the memory total, added, are left out, and so are  *)
(* units and the text of a reading.                                        *)
(***************************************************************************)
EXTENDS Naturals, Sequences, FiniteSetsExt

CONSTANT Machines       \* for each machine the sensors it can show

VARIABLES machine,
          sensors,      \* the sensors in the latest snapshot
          valued,       \* those whose value is not None
          peaked        \* those whose max_value is not None

metricVars == <<machine, sensors, valued, peaked>>

NoDevice == 0

(* Devices and sensors have numbers, those of devices from 1, and a sensor's  *)
(* identity is its own (hardware and sensor identifier, metrics.py 416-439). *)
ASSUME MachinesAssumption ==
    \A m \in Machines :
        /\ \A s \in m : s.device \in Nat \ {NoDevice} /\ s.id \in Nat
        /\ \A s, r \in m : s.device = r.device /\ s.id = r.id => s = r

-----------------------------------------------------------------------------
Rule(kind, type, preferred, excluded) ==
    [kind |-> kind, type |-> type, preferred |-> preferred, excluded |-> excluded,
     required |-> FALSE, peak |-> FALSE]
Required(rule) == [rule EXCEPT !.required = TRUE]
Peak(rule) == [rule EXCEPT !.peak = TRUE]

Package == {"cpu package", "package"}
Average == {"core average", "core avg"}
HotSpot == {"gpu hot spot", "hot spot", "hotspot"}
NotRam == {"virtual", "swap", "page file", "pagefile"}

(* The metrics that a rule resolves; memory.total is computed. *)
MetricKeys ==
    {"cpu.temperature", "cpu.load", "cpu.clock", "cpu.power", "cpu.temperature.peak",
     "gpu.temperature", "gpu.load", "gpu.clock", "gpu.temperature.hotspot", "gpu.memory.used",
     "gpu.memory.total", "memory.load", "memory.used"}

(* _METRIC_RULES *)
Rules == [key \in MetricKeys |->
    CASE key = "cpu.temperature" ->
            Rule("cpu", "temperature", <<Package, {"tctl tdie", "tdie"}, Average, {"core max"}>>, {})
      [] key = "cpu.load" ->
            Rule("cpu", "load", <<{"cpu total", "total cpu"}, {"cpu overall", "overall cpu"}, Package,
                                  Average, {"core max"}>>, {})
      [] key = "cpu.clock" -> Rule("cpu", "clock", <<{"p core", "cpu core", "core"}>>, {"bus"})
      [] key = "cpu.power" ->
            Rule("cpu", "power", <<Package, {"cpu cores", "cores"}>>, {"memory", "platform"})
      [] key = "cpu.temperature.peak" ->
            Peak(Rule("cpu", "temperature", <<Package, {"core max"}>>, {"distance to tjmax"}))
      [] key = "gpu.temperature" ->
            Rule("gpu", "temperature", <<{"gpu core", "core"}, {"gpu edge", "edge"}, HotSpot>>,
                 {"memory", "vram"})
      [] key = "gpu.load" ->
            Rule("gpu", "load", <<{"gpu core", "gpu total", "total gpu"}, {"d3d 3d", "3d"}>>,
                 {"memory", "vram", "video engine", "bus interface"})
      [] key = "gpu.clock" -> Rule("gpu", "clock", <<{"gpu core", "core"}>>, {"memory"})
      [] key = "gpu.temperature.hotspot" ->
            Required(Rule("gpu", "temperature", <<HotSpot>>, {"memory"}))
      [] key = "gpu.memory.used" ->
            Required(Rule("gpu", "smalldata", <<{"gpu memory used"}, {"dedicated memory used"}>>,
                          {"shared", "free", "total"}))
      [] key = "gpu.memory.total" ->
            Required(Rule("gpu", "smalldata", <<{"gpu memory total", "memory total"}>>,
                          {"free", "used", "shared"}))
      [] key = "memory.load" ->
            Rule("memory", "load",
                 <<{"memory", "physical memory", "memory load"}, {"ram", "ram load"}>>, NotRam)
      [] key = "memory.used" ->
            Required(Rule("memory", "data", <<{"memory used", "ram used"}>>, NotRam))]

(* The rule of _resolve_memory_total for what is added to memory.used if no  *)
(* module tells its capacity.                                                *)
AvailableRule ==
    Required(Rule("memory", "data", <<{"memory available", "ram available"}>>, NotRam))

-----------------------------------------------------------------------------
SelectDevice(kind) ==
    LET devices == {s.device : s \in {r \in sensors : r.kind = kind}}
    IN  IF devices = {} THEN NoDevice ELSE Min(devices)

Names(s, phrases) == s.name \cap phrases # {}

(* Mutant: the selected GPU is not asked for. *)
MatchesAnyGpu(s, rule) ==
    /\ s.kind = rule.kind /\ s.type = rule.type
    /\ rule.kind = "memory" => ~s.virtual
    /\ rule.required => \E i \in DOMAIN rule.preferred : Names(s, rule.preferred[i])
    /\ ~Names(s, rule.excluded)

(* _matches_rule; virtual memory shows itself in the device's identity. *)
Matches(s, rule) ==
    /\ s.kind = rule.kind /\ s.type = rule.type
    /\ rule.kind = "memory" => ~s.virtual
    /\ rule.kind = "gpu" => s.device = SelectDevice("gpu")
    /\ rule.required => \E i \in DOMAIN rule.preferred : Names(s, rule.preferred[i])
    /\ ~Names(s, rule.excluded)

NameRank(s, rule) ==
    Min({i \in DOMAIN rule.preferred : Names(s, rule.preferred[i])} \cup {Len(rule.preferred) + 1})

(* _sensor_rank, compared: the name, the device, the sensor. *)
Outranks(s, r, rule) ==
    \/ NameRank(s, rule) < NameRank(r, rule)
    \/ /\ NameRank(s, rule) = NameRank(r, rule)
       /\ s.device < r.device \/ (s.device = r.device /\ s.id < r.id)

(* Mutant: the peak is only read while the sensor has a value. *)
CandidatesNow(rule) == {s \in valued : Matches(s, rule)}

Candidates(rule) == {s \in IF rule.peak THEN peaked ELSE valued : Matches(s, rule)}

(* The sensor _resolve_rule selects, if any. *)
Selected(rule) ==
    {s \in Candidates(rule) : \A r \in Candidates(rule) \ {s} : Outranks(s, r, rule)}

-----------------------------------------------------------------------------
MetricInit ==
    /\ machine \in Machines
    /\ sensors = {} /\ valued = {} /\ peaked = {}

(* get_sensors of the provider: between two snapshots any GPU may come or    *)
(* go, any value may appear or vanish, and an extreme that was seen stays.   *)
Collect ==
    \E absent \in SUBSET {s.device : s \in {r \in machine : r.kind = "gpu"}} :
        /\ sensors' = {s \in machine : s.device \notin absent}
        /\ valued' \in SUBSET sensors'
        /\ peaked' = (peaked \cap sensors') \cup valued'
        /\ UNCHANGED machine

MetricSpec == MetricInit /\ [][Collect]_metricVars

-----------------------------------------------------------------------------
(* The resolution is deterministic: the ranks never leave two sensors for    *)
(* one metric, or for a part of the memory total, or none where there are    *)
(* candidates, whatever their order in the snapshot (metrics.py 253,         *)
(* 416-439).                                                                 *)
Determined ==
    \A rule \in {Rules[key] : key \in MetricKeys} \cup {AvailableRule} :
        Candidates(rule) # {} => \E s \in sensors : Selected(rule) = {s}

(* metrics.py 257: every GPU metric comes from the one device selected, so a *)
(* snapshot never combines different GPUs, even when that one shows nothing. *)
OneGpu ==
    \A key \in MetricKeys : \A s \in Selected(Rules[key]) :
        s.kind = "gpu" => \A r \in sensors : r.kind = "gpu" => s.device <= r.device

(* Each metric has one source, and all GPU metrics have it on one device.    *)
OneSource == Determined /\ OneGpu

(* Neither the GPU nor a reading's sensor changes without a cause.  The GPU   *)
(* stays as long as the same devices are there, whichever values vanish      *)
(* (metrics.py 255-258); and of two sensors that both show what the metric   *)
(* reads before and after, on a GPU that stays, one does not replace the     *)
(* other.                                                                    *)
Shows(s, key) == s \in IF Rules[key].peak THEN peaked ELSE valued
SwitchesForCause ==
    [][ LET stays == SelectDevice("gpu")' = SelectDevice("gpu") IN
        /\ {s.device : s \in sensors} = {s.device : s \in sensors'} => stays
        /\ stays => \A key \in MetricKeys :
              \A s \in Selected(Rules[key]), r \in Selected(Rules[key])' :
                  Shows(s, key)' /\ Shows(r, key) => s = r ]_metricVars
=============================================================================
