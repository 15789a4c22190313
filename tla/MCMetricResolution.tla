------------------------- MODULE MCMetricResolution -------------------------
(* MetricResolution for TLC: three machines with sensors as                *)
(* LibreHardwareMonitor names them.                                        *)
EXTENDS MetricResolution

Sensor(device, id, kind, type, name) ==
    [device |-> device, id |-> id, kind |-> kind, type |-> type, name |-> name,
     virtual |-> device = 3]

(* CPU Package, Core Average, Core Max, CPU Core #1, its Distance to TjMax,  *)
(* CPU Core #2.                                                              *)
Processor ==
    {Sensor(1, 1, "cpu", "temperature", {"cpu core", "core"}),
     Sensor(1, 2, "cpu", "temperature", {"cpu core", "core"}),
     Sensor(1, 3, "cpu", "temperature", {"cpu package", "package"}),
     Sensor(1, 4, "cpu", "temperature", {"cpu core", "core", "distance to tjmax"}),
     Sensor(1, 5, "cpu", "temperature", {"core max"}),
     Sensor(1, 6, "cpu", "temperature", {"core average"})}

(* An integrated GPU (GPU Core, D3D 3D, D3D Dedicated Memory Used) and a     *)
(* discrete one (GPU Hot Spot, GPU Core, GPU Memory Used).                   *)
Graphics ==
    {Sensor(1, 1, "gpu", "temperature", {"gpu core", "core"}),
     Sensor(1, 2, "gpu", "load", {"d3d 3d", "3d"}),
     Sensor(1, 3, "gpu", "smalldata", {"dedicated memory used", "used", "memory"}),
     Sensor(2, 4, "gpu", "temperature", {"gpu hot spot", "hot spot"}),
     Sensor(2, 5, "gpu", "temperature", {"gpu core", "core"}),
     Sensor(2, 6, "gpu", "smalldata", {"gpu memory used", "used", "memory"})}

(* Total Memory (Memory, Memory Used, Memory Available), a module, and       *)
(* Virtual Memory (Memory, Memory Used).                                     *)
Memory ==
    {Sensor(1, 1, "memory", "load", {"memory"}),
     Sensor(1, 2, "memory", "data", {"memory used", "memory"}),
     Sensor(1, 3, "memory", "data", {"memory available", "memory"}),
     Sensor(2, 4, "memory", "data", {"capacity"}),
     Sensor(3, 5, "memory", "load", {"memory"}),
     Sensor(3, 6, "memory", "data", {"memory used", "memory"})}

MCMachines == {Processor, Graphics, Memory}
=============================================================================
