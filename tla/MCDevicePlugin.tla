---- MODULE MCDevicePlugin ----
EXTENDS DevicePlugin, TLC
Symmetry == Permutations(Dev)
====
