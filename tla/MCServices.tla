----------------------------- MODULE MCServices -----------------------------
(***************************************************************************)
(* The service components of the driver on one bench.  They share no       *)
(* state: bench says which of them this behaviour exercises, and the       *)
(* others stay as they began.                                              *)
(***************************************************************************)
EXTENDS ScatterList, ScsiHost, KinfoWalk, KinfoFile, CpuMap, Hotplug, DriverLoad,
        AtomicList, CondVar, ControlDev, PortList, PortBits, PortCalc

VARIABLE bench              \* the component under test

MCRecordLens == <<1, 2, 9>>

Benches == {"scatter", "scsi", "kinfo", "file", "cpumap", "hotplug",
            "load", "list", "condvar", "cdev", "portlist", "bits", "calc"}

serviceVars == <<bench, sgVars, scsiVars, ktVars, kfVars, cmVars, hpVars, loadVars,
                 alVars, cvVars, cdVars, plVars, pb_case, pc_case>>

Init ==
    /\ bench \in Benches
    /\ ScatterInit /\ ScsiInit /\ KinfoInit /\ FileInit
    /\ CpuMapInit /\ HotplugInit /\ LoadInit /\ ListInit
    /\ CvInit /\ CdevInit /\ PortListInit /\ PortBitsInit
    /\ PortCalcInit

ScatterStep ==
    /\ bench = "scatter" /\ ScatterNext
    /\ UNCHANGED <<bench, scsiVars, ktVars, kfVars, cmVars, hpVars, loadVars,
                   alVars, cvVars, cdVars, plVars, pb_case, pc_case>>

ScsiStep ==
    /\ bench = "scsi" /\ ScsiNext
    /\ UNCHANGED <<bench, sgVars, ktVars, kfVars, cmVars, hpVars, loadVars,
                   alVars, cvVars, cdVars, plVars, pb_case, pc_case>>

KinfoStep ==
    /\ bench = "kinfo" /\ KinfoNext
    /\ UNCHANGED <<bench, sgVars, scsiVars, kfVars, cmVars, hpVars, loadVars,
                   alVars, cvVars, cdVars, plVars, pb_case, pc_case>>

FileStep ==
    /\ bench = "file" /\ FileNext
    /\ UNCHANGED <<bench, sgVars, scsiVars, ktVars, cmVars, hpVars, loadVars,
                   alVars, cvVars, cdVars, plVars, pb_case, pc_case>>

CpuMapStep ==
    /\ bench = "cpumap" /\ CpuMapNext
    /\ UNCHANGED <<bench, sgVars, scsiVars, ktVars, kfVars, hpVars, loadVars,
                   alVars, cvVars, cdVars, plVars, pb_case, pc_case>>

HotplugStep ==
    /\ bench = "hotplug" /\ HotplugNext
    /\ UNCHANGED <<bench, sgVars, scsiVars, ktVars, kfVars, cmVars, loadVars,
                   alVars, cvVars, cdVars, plVars, pb_case, pc_case>>

LoadStep ==
    /\ bench = "load" /\ LoadNext
    /\ UNCHANGED <<bench, sgVars, scsiVars, ktVars, kfVars, cmVars, hpVars,
                   alVars, cvVars, cdVars, plVars, pb_case, pc_case>>

ListStep ==
    /\ bench = "list" /\ ListNext
    /\ UNCHANGED <<bench, sgVars, scsiVars, ktVars, kfVars, cmVars, hpVars,
                   loadVars, cvVars, cdVars, plVars, pb_case, pc_case>>

CvStep ==
    /\ bench = "condvar" /\ CvNext
    /\ UNCHANGED <<bench, sgVars, scsiVars, ktVars, kfVars, cmVars, hpVars,
                   loadVars, alVars, cdVars, plVars, pb_case, pc_case>>

CdevStep ==
    /\ bench = "cdev" /\ CdevNext
    /\ UNCHANGED <<bench, sgVars, scsiVars, ktVars, kfVars, cmVars, hpVars,
                   loadVars, alVars, cvVars, plVars, pb_case, pc_case>>

PortListStep ==
    /\ bench = "portlist" /\ PortListNext
    /\ UNCHANGED <<bench, sgVars, scsiVars, ktVars, kfVars, cmVars, hpVars,
                   loadVars, alVars, cvVars, cdVars, pb_case, pc_case>>

PortBitsStep ==
    /\ bench = "bits" /\ PortBitsNext
    /\ UNCHANGED <<bench, sgVars, scsiVars, ktVars, kfVars, cmVars, hpVars,
                   loadVars, alVars, cvVars, cdVars, plVars, pc_case>>

PortCalcStep ==
    /\ bench = "calc" /\ PortCalcNext
    /\ UNCHANGED <<bench, sgVars, scsiVars, ktVars, kfVars, cmVars, hpVars,
                   loadVars, alVars, cvVars, cdVars, plVars, pb_case>>

Next ==
    \/ ScatterStep \/ ScsiStep \/ KinfoStep \/ FileStep \/ CpuMapStep
    \/ HotplugStep \/ LoadStep \/ ListStep \/ CvStep \/ CdevStep
    \/ PortListStep \/ PortBitsStep \/ PortCalcStep

Spec == Init /\ [][Next]_serviceVars

\* Every component's state has its type: list lengths stay within what was
\* allocated, counts within their widths, program counters where the code has lines.
ServicesTypeOK ==
    /\ ScatterTypeOK /\ ScsiTypeOK /\ KinfoTypeOK /\ FileTypeOK
    /\ CpuMapTypeOK /\ HotplugTypeOK /\ LoadTypeOK /\ ListTypeOK
    /\ CvTypeOK /\ CdevTypeOK /\ PortListTypeOK /\ PortBitsTypeOK
    /\ PortCalcTypeOK

\* The algorithms compute what their reference definitions say: the porting layer's
\* pure helpers (PortBits, PortCalc), for every input of the small words except the
\* ones the parts name: ranges that are empty, wrap or hold the last block number,
\* the time from which on a wait is cut, what the PPC test-and-set pair returns, slot
\* tables whose header reads as an entry, discards while they are switched off;
\* and the iterative walk over the information tree with its lookups (KinfoWalk).
AlgorithmsExact == PortBitsExact /\ PortCalcExact /\ KinfoWalkExact
=============================================================================
