\* NvStore's 64, 256 and 4096 are scaled to 2, 4 and 8; the partition ends the
\* chip.  DeviceAddr's addresses have four digits of radix 4.
CONSTANTS
    Threads = {t1, t2}
    Netbufs = {n1, n2}
    Descriptors = {d1, d2}
    Indices = {1}
    MaxEpoch = 2
    MaxBinds = 2
SPECIFICATION SuiteSpec
INVARIANTS SelectionIsRight AdmissionIsSettled
           ReportNamesTheError OneInitialOpen SeamConserves OriginIsTrue StoreIsConfined OneIdentity
