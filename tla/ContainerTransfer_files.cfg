\* Two file calls, with a proxy, a tool policy or neither, and two failures anywhere.
CONSTANTS
    r1 = r1
    r2 = r2
    Request = {r1, r2}
    Nobody = Nobody
    Kinds <- AnyTwo
    MaxFailures = 2
SPECIFICATION FairSpec
INVARIANTS ProxyTypeOK AdmissionSpansHandler ReadIsReported
PROPERTIES ContractSpec CallsSettle
\* Every call is settled and the connector is gone.
CHECK_DEADLOCK FALSE
