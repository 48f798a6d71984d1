SPECIFICATION RetrySpec
CONSTANTS
    ig1 = ig1
    ig2 = ig2
    as1 = as1
    as2 = as2
    main = main
    rt1 = rt1
    ac1 = ac1
    dflt = dflt
    sn1 = sn1
    sn2 = sn2
    sn3 = sn3
    en1 = en1
    en2 = en2
    en3 = en3
    Igws <- MCIgws
    Assocs <- MCAssocs
    MainAssoc = main
    Acls <- MCAcls
    DefaultAcl = dflt
    Subnets <- MCSubnets
    Enis <- MCEnis
    AclMaps <- MCAclMaps
    CustomTables <- MCCustomTables
    SubnetOf <- MCSubnetOf
    Late <- MCLate
    AclInUseRefused = TRUE
    MaxFaults = 2
INVARIANTS
    QuietAttemptNotRefused
    OrphanNeedsFault
PROPERTY
    RetriesRemoveVpc
CHECK_DEADLOCK FALSE
