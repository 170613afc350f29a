------------------------------- MODULE PartsBase -------------------------------
\* What the parts of MCParts share.  The initial state chooses one of them, and
\* they use the same variables, under names of their own: the n-th variable of
\* each part is v_n, and those a part does not need are "none".

CONSTANTS
    People, Agents,  \* accounts, and processes
    NoOne, us, others,
    MaxSignIns

VARIABLES scene, v1, v2, v3, v4, v5, v6, v7, v8, v9, v10, v11, v12, v13, v14, v15, v16, v17, v18,
    v19, v20, v21, v22, v23, v24, v25
allVars == <<scene, v1, v2, v3, v4, v5, v6, v7, v8, v9, v10, v11, v12, v13, v14, v15, v16, v17, v18,
    v19, v20, v21, v22, v23, v24, v25>>
=============================================================================
