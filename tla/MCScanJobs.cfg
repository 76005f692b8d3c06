\* Three jobs, two servers to be found.  Once the last job was started and is
\* stuck or done nothing is left to do: the bound on the jobs stops the model.
SPECIFICATION JobsSpec
CONSTANTS
    s1 = s1  s2 = s2
    Nobody = Nobody
    MaxJobs = 3
    Servers <- TwoServers
INVARIANTS
    RemovedJobsAreOver
PROPERTIES
    JobsEnd
CHECK_DEADLOCK FALSE
