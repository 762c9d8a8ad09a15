-------------------------- MODULE MCRequestPipeline --------------------------
EXTENDS RequestPipeline

Ask(method, path, complete) == [method |-> method, path |-> path, complete |-> complete]

\* Every way to carry out a command; the scripts of more than one; and what the
\* router or a module refuses.
Asks == { Ask("POST", <<"podman", "images", "build">>, FALSE),
          Ask("POST", <<"storage", "devices", "format">>, TRUE),
          Ask("POST", <<"zfs", "pools">>, TRUE),
          Ask("POST", <<"cloudflare", "provision">>, TRUE),
          Ask("DELETE", <<"podman", "images", "build">>, TRUE) }

By(asks, callers) == {ask @@ caller : ask \in asks, caller \in callers}

\* Each of them by an administrator; and what does not come that far.
AdminCalls == By(Asks, {[token |-> TRUE, groups |-> {"admins"}]})

TurnedAway ==
    By({ Ask("POST", <<"firewall", "zones", "home", "services", "ssh", "on">>, TRUE),
         Ask("POST", <<"systemd", "units", "sshd", "restart">>, TRUE) },
       {[token |-> TRUE, groups |-> {"admins"}]})
    \cup By({ Ask("DELETE", <<"sensors", "thresholds">>, TRUE) },
            { [token |-> TRUE, groups |-> {"guests"}],
              [token |-> FALSE, groups |-> {}] })

AllCalls == AdminCalls \cup TurnedAway

ExecCalls == By({ Ask("POST", <<"podman", "containers", "web", "exec">>, TRUE) },
                {[token |-> TRUE, groups |-> {"admins"}]})

\* app.New registers all eight modules; a router may be given fewer, or one
\* that answers to another's id.
AllModules == [m \in Modules |-> "own"]
SomeModules == [m \in Modules |-> CASE m = "firewall" -> "none"
                                    [] m = "diagnostics" -> "other"
                                    [] OTHER -> "own"]
=============================================================================
