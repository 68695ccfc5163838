-------------------------- MODULE MCInfrastructure --------------------------
EXTENDS Infrastructure

Scenario(kinds, templates, edits, n) ==
    [plan |-> kinds, templates |-> templates, podTLS |-> TRUE, nics |-> FALSE, edits |-> edits, events |-> n]

Edits == {"enabled", "template", "tls", "version", "fail", "crash"}

RabbitMQ == {Scenario(<<"rabbitmq", "infra">>, {1, 2}, Edits, 1), Scenario(<<"rabbitmq", "infra">>, {1}, Edits, 2),
             Scenario(<<"rabbitmq">>, {1, 2}, {"update"}, 1)}
Galera == {Scenario(<<"galera", "infra">>, {1, 2}, Edits, 1), Scenario(<<"galera", "infra">>, {1}, Edits, 2)}
Memcached == {Scenario(<<"memcached", "infra">>, {1, 2}, Edits, 1), Scenario(<<"memcached", "infra">>, {1}, Edits, 2)}
Redis == {Scenario(<<"redis">>, {1}, Edits, 2)}
OvnTLS == {[Scenario(<<"ovn", "infra">>, {1}, {"tls", "fail"}, 1) EXCEPT !.nics = TRUE]}
OvnPlain == {[Scenario(<<"ovn", "infra">>, {1, 2}, (Edits \ {"tls"}) \cup {"nics"}, 1) EXCEPT !.podTLS = FALSE]}

All == RabbitMQ \cup Galera \cup Memcached \cup Redis \cup OvnTLS \cup OvnPlain
\* A minor update of two databases: with Checked = {"galera"} it violates MinorUpdateMeansAll.
Cells == {Scenario(<<"galera">>, {1, 2}, {"update"}, 1)}
=============================================================================
