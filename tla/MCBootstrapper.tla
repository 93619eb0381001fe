------------------------------ MODULE MCBootstrapper ------------------------------
(* An instance of Bootstrapper: short files with a line of every kind that   *)
(* the code tells apart.                                                      *)
EXTENDS Bootstrapper, TLC

Settings ==
    "endpoint_snitch" :> "GossipingPropertyFileSnitch" @@ "cluster_name" :> "mycluster"
    @@ "listen_address" :> "podIp" @@ "rpc_address" :> "podIp" @@ "dc" :> "dc1" @@ "rack" :> "a"
    @@ "jmx_prometheus_javaagent.jar" :> "7070" @@ "jolokia-jvm-agent.jar" :> "7777"

ImageYaml ==
    <<<<"#", "1">>, <<"cluster_name", "Test Cluster">>, Header, <<"    # indented", "">>, <<"    - class_name:", "Simple">>,
      <<"#", "2">>, <<"listen_address", "localhost">>, <<"data_file_directories:", "">>>>

(* No comment follows the section, and the last setting is swallowed. *)
UserYaml ==
    <<<<"num_tokens", "512">>, <<"rpc_address", "1">>, <<"rpc_address", "2">>, Header, <<"- class_name:", "Simple">>,
      <<"endpoint_snitch", "SimpleSnitch">>, <<"hinted_handoff_enabled", "true">>>>

ImageFiles ==
    Yaml :> ImageYaml @@ JvmOptions :> <<<<"-Xss", "256k">>>> @@ RackDCFile :> <<<<"dc", "dc1">>, <<"rack", "rack1">>>>

DefaultFiles == "prometheus.yml" :> <<<<"rules:", "default">>>>

UserJvm == JvmOptions :> <<<<"-Xmx", 7>>, <<"jolokia-jvm-agent.jar", "7777">>>>
ConflictingJvm == JvmOptions :> <<<<"jolokia-jvm-agent.jar", "8888">>, <<"-Xss", "1M">>>>
UserPrometheus == "prometheus.yml" :> <<<<"rules:", "user">>>>

AnyConfigMap == {Nothing, UserJvm, ConflictingJvm, Yaml :> UserYaml @@ UserPrometheus}

AnyPodSize ==
    {[cpu |-> 1, memory |-> 1], [cpu |-> 4000, memory |-> 2 * MiB],
     [cpu |-> 1001, memory |-> 16 * MiB - 1], [cpu |-> 4000, memory |-> 1024 * MiB]}
=============================================================================
