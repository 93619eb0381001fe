------------------------------ MODULE Bootstrapper ------------------------------
(***************************************************************************)
(* How the configuration of a Cassandra pod is made when the pod starts.   *)
(* The init container init-config copies the configuration of the          *)
(* Cassandra image to a volume; the init container cassandra-bootstrapper  *)
(* copies its own defaults and the files of the ConfigMap over it, and     *)
(* then rewrites it, one read and one write of a file after the other.     *)
(*                                                                         *)
(* A container that is killed or fails is started again over the volume    *)
(* as it was left, the first one not again; a pod whose node reboots       *)
(* starts with the first one, over the same volume.  The ConfigMap is      *)
(* mounted, and may be edited at any time.                                 *)
(*                                                                         *)
(* A file is a sequence of lines <<what it begins with, the rest>>.        *)
(* Left out: the libraries, which nothing rewrites, environment variables  *)
(* that are missing (the operator sets them all) and the default seed      *)
(* provider (the operator never asks for it).                              *)
(***************************************************************************)
EXTENDS JvmMemory, SequencesExt

CONSTANTS
    Image,          \* the files of /etc/cassandra in the Cassandra image
    Defaults,       \* the files of the bootstrapper image
    ConfigMaps,     \* what the ConfigMap can hold: functions from files
    PodSizes,       \* [cpu, memory]: millicores and bytes of a pod
    Setting,        \* the values of the operator: from names to text
    MaxEdits,       \* bound: edits of the ConfigMap
    MaxKills        \* bound: containers killed and nodes rebooted

Yaml == "cassandra.yaml"
JvmOptions == "jvm.options"
RackDCFile == "cassandra-rackdc.properties"
Files == DOMAIN Image \cup DOMAIN Defaults

ASSUME BootstrapperAssumption ==
    /\ {Yaml, JvmOptions, RackDCFile} \subseteq DOMAIN Image
    /\ DOMAIN Image \cap DOMAIN Defaults = {}
    /\ \A c \in ConfigMaps : DOMAIN c \subseteq Files
    /\ \A size \in PodSizes : size.cpu \in Nat /\ size.memory \in Nat
    /\ MaxEdits \in Nat /\ MaxKills \in Nat

(* The size of the pod is the variable podSize of JvmMemory. *)
VARIABLES
    step,       \* what comes next: a step of the two containers, or "done"
    conf,       \* the configuration volume: from files to lines
    configMap,  \* the files of the ConfigMap as mounted
    copied,     \* history: the ConfigMap as the bootstrapper last copied it
    tainted,    \* history: files cut off, or left from an earlier ConfigMap
    edits, kills

vars == <<step, conf, configMap, podSize, copied, tainted, edits, kills>>

-----------------------------------------------------------------------------
(* Lines. *)

Header == <<"seed_provider:", "">>
Comment(line) == line[1] = "#"
Cut == <<"cut off", "">>

Properties == <<"endpoint_snitch", "cluster_name", "listen_address", "rpc_address">>
Agents == <<"jmx_prometheus_javaagent.jar", "jolokia-jvm-agent.jar">>

LinesOf(lines, tag) == SelectSeq(lines, LAMBDA line : line[1] = tag)
Has(lines, tag) == LinesOf(lines, tag) # <<>>

SeedProviderSection ==
    <<Header, <<"- class_name:", "KubernetesSeedProvider">>, <<"  parameters:", Setting["cluster_name"]>>>>

InSeedProvider(lines, i) ==
    \E h \in 1..i : lines[h] = Header /\ \A j \in h..i : ~Comment(lines[j])

(* Mutant: what follows the header is kept. *)
InsertSeedProvider(lines) ==
    FlattenSeq([i \in DOMAIN lines |-> IF lines[i] = Header THEN SeedProviderSection ELSE <<lines[i]>>])

(* The section replaces the header and what follows it, up to a comment.   *)
ReplaceSeedProvider(lines) ==
    FlattenSeq([i \in DOMAIN lines |->
        CASE lines[i] = Header -> SeedProviderSection
          [] lines[i] # Header /\ InSeedProvider(lines, i) -> <<>>
          [] OTHER -> <<lines[i]>>])

(* Mutant: the property is added without a look at the file. *)
SetPropertyAtTheEnd(lines, name) == Append(lines, <<name, Setting[name]>>)

SetProperty(lines, name) ==
    IF Has(lines, name)
    THEN [i \in DOMAIN lines |-> IF lines[i][1] = name THEN <<name, Setting[name]>> ELSE lines[i]]
    ELSE Append(lines, <<name, Setting[name]>>)

RewriteYaml(what, lines) ==
    IF what = "seed provider" THEN ReplaceSeedProvider(lines) ELSE SetProperty(lines, what)

AgentLine(agent) == <<agent, Setting[agent]>>

(* Mutant: an agent that is there already is a conflict. *)
ConflictIfPresent(lines, agent) == Has(lines, agent)

(* The agent's library is there, with other arguments only. *)
Conflict(lines, agent) == Has(lines, agent) /\ ~Contains(lines, AgentLine(agent))

(* Mutant: the agent is added again. *)
AddAgentAgain(lines, agent) == Append(lines, AgentLine(agent))

AddAgent(lines, agent) == IF Has(lines, agent) THEN lines ELSE Append(lines, AgentLine(agent))

MemoryDefault == [tag \in {"-Xmx", "-Xms", "-Xmn"} |-> IF tag = "-Xmn" THEN YoungSize ELSE HeapSize]

(* What is given is left alone, the rest is added. *)
AddMemoryDefaults(lines) ==
    lines \o SelectSeq([i \in 1..3 |-> LET tag == <<"-Xmx", "-Xms", "-Xmn">>[i] IN <<tag, MemoryDefault[tag]>>],
                       LAMBDA line : ~Has(lines, line[1]))

RackDC == <<<<"dc", Setting["dc"]>>, <<"rack", Setting["rack"]>>>>

-----------------------------------------------------------------------------
(* The steps of the two containers. *)

YamlSteps == <<"seed provider">> \o Properties
Steps == <<"init-config", "defaults", "custom">> \o YamlSteps \o Agents \o <<"memory", "rackdc", "done">>
After(s) == Steps[(CHOOSE i \in DOMAIN Steps : Steps[i] = s) + 1]

Nothing == [f \in {} |-> <<>>]

Init ==
    /\ step = "init-config"
    /\ conf = [f \in Files |-> <<>>]
    /\ configMap \in ConfigMaps
    /\ podSize \in PodSizes
    /\ copied = Nothing /\ tainted = {}
    /\ edits = 0 /\ kills = 0

At(s) == step = s /\ step' = After(s) /\ UNCHANGED <<configMap, podSize, edits, kills>>

(* Mutant: what was there is removed first. *)
CopyAnew(from) == conf' = from

Copy(from) == conf' = [f \in Files |-> IF f \in DOMAIN from THEN from[f] ELSE conf[f]]

(* init-config: cp -vr /etc/cassandra/* /configuration *)
InitConfig ==
    /\ At("init-config")
    /\ Copy(Image)
    /\ copied' = Nothing /\ tainted' = tainted \ DOMAIN Image

(* bootstrap.sh begins with the files of its own image. *)
CopyDefaults ==
    /\ At("defaults")
    /\ Copy(Defaults)
    /\ UNCHANGED <<copied, tainted>>

(* Mutant: files that are there already are not overwritten. *)
CopyCustomNew ==
    /\ At("custom")
    /\ Copy([f \in {g \in DOMAIN configMap : conf[g] = <<>>} |-> configMap[f]])
    /\ copied' = configMap
    /\ tainted' = (tainted \cup (DOMAIN copied \ DOMAIN Defaults)) \ DOMAIN configMap

(* A file that is no longer in the ConfigMap stays as it was copied.       *)
CopyCustom ==
    /\ At("custom")
    /\ Copy(configMap)
    /\ copied' = configMap
    /\ tainted' = (tainted \cup (DOMAIN copied \ DOMAIN Defaults)) \ DOMAIN configMap

Write(file, lines) == conf' = [conf EXCEPT ![file] = lines] /\ UNCHANGED <<copied, tainted>>

RewriteCassandraYaml(what) == At(what) /\ Write(Yaml, RewriteYaml(what, conf[Yaml]))

AddJavaAgent(agent) ==
    /\ At(agent)
    /\ ~Conflict(conf[JvmOptions], agent)
    /\ Write(JvmOptions, AddAgent(conf[JvmOptions], agent))

JvmMemoryDefaults == At("memory") /\ Write(JvmOptions, AddMemoryDefaults(conf[JvmOptions]))

(* The file is replaced, what the image or the ConfigMap put there is gone. *)
WriteRackDC == At("rackdc") /\ Write(RackDCFile, RackDC)

-----------------------------------------------------------------------------
(* What else can happen to the containers. *)

Bootstrapping == step \notin {"init-config", "done"}

RestartBootstrapper == step' = "defaults" /\ UNCHANGED <<configMap, podSize, copied, edits>>

(* The exception for a conflict ends the container, which is started again. *)
AgentConflicts(agent) ==
    /\ step = agent
    /\ Conflict(conf[JvmOptions], agent)
    /\ RestartBootstrapper
    /\ UNCHANGED <<conf, tainted, kills>>

Kill == kills < MaxKills /\ kills' = kills + 1

KilledBetweenWrites ==
    /\ Bootstrapping
    /\ Kill /\ RestartBootstrapper
    /\ UNCHANGED <<conf, tainted>>

(* cassandra.yaml is longer than a buffer: it may be truncated and then    *)
(* written in part, up to somewhere in a line.  What is appended to        *)
(* jvm.options is not, and the other files are written anew at a restart.  *)
KilledInWrite(what) ==
    /\ step = what
    /\ LET lines == RewriteYaml(what, conf[Yaml])
       IN \E n \in 0..Len(lines)-1, rest \in {<<>>, <<Cut>>} :
            conf' = [conf EXCEPT ![Yaml] = SubSeq(lines, 1, n) \o rest]
    /\ tainted' = tainted \cup {Yaml}
    /\ Kill /\ RestartBootstrapper

NodeReboots ==
    /\ Kill
    /\ step' = "init-config"
    /\ UNCHANGED <<conf, configMap, podSize, copied, tainted, edits>>

EditConfigMap ==
    /\ edits < MaxEdits /\ edits' = edits + 1
    /\ configMap' \in ConfigMaps \ {configMap}
    /\ UNCHANGED <<step, conf, podSize, copied, tainted, kills>>

Container ==
    \/ InitConfig \/ CopyDefaults \/ CopyCustom
    \/ \E i \in DOMAIN YamlSteps : RewriteCassandraYaml(YamlSteps[i])
    \/ \E i \in DOMAIN Agents : AddJavaAgent(Agents[i]) \/ AgentConflicts(Agents[i])
    \/ JvmMemoryDefaults \/ WriteRackDC

Next ==
    \/ Container
    \/ KilledBetweenWrites \/ NodeReboots \/ EditConfigMap
    \/ \E i \in DOMAIN YamlSteps : KilledInWrite(YamlSteps[i])

Spec == Init /\ [][Next]_vars /\ WF_vars(Container)

-----------------------------------------------------------------------------
(* Properties. *)

TypeOK ==
    /\ \E i \in DOMAIN Steps : step = Steps[i]
    /\ DOMAIN conf = Files
    /\ \A f \in Files : \A i \in DOMAIN conf[f] : Len(conf[f][i]) = 2
    /\ configMap \in ConfigMaps /\ copied \in ConfigMaps \cup {Nothing}
    /\ podSize \in PodSizes
    /\ tainted \subseteq Files
    /\ edits \in 0..MaxEdits /\ kills \in 0..MaxKills

(* Where a file came from before it was rewritten. *)
Source(file) ==
    IF file \in DOMAIN copied THEN copied[file]
    ELSE IF file \in DOMAIN Image THEN Image[file] ELSE Defaults[file]

(* The header of the seed provider and the lines that belong to it: those  *)
(* after it that begin with a blank or a dash.                             *)
Nested == {"- class_name:", "    - class_name:", "    # indented", "  parameters:"}
SeedProviderLine(lines, i) ==
    \E h \in 1..i : lines[h] = Header /\ \A j \in h+1..i : lines[j][1] \in Nested

(* Settings behind the section, with no comment between.  The code takes   *)
(* them for a part of the section (SeedProvider.java:22-33).               *)
Swallowed(lines) == {i \in DOMAIN lines : InSeedProvider(lines, i) /\ ~SeedProviderLine(lines, i)}

(* The lines of a file that are not the operator's business, but for those *)
(* that are lost.                                                          *)
Rest(lines, lost) ==
    LET Mine == ToSet(Properties) \cup ToSet(Agents) \cup DOMAIN MemoryDefault
    IN FlattenSeq([i \in DOMAIN lines |->
         IF lines[i][1] \in Mine \/ SeedProviderLine(lines, i) \/ i \in lost THEN <<>> ELSE <<lines[i]>>])

(* Only what the operator requires is modified: in the configuration that  *)
(* Cassandra is started with, every other line of the image's, the         *)
(* bootstrapper's or the ConfigMap's file is there, in its place and once, *)
(* however often the containers were restarted.  A file from the ConfigMap *)
(* is the one that was mounted last, whatever was half written before.     *)
(* One exception: the settings that are swallowed with the section of the  *)
(* seed provider are lost.  The base image, of which the design says that  *)
(* "all other configuration [...] is left unmodified" (lines 118-119), has *)
(* a comment after the section and loses nothing.  A user's cassandra.yaml *)
(* may lose settings, although the README of the bootstrapper (line 5)     *)
(* says that it "preserves as much as possible" of it.                     *)
OnlyRequiredChanged ==
    step = "done" =>
      \A f \in Files \ (tainted \cup {RackDCFile}) :
        Rest(conf[f], {}) = Rest(Source(f), IF f = Yaml THEN Swallowed(Source(f)) ELSE {})

(* Everything the operator requires is in the configuration that Cassandra *)
(* is started with, once and with the operator's value, even over a file   *)
(* that was cut off: properties, agents, memory, rack, and the seed        *)
(* provider wherever there is a section for it.                            *)
OperatorSettings ==
    step = "done" =>
      /\ \A name \in ToSet(Properties) :
           LET lines == LinesOf(conf[Yaml], name)
           IN /\ ToSet(lines) = {<<name, Setting[name]>>}
              /\ Yaml \notin tainted => Len(lines) <= Larger(1, Len(LinesOf(Source(Yaml), name)))
      /\ \A i \in DOMAIN conf[Yaml] :
           InSeedProvider(conf[Yaml], i) =>
             conf[Yaml][i] \in ToSet(SeedProviderSection) \/ conf[Yaml][i][1] \in ToSet(Properties)
      /\ Yaml \notin tainted /\ Contains(Source(Yaml), Header) =>
           ToSet(SeedProviderSection) \subseteq ToSet(conf[Yaml])
      /\ \A agent \in ToSet(Agents) : LinesOf(conf[JvmOptions], agent) = <<AgentLine(agent)>>
      /\ JvmOptions \notin tainted =>
           \A tag \in DOMAIN MemoryDefault :
             LinesOf(conf[JvmOptions], tag) =
               IF Has(Source(JvmOptions), tag) THEN LinesOf(Source(JvmOptions), tag)
               ELSE <<<<tag, MemoryDefault[tag]>>>>
      /\ conf[RackDCFile] = RackDC

(* The pod gets its configuration, after any restarts, once jvm.options    *)
(* has no conflicting agent.  Taking jvm.options out of the ConfigMap does *)
(* not end a conflict: the file is still in the volume.                    *)
BootstrapEnds ==
    <>[](IF JvmOptions \in DOMAIN configMap
         THEN \A i \in DOMAIN Agents : ~(Has(configMap[JvmOptions], Agents[i])
                                         /\ ~Contains(configMap[JvmOptions], AgentLine(Agents[i])))
         ELSE JvmOptions \notin tainted)
      => []<>(step = "done")

=============================================================================
