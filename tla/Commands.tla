------------------------------ MODULE Commands ------------------------------
(***************************************************************************)
(* The command in a server's metadata, on its way to the container of a    *)
(* sidecar: AdapterService looks the server's secrets up and puts them in  *)
(* the place of templates, SidecarManager takes docker commands apart and  *)
(* puts other commands behind a script that installs what they need.       *)
(*                                                                         *)
(* A text is a sequence of words.                                          *)
(***************************************************************************)
LOCAL INSTANCE Sequences
LOCAL INSTANCE SequencesExt
LOCAL INSTANCE TLC

CONSTANT Absent

Word(is, name, value) == [is |-> is, name |-> name, value |-> value]

Plain(text) == Word("plain", text, "")
Flag(text) == Word("flag", text, "")           \* begins with a dash
Pair(name, value) == Word("pair", name, value) \* name=value
Template(variable) == Word("template", variable, "")
PairOf(name, variable) == Word("pair of template", name, variable)

Dollar(env) == "$" \o env
Reference(env) == Plain(Dollar(env))

-----------------------------------------------------------------------------
(***************************************************************************)
(* Templates.  A secret is a variable's name and that of its environment   *)
(* variable, or Absent where this is missing.                              *)
(***************************************************************************)

\* The metadata have secrets of their own, or else in their config.
Secrets(meta) ==
  IF meta.secrets # Absent THEN meta.secrets
  ELSE IF meta.config # Absent THEN meta.config
  ELSE <<>>

\* The first secret of that name decides; "" if there is none.
LookupTemplatedVariable(variable, secrets) ==
  LET first == SelectInSeq(secrets, LAMBDA s : s.name = variable)
  IN IF first = 0 THEN "" ELSE secrets[first].env

Variable(word) ==
  CASE word.is = "template"         -> word.name
    [] word.is = "pair of template" -> word.value
    [] OTHER                        -> ""

Resolved(word, secrets) ==
  Variable(word) # "" /\ LookupTemplatedVariable(Variable(word), secrets) \notin {"", Absent}

\* What takes a template's place: "$ENV", or "-e ENV=$ENV", also behind a "name=".
AsReference(word, env) ==
  <<IF word.is = "template" THEN Reference(env) ELSE Pair(word.name, Dollar(env))>>

AsOption(word, env) ==
  <<IF word.is = "template" THEN Flag("-e") ELSE Pair(word.name, "-e"), Pair(env, Dollar(env))>>

\* A text with its templates replaced; what cannot be looked up stays.
ProcessTemplates(text, secrets, inDocker) ==
  FlattenSeq([i \in DOMAIN text |->
    LET env == LookupTemplatedVariable(Variable(text[i]), secrets)
    IN IF ~Resolved(text[i], secrets) THEN <<text[i]>>
       ELSE IF inDocker THEN AsOption(text[i], env) ELSE AsReference(text[i], env)])

ProcessGenericTemplates(text, secrets) == ProcessTemplates(text, secrets, FALSE)

\* Variant: docker commands are treated like others.
ReferencesInDocker(text, secrets) == ProcessGenericTemplates(text, secrets)

ProcessDockerTemplates(text, secrets) == ProcessTemplates(text, secrets, TRUE)

\* The URL of an "http" server stays as it is.
ProcessCommandTemplates(type, text, secrets) ==
  CASE type = "docker"                  -> ProcessDockerTemplates(text, secrets)
    [] type \in {"python", "npx", "go"} -> ProcessGenericTemplates(text, secrets)
    [] OTHER                            -> text

-----------------------------------------------------------------------------
(***************************************************************************)
(* Containers.                                                             *)
(***************************************************************************)
Failed == [image |-> Plain("failed")]
Panicked == [image |-> Plain("panicked")]

(***************************************************************************)
(* Behind "docker run": "-e" takes the next word, whatever it is, and the  *)
(* image is the first other word that does not begin with a dash, be it    *)
(* the value of another flag or a template.                                *)
(***************************************************************************)
ParseDockerCommand(text) ==
  LET Start == [image |-> Absent, env |-> <<>>, taken |-> FALSE]
      \* p.taken: the word is taken by the "-e" in front of it.
      Parse(p, word) ==
        CASE p.taken /\ word.is = "pair" ->
               [p EXCEPT !.taken = FALSE, !.env = (word.name :> word.value) @@ @]
          [] p.taken /\ word.is = "pair of template" ->
               [p EXCEPT !.taken = FALSE, !.env = (word.name :> "{{...}}") @@ @]
          [] p.taken /\ word.is \notin {"pair", "pair of template"} ->
               [p EXCEPT !.taken = FALSE]
          [] ~p.taken /\ word = Flag("-e") -> [p EXCEPT !.taken = TRUE]
          [] ~p.taken /\ word.is # "flag" /\ p.image = Absent -> [p EXCEPT !.image = word]
          [] OTHER -> p
      parsed == FoldLeft(Parse, Start, SubSeq(text, 3, Len(text)))
  IN IF Len(text) < 2 \/ SubSeq(text, 1, 2) # <<Plain("docker"), Plain("run")>>
       THEN Start ELSE parsed

\* UVICORN_HOST is entered last, and the last entry of a name counts.
BuildEnvVars(env) == ("UVICORN_HOST" :> "0.0.0.0") @@ env

\* `given` is the adapter's EnvironmentVariables, which come before the command's.
DeployDocker(config, given) ==
  LET parsed == ParseDockerCommand(config.text)
  IN IF parsed.image = Absent THEN Failed
     ELSE [image |-> parsed.image, script |-> <<>>, text |-> <<>>,
           env |-> BuildEnvVars(given @@ parsed.env)]

GetImageForCommandType(type) ==
  CASE type = "python" -> Plain("bci/python")
    [] type = "npx"    -> Plain("bci/nodejs")
    [] type = "go"     -> Plain("bci/golang")

(***************************************************************************)
(* What is downloaded is found by the first word of the command; without   *)
(* looking if there is one.  Without a project whose owner can be made out *)
(* the script builds after all, and calls what it builds by the command.   *)
(***************************************************************************)
PrepareGoReleaseCommand(config) ==
  CASE config.project # "github"                       -> <<"clone", "build">>
    [] config.project = "github" /\ config.text = <<>> -> Absent
    [] OTHER                                           -> <<"download, or clone and build">>

DeployGeneric(config, given) ==
  LET cloned == IF config.project = Absent THEN <<>> ELSE <<"clone">>
      script ==
        CASE config.type = "npx" -> <<>>
          [] config.type = "python" ->
               <<"uv">> \o cloned \o (IF cloned = <<>> THEN <<>> ELSE <<"sync">>)
          [] config.type = "go" /\ config.release -> PrepareGoReleaseCommand(config)
          [] config.type = "go" /\ ~config.release -> cloned \o <<"build">>
  IN CASE script = Absent -> Panicked
       [] config.type = "go" /\ ~config.release /\ config.text = <<>> -> Failed
       [] OTHER -> [image |-> GetImageForCommandType(config.type), script |-> script,
                    text |-> config.text, env |-> BuildEnvVars(given)]

DeployWithKubeClient(config, given) ==
  CASE config.type = "docker"                  -> DeployDocker(config, given)
    [] config.type \in {"python", "npx", "go"} -> DeployGeneric(config, given)
    [] OTHER                                   -> Failed

-----------------------------------------------------------------------------
(***************************************************************************)
(* Examples of every kind, and what should hold of them.                   *)
(***************************************************************************)
DockerRun == <<Plain("docker"), Plain("run")>>

SomeWords ==
  {Plain("image"), Flag("-e"), Flag("-it"), Pair("KEY", "value"), Template("user"),
   Template("pass"), Template("other"), PairOf("KEY", "user")}

SomeTexts(n) == SeqOf(SomeWords, n)

SomeConfigs ==
  {[type |-> "docker", text |-> DockerRun \o text] : text \in SomeTexts(4)}
    \cup [type : {"python", "npx", "go"}, project : {Absent, "github", "elsewhere"},
          release : BOOLEAN, text : SomeTexts(2) \ {<<>>}]

\* "pass" has two environment variables, and "other" none.
SomeMeta ==
  LET secret == [name |-> "user", env |-> "USER"]
      secrets == <<secret, [name |-> "pass", env |-> "PASS"], [name |-> "pass", env |-> "PWD"],
                   [name |-> "other", env |-> Absent]>>
  IN {[secrets |-> secrets, config |-> Absent], [secrets |-> Absent, config |-> secrets],
      [secrets |-> <<secret>>, config |-> secrets]}

SomeGiven == {<<>>, "USER" :> "me", ("USER" :> "me") @@ ("PASS" :> "secret")}

(***************************************************************************)
(* In docker commands a template stands by itself, as if it were a flag:   *)
(* not behind "-e", nor "name=".                                           *)
(***************************************************************************)
WellPlaced(config) ==
  config.type = "docker" =>
    \A i \in DOMAIN config.text :
      Variable(config.text[i]) # "" =>
        /\ config.text[i].is = "template"
        /\ config.text[i - 1] # Flag("-e")

(***************************************************************************)
(* Whatever the user has given for a secret that the command names arrives *)
(* in the container, in the environment and, but for docker, in the words  *)
(* that the shell expands; and templates that are all known do not change  *)
(* what is run: the image, and the environment that the command sets.      *)
(***************************************************************************)
CommandsCarrySecrets ==
  \A config \in {c \in SomeConfigs : WellPlaced(c)}, meta \in SomeMeta, given \in SomeGiven :
    LET secrets == Secrets(meta)
        used == {i \in DOMAIN config.text : Resolved(config.text[i], secrets)}
        env == {LookupTemplatedVariable(Variable(config.text[i]), secrets) : i \in used}
        bare == SelectSeq(config.text, LAMBDA w : ~Resolved(w, secrets))
        Deployed(text) == DeployWithKubeClient([config EXCEPT !.text = text], given)
        container == Deployed(ProcessCommandTemplates(config.type, config.text, secrets))
        without == Deployed(bare)
    IN IF config.type = "docker"
         THEN /\ container.image = without.image
              /\ container # Failed =>
                   /\ \A e \in env \cap DOMAIN given : container.env[e] = given[e]
                   /\ \A e \in DOMAIN without.env \ env : container.env[e] = without.env[e]
         ELSE /\ \A e \in env \cap DOMAIN given : container.env[e] = given[e]
              /\ \A i \in used :
                   Dollar(LookupTemplatedVariable(Variable(config.text[i]), secrets)) \in
                     {container.text[i].name, container.text[i].value}
=============================================================================
