---------------------------- MODULE CommandLine ----------------------------
(***************************************************************************)
(* The commands of the command line (internal/cli), each a process of its  *)
(* own in a terminal: config set, reset and edit, the setup wizard, run,   *)
(* models pull and the line-oriented chat. They share the global           *)
(* configuration file and the models that Ollama has.                      *)
(*                                                                         *)
(* Two settings stand for all, and the chat's model for the assignment of  *)
(* its agent. What the project's configuration and the environment         *)
(* override is fixed for a behaviour. Ollama and the agent                 *)
(* database are external: an answer may be an error, come late or never.   *)
(***************************************************************************)
EXTENDS Naturals

CONSTANTS Terminals, Models, DefaultModel, Overrides,
          MaxCommands          \* bound

SettingKeys == {"default_model", "auto_pull"}
Values == [default_model |-> Models, auto_pull |-> {"yes", "no"}]

ASSUME CommandAssumption ==
    /\ DefaultModel \in Models /\ MaxCommands \in Nat
    /\ \A o \in Overrides, k \in SettingKeys : k \in DOMAIN o => o[k] \in Values[k]

VARIABLES config,        \* the global file
          override,      \* what the project and the environment set
          command,       \* the command of each terminal
          installed,     \* models Ollama has
          lastSet,       \* history: what the file should say of a setting, if that is known
          commandsGiven

commandVars == <<config, override, command, installed, lastSet, commandsGiven>>

Defaults == [default_model |-> DefaultModel, auto_pull |-> "yes"]
Settings == {s \in [SettingKeys -> Models \cup {"yes", "no"}] : \A k \in SettingKeys : s[k] \in Values[k]}
Unknown == "unknown"
NoModel == "no model"
NoCommand == [step |-> "none"]
Is(t, step) == command[t] # NoCommand /\ command[t].step = step

CommandTypeOK ==
    /\ config.state \in {"absent", "empty", "broken", "settings"} /\ config.values \in Settings
    /\ \A t \in Terminals :
         command[t] # NoCommand =>
            /\ command[t].step \in {"truncate", "write", "ask", "editor", "check", "pull", "chat", "stream", "prompt"}
            /\ command[t].cfg \in Settings /\ command[t].model \in Models \cup {NoModel}
    /\ installed \subseteq Models
    /\ \A k \in SettingKeys : lastSet[k] \in Values[k] \cup {Unknown}

CommandInit ==
    /\ config = [state |-> "absent", values |-> Defaults]
    /\ override \in Overrides
    /\ command = [t \in Terminals |-> NoCommand]
    /\ installed = {}
    /\ lastSet = Defaults
    /\ commandsGiven = 0

-----------------------------------------------------------------------------
\* LoadSyntorConfig: the defaults, over them the file, the project's and the
\* environment. An empty file is a valid one that sets nothing.
Loaded == LET base == IF config.state = "settings" THEN config.values ELSE Defaults
          IN  [k \in SettingKeys |-> IF k \in DOMAIN override THEN override[k] ELSE base[k]]

\* Every command loads the configuration first, and ends if it cannot be parsed.
\* A command remembers whether the file has been changed by another one since.
New(kind, step) ==
    [kind |-> kind, step |-> step, cfg |-> Loaded, sets |-> <<>>, model |-> NoModel,
     stale |-> config.state = "empty"]

Give(t, c) ==
    /\ command[t] = NoCommand /\ commandsGiven < MaxCommands /\ commandsGiven' = commandsGiven + 1
    /\ config.state # "broken"
    /\ command' = [command EXCEPT ![t] = c]
    /\ UNCHANGED <<config, override, installed, lastSet>>

SetConfigValue(t, k, val) ==
    Give(t, [New("set", "truncate") EXCEPT !.cfg = [Loaded EXCEPT ![k] = val], !.sets = [j \in {k} |-> val]])

\* A mutant: a setting is forgotten.
ResetConfigPartly(t) ==
    Give(t, [New("reset", "truncate") EXCEPT !.cfg = [Defaults EXCEPT !["auto_pull"] = Loaded["auto_pull"]],
                                              !.sets = Defaults])

ResetConfig(t) == Give(t, [New("reset", "truncate") EXCEPT !.cfg = Defaults, !.sets = Defaults])

Wizard(t) == Give(t, New("init", "ask"))

\* The editor opens the file, which is created if there is none.
EditConfig(t) ==
    Give(t, IF config.state = "absent" THEN New("edit", "truncate")
            ELSE [New("edit", "editor") EXCEPT !.cfg = IF config.state = "settings" THEN config.values ELSE Defaults])

\* The registry of models, made from the configuration.
GetDefaultModel == Loaded["default_model"]

\* The model of a run: a flag's, the agent database's, or the default.
RunAgent(t, flag, fromDB) ==
    Give(t, [New("run", "check") EXCEPT !.model = IF flag # NoModel THEN flag
                                                  ELSE IF fromDB # NoModel THEN fromDB
                                                  ELSE GetDefaultModel])

PullCommand(t, m) == Give(t, [New("pull", "pull") EXCEPT !.model = m])
StartChat(t, m) == Give(t, [New("repl", "prompt") EXCEPT !.model = m])

-----------------------------------------------------------------------------
NowDoes(t, c) == command' = [command EXCEPT ![t] = c]
\* t changes the file: the others have loaded an older one.
Changes(t, c) ==
    command' = [x \in Terminals |-> IF x = t THEN c
                                    ELSE IF command[x] = NoCommand THEN NoCommand
                                    ELSE [command[x] EXCEPT !.stale = TRUE]]

\* The wizard asks whether to go on, then starts from the defaults.
WizardAnswers(t) ==
    /\ Is(t, "ask")
    /\ \/ config.state # "absent" /\ NowDoes(t, NoCommand)
       \/ \E s \in Settings :
            NowDoes(t, [command[t] EXCEPT !.step = "truncate", !.cfg = s, !.sets = s,
                                          !.model = s["default_model"]])
    /\ UNCHANGED <<config, override, installed, lastSet, commandsGiven>>

\* SaveSyntorConfig with os.WriteFile: the file is emptied, then written.
EmptyFile(t) ==
    /\ Is(t, "truncate")
    /\ config' = [config EXCEPT !.state = "empty"]
    /\ Changes(t, [command[t] EXCEPT !.step = "write"])
    /\ UNCHANGED <<override, installed, lastSet, commandsGiven>>

\* Where the file has been written since, the longer text sticks out of the other.
AfterWrite(t) ==
    CASE command[t].kind = "edit" -> [command[t] EXCEPT !.step = "editor"]
      [] command[t].kind = "init" /\ command[t].cfg["auto_pull"] = "yes" -> [command[t] EXCEPT !.step = "pull"]
      [] OTHER -> NoCommand

WriteConfig(t) ==
    /\ Is(t, "write")
    /\ \/ /\ config' = [state |-> "settings", values |-> command[t].cfg]
          /\ lastSet' = [k \in SettingKeys |-> IF k \in DOMAIN command[t].sets THEN command[t].sets[k]
                                        ELSE IF command[t].stale THEN Unknown ELSE lastSet[k]]
       \/ /\ config.state # "empty"
          /\ config' = [config EXCEPT !.state = "broken"]
          /\ lastSet' = [k \in SettingKeys |-> Unknown]
    /\ Changes(t, AfterWrite(t))
    /\ UNCHANGED <<override, installed, commandsGiven>>

\* The editor writes what it has opened with a change, or something that cannot be
\* parsed, or nothing.
EditorSaves(t) ==
    /\ Is(t, "editor")
    /\ \/ \E k \in SettingKeys : \E val \in Values[k] :
            /\ config' = [state |-> "settings", values |-> [command[t].cfg EXCEPT ![k] = val]]
            /\ lastSet' = [j \in SettingKeys |-> IF j = k THEN val ELSE IF command[t].stale THEN Unknown ELSE lastSet[j]]
            /\ Changes(t, NoCommand)
       \/ /\ config' = [config EXCEPT !.state = "broken"]
          /\ lastSet' = [k \in SettingKeys |-> Unknown]
          /\ Changes(t, NoCommand)
       \/ NowDoes(t, NoCommand) /\ UNCHANGED <<config, lastSet>>
    /\ UNCHANGED <<override, installed, commandsGiven>>

-----------------------------------------------------------------------------
Waiting(t) == \/ Is(t, "check") \/ Is(t, "chat") \/ Is(t, "stream")
              \/ Is(t, "pull") /\ command[t].kind = "run"
\* What a failed or finished request leads back to.
Back(t) == IF command[t].kind = "repl" THEN [command[t] EXCEPT !.step = "prompt"] ELSE NoCommand

HasModel(m) == m \in installed

CheckModel(t) ==
    /\ Is(t, "check")
    /\ NowDoes(t, IF HasModel(command[t].model) THEN [command[t] EXCEPT !.step = "chat"]
                     ELSE IF command[t].cfg["auto_pull"] = "yes" THEN [command[t] EXCEPT !.step = "pull"]
                     ELSE NoCommand)
    /\ UNCHANGED <<config, override, installed, lastSet, commandsGiven>>

\* PullModel reads the progress to its end: a pull that Ollama gives up looks the
\* same as one that has brought the model.
PullEnds(t) ==
    /\ Is(t, "pull")
    /\ installed' \in {installed, installed \cup {command[t].model}}
    /\ NowDoes(t, IF command[t].kind = "run" THEN [command[t] EXCEPT !.step = "chat"] ELSE NoCommand)
    /\ UNCHANGED <<config, override, lastSet, commandsGiven>>

\* The chat is streamed; where Ollama has no such model it is refused.
Chat(t) ==
    /\ Is(t, "chat")
    /\ NowDoes(t, IF HasModel(command[t].model) THEN [command[t] EXCEPT !.step = "stream"] ELSE Back(t))
    /\ UNCHANGED <<config, override, installed, lastSet, commandsGiven>>

AnswerEnds(t) ==
    /\ Is(t, "stream") /\ NowDoes(t, Back(t))
    /\ UNCHANGED <<config, override, installed, lastSet, commandsGiven>>

\* models pull and the wizard's pulls fail when Ollama says so; they have no deadline.
PullFails(t) ==
    /\ Is(t, "pull") /\ command[t].kind # "run" /\ NowDoes(t, NoCommand)
    /\ UNCHANGED <<config, override, installed, lastSet, commandsGiven>>

\* A mutant: a pull has no deadline, whoever asks for it.
DeadlineOfChat(t) ==
    /\ Waiting(t) /\ ~Is(t, "pull") /\ NowDoes(t, Back(t))
    /\ UNCHANGED <<config, override, installed, lastSet, commandsGiven>>

\* An error, or the deadline of a run or of a message.
Deadline(t) ==
    /\ Waiting(t) /\ NowDoes(t, Back(t))
    /\ UNCHANGED <<config, override, installed, lastSet, commandsGiven>>

\* The chat's prompt: /model sets the model in memory, a message is sent.
Prompt(t) ==
    /\ Is(t, "prompt") /\ commandsGiven < MaxCommands /\ commandsGiven' = commandsGiven + 1
    /\ \/ \E m \in Models : NowDoes(t, [command[t] EXCEPT !.model = m])
       \/ NowDoes(t, [command[t] EXCEPT !.step = "chat"])
    /\ UNCHANGED <<config, override, installed, lastSet>>

\* /quit, or an interrupt of any command: the file stays as it is.
Interrupted(t) ==
    /\ command[t] # NoCommand /\ NowDoes(t, NoCommand)
    /\ lastSet' = IF Is(t, "write") /\ config.state = "empty" THEN [k \in SettingKeys |-> Unknown] ELSE lastSet
    /\ UNCHANGED <<config, override, installed, commandsGiven>>

RemoveModel ==
    /\ \E m \in installed : installed' = installed \ {m}
    /\ UNCHANGED <<config, override, command, lastSet, commandsGiven>>

NewCommand(t) ==
    \/ \E k \in SettingKeys : \E val \in Values[k] : SetConfigValue(t, k, val)
    \/ ResetConfig(t) \/ Wizard(t) \/ EditConfig(t)
    \/ \E flag, fromDB \in Models \cup {NoModel} : RunAgent(t, flag, fromDB)
    \/ \E m \in Models : PullCommand(t, m) \/ StartChat(t, m)

OwnStep(t) == EmptyFile(t) \/ WriteConfig(t)

CommandNext ==
    \/ \E t \in Terminals :
         \/ NewCommand(t) \/ WizardAnswers(t) \/ OwnStep(t) \/ EditorSaves(t)
         \/ CheckModel(t) \/ PullEnds(t) \/ Chat(t) \/ AnswerEnds(t)
         \/ PullFails(t) \/ Deadline(t) \/ Prompt(t) \/ Interrupted(t)
    \/ RemoveModel

CommandSpec == CommandInit /\ [][CommandNext]_commandVars

\* A process goes on, and deadlines pass; Ollama may never answer.
CommandFairness == \A t \in Terminals : WF_commandVars(OwnStep(t)) /\ WF_commandVars(Deadline(t))
FairCommandSpec == CommandSpec /\ CommandFairness

-----------------------------------------------------------------------------
KeepsSettings(some) ==
    config.state = "settings" => \A k \in some : lastSet[k] # Unknown => config.values[k] = lastSet[k]

\* The file keeps what was last asked for, of every setting, whichever command writes
\* it as a whole: unless another command has changed the file in between, or one was
\* interrupted in the middle of a write, and whatever the project overrides.
SettingsAreKept == CommandTypeOK /\ KeepsSettings(SettingKeys \ DOMAIN override)

\* Whoever waits for Ollama is answered or gives up.
WaitsEnd == \A t \in Terminals : Waiting(t) ~> ~Waiting(t)

\* config.go:158 "The project config (if present) overrides global settings.": what it
\* overrides stays out of the global file.
OverridesStayOut == KeepsSettings(DOMAIN override)
=============================================================================
