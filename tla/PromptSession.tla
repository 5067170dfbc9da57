---------------------------- MODULE PromptSession ----------------------------
(***************************************************************************************)
(* A session with the connector: run_interactive_openconnect of the Linux and          *)
(* Windows services, and run_start_child with its StartPromptDriver of the macOS       *)
(* service, whose child is the privileged helper.  A task reads the two output         *)
(* pipes of its child, finds the prompts in them, answers each on the standard input   *)
(* of the child, and ends it when it is told to stop.                                  *)
(*                                                                                     *)
(* A read ends anywhere in what was written, and what comes from one pipe may be cut   *)
(* by what comes from the other.  So output is a sequence of pieces: the two halves of *)
(* a line, the second with its newline, and the two halves of a prompt and the blank   *)
(* after it.  The child writes no prompt but the one it waits at.  The pumps and their *)
(* bounded channel only decide how far a read goes, and are left out; so is the time.  *)
(***************************************************************************************)
EXTENDS Integers, Sequences, SequencesExt

CONSTANTS
  MaxSaid,     (* bound on the lines and prompts of the child                          *)
  MaxPrompts   (* the answers a session may give: max_prompt_responses, macOS           *)

ASSUME PromptAssumption == MaxSaid \in Nat /\ MaxPrompts \in Nat \ {0}

VARIABLES
  platform,
  at,         (* where the task is                                                *)
  due,        (* the prompt it is answering, or "none"                               *)
  stop,       (* it was told to stop                                              *)
  heard,      (* per detector, what came since the last newline                        *)
  prompts,    (* the answers given (macOS)                                         *)
  reported,   (* the events sent (macOS), in order                                   *)
  forced,     (* it has killed its child after the time for a graceful end was over     *)
  connector,  (* the child: "starting", "talking", "asking", or "gone"                  *)
  asked,      (* what it asked for last                                            *)
  pipe,       (* per output, what was written and not read                            *)
  stdin,      (* the answers it has not read                                       *)
  helpers,    (* scripts the child has started are running                            *)
  said

childVars == <<connector, asked, helpers, said>>
vars == <<platform, at, due, stop, heard, prompts, reported, forced, childVars, pipe, stdin>>

Sources == {"out", "err"}
Prompts == {"username", "password", "challenge"}
Events == {"hip", "up"}
Lines == {"log", "long"} \union Events    \* "long": more than 512 bytes
Halves(of) == <<[of |-> of, part |-> 1], [of |-> of, part |-> 2]>>
Blank == [of |-> "blank", part |-> 1]

-----------------------------------------------------------------------------
(* What the task makes of the output.                                           *)

EndsLine(piece) == piece.of \in Lines /\ piece.part = 2
SinceNewline(pieces) ==
  SubSeq(pieces, SelectLastInSeq(pieces, EndsLine) + 1, Len(pieces))

\* The prompt that the text ends with, blanks aside.
PromptIn(pieces) ==
  LET n == SelectLastInSeq(pieces, LAMBDA p : p # Blank)
  IN  IF n > 1 /\ pieces[n].of \in Prompts
         /\ SubSeq(pieces, n - 1, n) = Halves(pieces[n].of)
      THEN pieces[n].of ELSE "none"

Defect_OneDetector(source) == "out"

\* One detector for each output on Linux and Windows, one for both on macOS.
Detector(source) == IF platform = "macos" THEN "out" ELSE source

Take(source, n) == pipe' = [pipe EXCEPT ![source] = SubSeq(@, n + 1, Len(@))]
Text(source, n) == heard[Detector(source)] \o SubSeq(pipe[source], 1, n)
Hear(source, pieces) == heard' = [heard EXCEPT ![Detector(source)] = pieces]

\* A challenge needs a code, which may take until the next step of the clock.
Answering(prompt) == due' = prompt /\ at' = IF prompt = "challenge" THEN "code" ELSE "answer"

Defect_TailKept(source, n) ==
  /\ platform # "macos" /\ at = "loop" /\ n \in 1 .. Len(pipe[source])
  /\ Take(source, n)
  /\ LET text == SinceNewline(Text(source, n)) IN
       /\ Hear(source, text)
       /\ IF PromptIn(text) = "none" THEN UNCHANGED <<at, due>> ELSE Answering(PromptIn(text))
  /\ UNCHANGED <<platform, stop, prompts, reported, forced, childVars, stdin>>

\* PromptDetector::feed and the branch of the output: it looks at the end of a chunk.
FeedChunk(source, n) ==
  /\ platform # "macos" /\ at = "loop" /\ n \in 1 .. Len(pipe[source])
  /\ Take(source, n)
  /\ LET text == SinceNewline(Text(source, n)) IN
       IF PromptIn(text) = "none" THEN Hear(source, text) /\ UNCHANGED <<at, due>>
       ELSE Hear(source, <<>>) /\ Answering(PromptIn(text))
  /\ UNCHANGED <<platform, stop, prompts, reported, forced, childVars, stdin>>

Report(event) ==
  reported' = IF Contains(reported, event) THEN reported ELSE Append(reported, event)

\* A line that is over, blanks before it aside.  What the connector says of the report of the
\* host may stand anywhere in it; what the wrapper says of the tunnel is the whole line, and
\* cut by other output it is nothing, or an invalid response.
LineRead(text) ==
  LET line == SubSeq(text, SelectInSeq(text, LAMBDA p : p # Blank), Len(text))
      tunnel == line = Halves("up")
      report == IsSuffix(Halves("hip"), line)
  IN  \/ report /\ Report("hip") /\ UNCHANGED at
      \/ tunnel /\ Report("up") /\ UNCHANGED at
      \/ ~report /\ ~tunnel /\ UNCHANGED <<at, reported>>
      \/ /\ Head(line) = Halves("up")[1] /\ ~tunnel /\ ~Contains(reported, "up")
         /\ at' = "failed" /\ UNCHANGED reported

\* StartPromptDriver::feed_output, which goes byte by byte.
FeedBytes(source) ==
  /\ platform = "macos" /\ at = "loop" /\ pipe[source] # <<>>
  /\ Take(source, 1)
  /\ LET text == Text(source, 1)
         prompt == PromptIn(text) IN
       CASE Head(pipe[source]) = Halves("long")[2] ->
              at' = "failed" /\ UNCHANGED <<due, heard, prompts, reported>>
         [] prompt # "none" ->
              /\ IF prompts >= MaxPrompts THEN at' = "failed" /\ UNCHANGED <<due, prompts>>
                 ELSE Answering(prompt) /\ prompts' = prompts + 1
              /\ Hear(source, <<>>) /\ UNCHANGED reported
         [] OTHER ->
              /\ IF EndsLine(Last(text)) THEN LineRead(text) ELSE UNCHANGED <<at, reported>>
              /\ Hear(source, SinceNewline(text)) /\ UNCHANGED <<due, prompts>>
  /\ UNCHANGED <<platform, stop, forced, childVars, stdin>>

-----------------------------------------------------------------------------
(* The rest of the task.                                                      *)

otherVars == <<platform, stop, heard, prompts, reported, said, pipe>>

\* The child is started; the credentials of the first form do not wait for a prompt.
WriteFirst ==
  /\ at = "first"
  /\ IF connector = "gone" THEN at' = "failed" /\ UNCHANGED stdin
     ELSE at' = "loop" /\ stdin' = <<"password">>
  /\ UNCHANGED <<otherVars, due, forced, connector, asked, helpers>>

\* next_code and next_totp: one that was used already is waited out.
NextCode ==
  /\ at = "code" /\ at' \in {"answer", "failed"}
  /\ UNCHANGED <<otherVars, due, forced, connector, asked, helpers, stdin>>

\* write_line and write_secret_line.  Nobody reads any more when the child is gone, unless
\* a script has inherited its input.
WriteAnswer ==
  /\ at = "answer" /\ due' = "none"
  /\ \/ connector = "gone" /\ at' = "failed" /\ UNCHANGED stdin
     \/ (connector # "gone" \/ helpers) /\ at' = "loop" /\ stdin' = Append(stdin, due)
  /\ UNCHANGED <<otherVars, forced, connector, asked, helpers>>

Defect_JobKept == at' = "over" /\ UNCHANGED helpers

\* The function returns: on Windows the job is closed, which ends all that is in it.
Return == at' = "over" /\ helpers' = (helpers /\ platform # "windows")

\* The status of the child is seen: in the loop, where the function answers that the child has
\* exited, or in the cleanup that a stop or an error began, where it answers what became of
\* that.  Which of the two is the business of the caller (MacService).
NoticeExit ==
  /\ at \in {"loop", "terminating"} /\ connector = "gone"
  /\ Return
  /\ UNCHANGED <<otherVars, due, forced, connector, asked, stdin>>

\* An error on Linux and Windows drops the child, which kills it; on macOS it is ended as if
\* it was to stop.
Fail ==
  /\ at = "failed"
  /\ IF platform = "macos" THEN at' = "terminating" /\ UNCHANGED <<connector, helpers>>
     ELSE connector' = "gone" /\ Return
  /\ UNCHANGED <<otherVars, due, forced, asked, stdin>>

\* terminate_group, graceful_signal_child, or request_graceful_termination, which may not
\* get through.
NoticeStop ==
  /\ at = "loop" /\ stop /\ at' = "terminating"
  /\ \/ UNCHANGED <<connector, helpers>>
     \/ platform = "windows" /\ connector' = "gone" /\ helpers' = FALSE
  /\ UNCHANGED <<otherVars, due, forced, asked, stdin>>

Defect_SignalAgain ==
  /\ at = "terminating" /\ connector # "gone" /\ ~forced /\ forced' = TRUE
  /\ UNCHANGED <<otherVars, at, due, asked, stdin, connector, helpers>>

\* The time for a graceful end is over: SIGKILL of the process group, the job, or the child.
ForceEnd ==
  /\ at = "terminating" /\ connector # "gone" /\ forced' = TRUE
  /\ connector' = "gone" /\ helpers' = (helpers /\ platform = "macos")
  /\ UNCHANGED <<otherVars, at, due, asked, stdin>>

-----------------------------------------------------------------------------
(* The child, and whoever stops the session.                                     *)

taskVars == <<platform, at, due, heard, prompts, reported, forced>>

ReadFirst ==
  /\ connector = "starting" /\ stdin # <<>>
  /\ connector' = "talking" /\ stdin' = Tail(stdin)
  /\ UNCHANGED <<taskVars, stop, asked, helpers, said, pipe>>

Say(line, source) ==
  /\ connector = "talking" /\ said < MaxSaid /\ said' = said + 1
  /\ line \in Events => source = "out"
  /\ pipe' = [pipe EXCEPT ![source] = @ \o Halves(line)]
  /\ UNCHANGED <<taskVars, stop, connector, asked, helpers, stdin>>

\* The helper of macOS names the user itself.
Ask(prompt) ==
  /\ connector = "talking" /\ said < MaxSaid /\ said' = said + 1
  /\ platform = "macos" => prompt # "username"
  /\ connector' = "asking" /\ asked' = prompt
  /\ pipe' = [pipe EXCEPT !["err"] = @ \o Halves(prompt) \o <<Blank>>]
  /\ UNCHANGED <<taskVars, stop, helpers, stdin>>

TakeAnswer ==
  /\ connector = "asking" /\ stdin # <<>>
  /\ connector' = "talking" /\ stdin' = Tail(stdin)
  /\ UNCHANGED <<taskVars, stop, asked, helpers, said, pipe>>

\* The scripts for the network and for the report of the host.
RunHelpers ==
  /\ connector = "talking" /\ ~helpers /\ helpers' = TRUE
  /\ UNCHANGED <<taskVars, stop, connector, asked, said, pipe, stdin>>

HelpersEnd ==
  /\ helpers /\ helpers' = FALSE
  /\ UNCHANGED <<taskVars, stop, connector, asked, said, pipe, stdin>>

\* By itself, or because it was told to.
Exit ==
  /\ connector # "gone" /\ connector' = "gone"
  /\ UNCHANGED <<taskVars, stop, asked, helpers, said, pipe, stdin>>

Stop ==
  /\ at # "over" /\ ~stop /\ stop' = TRUE
  /\ UNCHANGED <<taskVars, childVars, pipe, stdin>>

\* The service on macOS gives a session a time to report both events.
Deadline ==
  /\ platform = "macos" /\ at # "over" /\ Len(reported) < 2 /\ stop' = TRUE
  /\ UNCHANGED <<taskVars, childVars, pipe, stdin>>

-----------------------------------------------------------------------------
Init ==
  /\ platform \in {"linux", "windows", "macos"}
  /\ at = "first" /\ due = "none" /\ stop = FALSE /\ forced = FALSE
  /\ heard = [s \in Sources |-> <<>>] /\ prompts = 0 /\ reported = <<>>
  /\ connector = "starting" /\ asked = "none" /\ helpers = FALSE /\ said = 0
  /\ pipe = [s \in Sources |-> <<>>] /\ stdin = <<>>

Receive(source) == FeedBytes(source) \/ \E n \in 1 .. Len(pipe[source]) : FeedChunk(source, n)

Task ==
  \/ WriteFirst \/ NextCode \/ WriteAnswer
  \/ NoticeExit \/ Fail \/ ForceEnd

Next ==
  \/ Task \/ NoticeStop \/ \E source \in Sources : Receive(source)
  \/ ReadFirst \/ TakeAnswer \/ RunHelpers \/ HelpersEnd \/ Exit
  \/ \E line \in Lines, source \in Sources : Say(line, source)
  \/ \E prompt \in Prompts : Ask(prompt)
  \/ Stop \/ Deadline

\* The task goes on, select! leaves none of its branches out, time passes, and a child that
\* waits for an answer reads it.
Fairness ==
  /\ WF_vars(Task) /\ SF_vars(NoticeStop) /\ \A s \in Sources : SF_vars(Receive(s))
  /\ WF_vars(ReadFirst) /\ WF_vars(TakeAnswer) /\ WF_vars(Deadline)

Spec == Init /\ [][Next]_vars
FairSpec == Spec /\ Fairness

-----------------------------------------------------------------------------
(* Properties.                                                               *)

PromptTypeOK ==
  /\ platform \in {"linux", "windows", "macos"}
  /\ at \in {"first", "loop", "code", "answer", "failed", "terminating", "over"}
  /\ due \in Prompts \union {"none"} /\ asked \in Prompts \union {"none"}
  /\ {stop, forced, helpers} \subseteq BOOLEAN
  /\ prompts \in 0 .. MaxPrompts /\ Range(reported) \subseteq Events
  /\ connector \in {"starting", "talking", "asking", "gone"}
  /\ said \in 0 .. MaxSaid

\* However the output is cut, an answer is given for each prompt and only then, so that what
\* the child reads is what it asked for, and no code is used up for nothing.
AnswersFit ==
  connector # "gone" =>
    /\ due # "none" => connector = "asking" /\ asked = due /\ stdin = <<>>
    /\ stdin # <<>> => \/ connector = "starting" /\ stdin = <<"password">>
                       \/ connector = "asking" /\ stdin = <<asked>>

\* Each event is sent once, however often the wrapper and the connector say it.
ReportedOnce == IsInjective(reported)

\* When the function returns its child is gone; so are the scripts it had started, on Windows
\* in any case and on Linux when the group was killed.
TreeIsGone ==
  at = "over" =>
    /\ connector = "gone"
    /\ helpers => platform # "windows" /\ (forced => platform = "macos")

\* A session that was told to stop ends, also one that waits for a code meanwhile.
StopEnds == stop ~> at = "over"

\* A child that asks is answered, or ended; not so on macOS, where output of the other pipe
\* may hide the prompt, once both events were reported and no deadline is left.
PromptAnswered ==
  connector = "asking" ~>
    connector # "asking" \/ (platform = "macos" /\ Range(reported) = Events)

\* Neither the child, nor the service, nor the one who ordered the stop waits for ever.
SessionGoesOn == StopEnds /\ PromptAnswered

\* Each prompt has one answer and each event one report.
AnswersSound == PromptTypeOK /\ AnswersFit /\ ReportedOnce

=============================================================================
