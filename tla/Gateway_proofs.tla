---------------------------- MODULE Gateway_proofs ----------------------------
(* The title CCodex writes gives way to a name the user gives meanwhile, for *)
(* any number of names.                                                      *)
(*                                                                           *)
(* Until the generator has its answer no title is anywhere; once the user    *)
(* has named the chat, Titles.generating no longer holds it, nothing puts it *)
(* back, and the one place that sends the title out asks for it.             *)
EXTENDS MCGateway, Requests_proofs

TurnFrames == {"started", "refused", "item", "completed", "failed"}
RenameStages == {"sent", "looking", "writing"}
Renames(names) == [name : names, stage : RenameStages]

\* Names only these, wherever the chat's name is or is on its way to.
NamedBy(names) == name \in names /\ pendingName \in names /\ renaming \in Seq(Renames(names))
NoTitle == NamedBy(Names \ {"title"})

TitlesInv ==
    /\ TitlesTypeOK
    /\ fresh => writer = "idle"
    /\ writer \in Writing \cup {"idle"} \/ yielded => NoTitle
    /\ yielded => ~generating /\ writer # "idle"

LEMMA TitlesStart == TitlesInit => TitlesInv
<1> SUFFICES ASSUME TitlesInit PROVE TitlesInv
  OBVIOUS
<1>1. renaming = <<>> /\ frames = <<>> /\ given = 0 /\ 0 \in 0 .. MaxNames
  BY TitlesAssumption DEF TitlesInit
<1>2. TitlesTypeOK
  BY <1>1, EmptySeq DEF TitlesInit, TitlesTypeOK, Names
<1>3. NoTitle
  BY <1>1, EmptySeq DEF TitlesInit, NoTitle, NamedBy, Names
<1> QED  BY <1>2, <1>3 DEF TitlesInit, TitlesInv

LEMMA WithoutIsSeq ==
  ASSUME NEW S, NEW q \in Seq(S), NEW i \in DOMAIN q PROVE Without(q, i) \in Seq(S)
<1>1. i \in 1 .. Len(q) /\ Len(q) \in Nat
  BY LenProperties
<1>2. SubSeq(q, 1, i - 1) \in Seq(S)
  BY <1>1, SubSeqProperties, ElementOfSeq
<1>3. SubSeq(q, i + 1, Len(q)) \in Seq(S)
  BY <1>1, SubSeqProperties, ElementOfSeq
<1> QED  BY <1>2, <1>3, ConcatProperties DEF Without

LEMMA RenamedIsSeq ==
  ASSUME NEW names, NEW q \in Seq(Renames(names)), NEW n \in names
  PROVE Renamed(q, n) \in Seq(Renames(names))
<1>1. [name |-> n, stage |-> CASE owner = "stock" -> "sent" [] summarized -> "writing" [] OTHER -> "looking"]
        \in Renames(names)
  BY DEF Renames, RenameStages
<1> QED  BY <1>1, AppendProperties DEF Renamed

\* What the owner does with the names it is told makes no name of its own.
LEMMA OwnerNames ==
  ASSUME NEW names \in {Names, Names \ {"title"}}, NamedBy(names), OwnerStep
  PROVE NamedBy(names)'
<1>1. ASSUME NEW i \in DOMAIN renaming, StockRenames(i) \/ LookedUp(i) \/ ClaudeRenames(i) PROVE NamedBy(names)'
  <2>1. /\ renaming \in Seq(Renames(names)) /\ renaming[i] \in Renames(names) /\ renaming[i].name \in names
        /\ Without(renaming, i) \in Seq(Renames(names)) /\ i \in 1 .. Len(renaming)
    <3>1. renaming \in Seq(Renames(names)) /\ i \in 1 .. Len(renaming)
      BY LenProperties DEF NamedBy
    <3>2. renaming[i] \in Renames(names) /\ Without(renaming, i) \in Seq(Renames(names))
      BY <3>1, WithoutIsSeq, ElementOfSeq
    <3> QED  BY <3>1, <3>2 DEF Renames
  <2>2. [renaming EXCEPT ![i].stage = "writing"] \in Seq(Renames(names))
    <3>1. [renaming[i] EXCEPT !.stage = "writing"] \in Renames(names)
      BY <2>1 DEF Renames, RenameStages
    <3> QED  BY <2>1, <3>1, ExceptSeq
  <2> QED  BY <1>1, <2>1, <2>2 DEF StockRenames, LookedUp, ClaudeRenames, NamedBy, Names
<1>2. ASSUME GivePendingName PROVE NamedBy(names)'
  BY <1>2, RenamedIsSeq DEF GivePendingName, NamedBy, Names
<1> QED  BY <1>1, <1>2 DEF OwnerStep

LEMMA NamesTyped == ASSUME TitlesTypeOK PROVE NamedBy(Names)
BY DEF TitlesTypeOK, NamedBy, Renames, RenameStages

LEMMA OwnerKeeps == ASSUME TitlesInv, OwnerStep PROVE TitlesInv'
<1>1. /\ UNCHANGED <<owner, fresh, prompt, generating, writer, turnVars, summarized, given, yielded>>
      /\ NamedBy(Names)' /\ (NoTitle => NoTitle')
  BY OwnerNames, NamesTyped DEF TitlesInv, NoTitle, OwnerStep, StockRenames, LookedUp, ClaudeRenames, GivePendingName
<1> QED  BY <1>1 DEF TitlesInv, TitlesTypeOK, NamedBy, Renames, RenameStages, turnVars

\* The steps of the generator and of its internal turn.
LEMMA FramesKept ==
  ASSUME TitlesInv, NEW frame \in TurnFrames
  PROVE Append(frames, frame) \in Seq(TurnFrames) /\ (frames # <<>> => Tail(frames) \in Seq(TurnFrames))
BY HeadTailProperties, AppendProperties DEF TitlesInv, TitlesTypeOK, TurnFrames

LEMMA TurnKeeps ==
  ASSUME TitlesInv,
         \/ InternalFrame \/ InternalTimeout \/ TitleSet
         \/ \E yes \in BOOLEAN : OpenThread(yes) \/ StockStarts(yes)
         \/ \E frame \in {"item", "completed", "failed"} : StockRuns(frame)
  PROVE TitlesInv'
<1>1. UNCHANGED <<owner, fresh, prompt, nameVars, given, yielded>>
  BY DEF InternalFrame, InternalTimeout, OpenThread, StockStarts, StockRuns, TitleSet
<1>2. frames' \in Seq(TurnFrames)
  BY FramesKept DEF InternalFrame, InternalTimeout, OpenThread, StockStarts, StockRuns, TitleSet, TurnFrames,
                    TitlesInv, TitlesTypeOK, turnVars
<1>3. /\ writer' \in Writing \cup {"over"} \/ writer' = writer
      /\ writer' \in Writing => writer \in Writing
      /\ writer = "idle" => writer' = "idle"
      /\ generating' \in BOOLEAN /\ (generating' => generating)
      /\ internal' \in {"none", "empty", "text", internal} /\ stockTurn' \in {"none", "asked", "runs", "over", stockTurn}
  BY DEF InternalFrame, InternalTimeout, OpenThread, StockStarts, StockRuns, TitleSet, TurnDone, TurnFailed,
         TurnTimesOut, WriterEnds, Writing, turnVars, TitlesInv, TitlesTypeOK
<1>4. TitlesTypeOK'
  BY <1>1, <1>2, <1>3 DEF TitlesInv, TitlesTypeOK, nameVars, TurnFrames, Writing
<1>5. NoTitle => NoTitle'
  BY <1>1 DEF NoTitle, NamedBy, nameVars
<1>6. (writer \in Writing \cup {"idle"})' => writer \in Writing \cup {"idle"}
  BY <1>3 DEF Writing
<1> QED
  BY <1>1, <1>3, <1>4, <1>5, <1>6 DEF TitlesInv, Writing

LEMMA SetTitleKeeps == ASSUME TitlesInv, SetTitle PROVE TitlesInv'
<1>1. /\ UNCHANGED <<owner, fresh, prompt, frames, stockTurn, pendingName, summarized, name, given, yielded>>
      /\ internal' = "none" /\ writer = "answered"
  BY DEF SetTitle
<1>2. CASE internal # "empty" /\ generating
  <2>1. writer' = "naming" /\ renaming' = Renamed(renaming, "title") /\ generating' = generating /\ ~yielded
    BY <1>2 DEF SetTitle, TitlesInv
  <2>2. renaming' \in Seq(Renames(Names))
    BY <2>1, RenamedIsSeq, NamesTyped DEF TitlesInv, NamedBy, Names
  <2> QED  BY <1>1, <2>1, <2>2 DEF TitlesInv, TitlesTypeOK, Renames, RenameStages, Writing
<1>3. CASE ~(internal # "empty" /\ generating)
  <2>1. writer' = "over" /\ generating' = FALSE /\ renaming' = renaming
    BY <1>3 DEF SetTitle, WriterEnds
  <2>2. TitlesTypeOK'
    BY <1>1, <2>1 DEF TitlesInv, TitlesTypeOK
  <2>3. NoTitle => NoTitle'
    BY <1>1, <2>1 DEF NoTitle, NamedBy
  <2> QED  BY <1>1, <2>1, <2>2, <2>3 DEF TitlesInv, Writing
<1> QED  BY <1>2, <1>3

LEMMA NameSetKeeps == ASSUME TitlesInv, NEW n \in {"prefix", "user"}, NameSet(n) PROVE TitlesInv'
<1>1. /\ UNCHANGED <<owner, fresh, prompt, writer, turnVars, pendingName, summarized, name>>
      /\ given' \in 0 .. MaxNames
  BY TitlesAssumption DEF NameSet, TitlesInv, TitlesTypeOK
<1>2. CASE UNCHANGED <<generating, renaming, yielded>>
  BY <1>1, <1>2 DEF TitlesInv, TitlesTypeOK, NoTitle, NamedBy, turnVars
<1>3. CASE generating' = FALSE /\ renaming' = Renamed(renaming, n) /\ yielded' = (yielded \/ writer \in Writing)
  <2>1. renaming' \in Seq(Renames(Names))
    BY <1>3, RenamedIsSeq, NamesTyped DEF TitlesInv, NamedBy, Names
  <2>2. NoTitle => NoTitle'
    BY <1>1, <1>3, RenamedIsSeq DEF NoTitle, NamedBy, Names
  <2> QED  BY <1>1, <1>3, <2>1, <2>2 DEF TitlesInv, TitlesTypeOK, Renames, RenameStages, Writing, turnVars
<1> QED  BY <1>2, <1>3 DEF NameSet

LEMMA ChatStepsKeep ==
  ASSUME TitlesInv, ForgetFresh \/ Summarize \/ \E yes \in BOOLEAN : FirstTurn(yes) PROVE TitlesInv'
<1>1. /\ UNCHANGED <<owner, turnVars, renaming, pendingName, name, given, yielded>>
      /\ fresh' \in BOOLEAN /\ prompt' \in BOOLEAN /\ summarized' \in BOOLEAN /\ (fresh' => fresh)
      /\ \/ UNCHANGED <<generating, writer>>
         \/ fresh /\ ~fresh' /\ generating' = TRUE /\ writer' = "opening"
  <2> USE DEF nameVars, TitlesInv, TitlesTypeOK
  <2>1. CASE ForgetFresh
    BY <2>1 DEF ForgetFresh
  <2>2. CASE Summarize
    BY <2>2 DEF Summarize
  <2>3. ASSUME NEW yes \in BOOLEAN, FirstTurn(yes)
        PROVE /\ UNCHANGED <<owner, turnVars, renaming, pendingName, name, given, yielded, summarized>>
              /\ fresh /\ ~fresh' /\ fresh' \in BOOLEAN /\ prompt' \in BOOLEAN
              /\ UNCHANGED <<generating, writer>> \/ (generating' = TRUE /\ writer' = "opening")
    BY <2>3 DEF FirstTurn
  <2> QED  BY <2>1, <2>2, <2>3
<1>2. TitlesTypeOK'
  <2>1. owner' \in {"stock", "claude"} /\ internal' = internal /\ frames' = frames /\ stockTurn' = stockTurn
        /\ generating' \in BOOLEAN /\ writer' \in Writing \cup {"idle", "naming", "over"}
    BY <1>1 DEF TitlesInv, TitlesTypeOK, turnVars, Writing
  <2> QED  BY <1>1, <2>1 DEF TitlesInv, TitlesTypeOK
<1>3. NoTitle => NoTitle'
  BY <1>1 DEF NoTitle, NamedBy
<1> QED  BY <1>1, <1>2, <1>3 DEF TitlesInv, Writing

LEMMA TitlesStepKeeps == ASSUME TitlesInv, [TitlesNext]_titlesVars PROVE TitlesInv'
<1>1. ASSUME UNCHANGED titlesVars PROVE TitlesInv'
  BY <1>1 DEF titlesVars, TitlesInv, TitlesTypeOK, NoTitle, NamedBy
<1> QED
  BY <1>1, OwnerKeeps, TurnKeeps, SetTitleKeeps, NameSetKeeps, ChatStepsKeep DEF TitlesNext

LEMMA NoTitleIsNone ==
  ASSUME NoTitle
  PROVE name # "title" /\ pendingName # "title" /\ \A i \in DOMAIN renaming : renaming[i].name # "title"
<1>1. ASSUME NEW i \in DOMAIN renaming PROVE renaming[i] \in Renames(Names \ {"title"})
  BY LenProperties, ElementOfSeq DEF NoTitle, NamedBy
<1> QED  BY <1>1 DEF NoTitle, NamedBy, Renames

\* A name the user gives while the title is written (Titles.nameSet, generate)
\* is not lost to it, however often the chat is named and in whatever order
\* its owner is told.
THEOREM UserNameStays == TitlesSpec => []TitleGivesWay
<1>1. TitlesInv => TitleGivesWay
  BY NoTitleIsNone DEF TitlesInv, TitleGivesWay
<1>2. TitlesInv /\ [TitlesNext]_titlesVars => TitlesInv'
  BY TitlesStepKeeps
<1> QED  BY TitlesStart, <1>1, <1>2, PTL DEF TitlesSpec

-----------------------------------------------------------------------------
(* Both parts of the gateway together *)

LEMMA GatewayParts ==
  ASSUME [GatewayNext]_GatewayVars PROVE [RequestsNext]_requestsVars /\ [TitlesNext]_titlesVars
BY DEF GatewayNext, GatewayVars

\* The gateway's state keeps its types, of its clients' requests and of the
\* titles it writes, whichever of the two goes on.
THEOREM GatewayTypeCorrect == GatewaySpec => []GatewayTypeOK
<1>1. GatewayInit => Typed /\ TitlesInv
  BY StartTyped, TitlesStart DEF GatewayInit
<1>2. Typed /\ TitlesInv /\ [GatewayNext]_GatewayVars => Typed' /\ TitlesInv'
  BY GatewayParts, StepTyped, TitlesStepKeeps
<1>3. Typed /\ TitlesInv => GatewayTypeOK
  BY TypedIsTyped DEF GatewayTypeOK, TitlesInv
<1> QED  BY <1>1, <1>2, <1>3, PTL DEF GatewaySpec
=============================================================================
