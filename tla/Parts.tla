------------------------------- MODULE Parts -------------------------------
(***************************************************************************)
(* Parts of the application that share no state: the chats and the         *)
(* previews of a tab (ChatPage, PreviewPage; the routes of App.tsx show    *)
(* one of them at a time), the model settings (RagConfig), question        *)
(* generation (QuestionTask), the chunks of a document (Chunking) and the  *)
(* questions of a paper (PaperPick).  Steps of different parts commute, so *)
(* a behaviour here is a behaviour of one part, and the states of this     *)
(* module are the sum of theirs, not the product.                          *)
(***************************************************************************)
EXTENDS ChatPage, PreviewPage, RagConfig, QuestionTask, Chunking, PaperPick

VARIABLE part   \* the part that runs

chatOnly    == <<chat, stored, loadedRef, timer, arriving, asks, asked, clock>>
previewOnly == <<preview, taskFetches, gradings, completions, recorded, completed, mixed, crossed>>

PartsInit ==
    /\ part \in {"chat", "preview", "rag", "question", "chunk", "paper"}
    /\ ChatInit /\ PreviewInit /\ RagInit /\ QuestionInit /\ ChunkInit /\ PaperInit

tabOnly   == <<tabVars, chatOnly, previewOnly>>
textOnly  == <<chunkVars, paperVars>>
modelOnly == <<ragVars, genVars>>

PartsNext ==
    /\ UNCHANGED part
    /\ \/ part = "chat" /\ ChatNext /\ UNCHANGED <<previewOnly, modelOnly, textOnly>>
       \/ part = "preview" /\ PreviewNext /\ UNCHANGED <<chatOnly, modelOnly, textOnly>>
       \/ part = "rag" /\ RagNext /\ UNCHANGED <<tabOnly, genVars, textOnly>>
       \/ part = "question" /\ QuestionNext /\ UNCHANGED <<tabOnly, ragVars, textOnly>>
       \/ part = "chunk" /\ ChunkNext /\ UNCHANGED <<tabOnly, modelOnly, paperVars>>
       \/ part = "paper" /\ PaperNext /\ UNCHANGED <<tabOnly, modelOnly, chunkVars>>

PartsSpec == PartsInit /\ [][PartsNext]_<<part, tabOnly, modelOnly, textOnly>>

----------------------------------------------------------------------------
(* Properties; the others are those of the parts *)

PartsTypeOK ==
    ChatTypeOK /\ PreviewTypeOK /\ RagTypeOK /\ QuestionTypeOK /\ ChunkTypeOK /\ PaperTypeOK
=============================================================================
