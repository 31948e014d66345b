--------------------------- MODULE MCFolderRouting ---------------------------
(* Two tasks of two owners, who each have a workspace for target acme, and   *)
(* three profiles.  The names of files and directories are chosen so that    *)
(* every way through the classifier is taken.                                *)
EXTENDS FolderRouting, TLC

CONSTANTS t1, t2

MCNames ==
  {"", "..", ".internal", "__MACOSX", ".DS_Store", "Acme", "acme", "ac", "AC", "beta",
   "12. beta", "misc", "bill.xlsx", "note-acme.txt", "data.csv", "pack.zip",
   "memo.txt", "x", "carrier.pdf", "hanzi.pdf"}

\* Exceptions of a function that is otherwise constant or the identity.
Apart(names, exceptions, otherwise) ==
  exceptions @@ [n \in names |-> otherwise]
MCLower == ("Acme" :> "acme" @@ "AC" :> "ac") @@ [n \in MCNames |-> n]
MCUnnumbered == ("12. beta" :> "beta") @@ [n \in MCNames |-> n]
MCExt == Apart(MCNames, "bill.xlsx" :> ".xlsx" @@ "note-acme.txt" :> ".txt"
                        @@ "data.csv" :> ".csv" @@ "pack.zip" :> ".zip"
                        @@ "memo.txt" :> ".txt" @@ "carrier.pdf" :> ".pdf"
                        @@ "hanzi.pdf" :> ".pdf", "")
MCScript == Apart(MCNames, "carrier.pdf" :> "gbk" @@ "hanzi.pdf" :> "wide", "plain")
MCRegarded == ("carrier.pdf" :> "hanzi.pdf") @@ [n \in MCNames |-> n]
MCSegment == Apart(MCNames, "note-acme.txt" :> "acme", "")
MCWordsIn == Apart(MCNames, "bill.xlsx" :> {"bill"}, {})
MCRatio == Apart(MCNames, "memo.txt" :> ("bill" :> 0 @@ "note" :> 60)
                          @@ "note-acme.txt" :> ("bill" :> 10 @@ "note" :> 80),
                 "bill" :> 0 @@ "note" :> 0)

Hq  == [tenant |-> "hq",  user |-> "u1", role |-> "hq_uploader"]
Hq2 == [tenant |-> "hq2", user |-> "u2", role |-> "hq_admin"]
SubA == [tenant |-> "sa", user |-> "u3", role |-> "subsidiary_viewer"]
SubB == [tenant |-> "sb", user |-> "u4", role |-> "subsidiary_admin"]
Blank == [tenant |-> "", user |-> "", role |-> ""]
MCRequests == {Hq2, SubA, SubB, Blank, [Hq EXCEPT !.user = ""], [SubB EXCEPT !.role = "guest"]}
MCCreator == t1 :> Hq @@ t2 :> Hq2

MCWorkspaces == {"w1", "w2", "w3"}
MCOwnerTenant == "w1" :> "hq" @@ "w2" :> "hq" @@ "w3" :> "hq2"
MCTargetTenant == "w1" :> "sa" @@ "w2" :> "sb" @@ "w3" :> "sb"
MCTargetKey == "w1" :> "acme" @@ "w2" :> "12. beta" @@ "w3" :> "acme"

\* By directory; a type of the fallback has no category.
ByDirectory ==
  [targets |-> <<[key |-> "acme", aliases |-> {"AC"}],
                 [key |-> "12. beta", stripNumberPrefix |-> TRUE]>>,
   documentTypes |-> "bills" :> "orders" @@ "packs" :> "assessments" @@ "notes" :> "..",
   suffixPriority |-> ".zip" :> "packs",
   descriptionMapping |-> <<[word |-> "bill", type |-> "bills"], [word |-> "note", type |-> "notes"]>>,
   suffixFallback |-> ".csv" :> "unknown_csv" @@ ".pdf" :> "bills",
   ignoredFilenames |-> {".DS_Store"}, ignoredPrefixes |-> {<<"__MACOSX">>}]
\* All for one target, under the file name alone.
Broadcast ==
  [documentTypes |-> "bills" :> "orders", suffixFallback |-> ".xlsx" :> "bills" @@ ".txt" :> "bills",
   pathTemplate |-> <<"filename">>, strategy |-> "broadcast", broadcastTarget |-> "acme"]
\* An alias that is the key of a later target, and a threshold of zero.
Overlapping ==
  [targets |-> <<[key |-> "acme", aliases |-> {"beta"}], [key |-> "beta"]>>,
   documentTypes |-> "notes" :> "notices", fuzzyThreshold |-> 0,
   descriptionMapping |-> <<[word |-> "note", type |-> "notes"]>>,
   suffixFallback |-> ".csv" :> "notes"]
MCProfiles == {ByDirectory, Broadcast, Overlapping}

MCFolders ==
  t1 :> { <<<<"acme", "bill.xlsx">>, <<"ac", "", "bill.xlsx">>>>,
          <<<<"Acme", "bill.xlsx">>, <<"beta", "bill.xlsx">>>>,
          <<<<"", "acme", "carrier.pdf">>, <<".DS_Store">>>>,
          <<<<"misc", "bill.xlsx">>>>,
          <<<<"note-acme.txt">>, <<"beta", "data.csv">>>>,
          <<<<"acme", "pack.zip">>, <<"acme", "memo.txt">>>>,
          <<<<"acme", "bill.xlsx">>, <<"acme", "", "bill.xlsx">>>>,
          <<<<"acme", "..", "bill.xlsx">>>>,
          <<<<".internal", "bill.xlsx">>>>,
          <<>>,
          <<<<".DS_Store">>>>,
          <<<<"acme", "bill.xlsx">>, <<"beta", "bill.xlsx">>, <<"misc", "bill.xlsx">>>>,
          <<<<"__MACOSX", "bill.xlsx">>, <<"acme", "memo.txt">>>> }
  @@ t2 :> { <<<<"acme", "bill.xlsx">>>>,
             <<<<"Acme", "pack.zip">>, <<"memo.txt">>>>,
             <<<<"acme", "memo.txt">>, <<"acme", "x", "memo.txt">>>> }
=============================================================================
