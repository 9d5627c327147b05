------------------------- MODULE MC_HostCallTestSuite -------------------------
(* The tests of host_call_test_2.cc that touch test_file.tmp, in the order *)
(* they are declared, and what each does to the file.                      *)
EXTENDS HostCallTestSuite

MCDecl == <<"TestTruncate", "TestFTruncate", "TestFcntl", "TestChown",
            "TestFChown", "TestFlock", "TestFsync", "TestInotifyAddWatch",
            "TestInotifyRmWatch", "TestIsAtty">>

MCKind == [t \in {MCDecl[i] : i \in DOMAIN MCDecl} |->
             CASE t = "TestInotifyAddWatch" -> "add_watch"
               [] t = "TestInotifyRmWatch"  -> "rm_watch"
               [] OTHER                     -> "creates"]

(* The declaration above follows the discipline the suite's proof assumes. *)
ASSUME DeclaredOrderOfSuite == DeclaredOrder
=============================================================================
