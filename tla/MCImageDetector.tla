-------------------------- MODULE MCImageDetector --------------------------
(***************************************************************************)
(* A Kali installer and a file whose name says nothing; what is in them is *)
(* one of Ubuntu's two images, which libosinfo cannot tell apart, or Kali, *)
(* which has no patterns but those of the name. Two scanners.              *)
(***************************************************************************)
EXTENDS ImageDetector

MCScanner == {"machine", "detector"}

MCFile == {"kali-installer", "renamed"}

MCImage == {"kali", "server", "desktop"}

MCContent == {"kali", "server"}

MCNameMatch ==
  [f \in MCFile |-> IF f = "kali-installer" THEN {"kali"} ELSE {}]

MCLabelMatch == [c \in MCContent |-> {c} \ {"kali"}]

MCHintMatch ==
  [c \in MCContent |-> IF c = "kali" THEN {} ELSE {"server", "desktop"}]

MCMedia ==
  [i \in MCImage |->
     [f \in MCFile |->
        IF i # "kali" THEN i
        ELSE IF f = "kali-installer" THEN "installer" ELSE "unknown"]]

MCWish ==
  {[image |-> "kali", media |-> "installer"],
   [image |-> "server", media |-> "server"]}

=============================================================================
