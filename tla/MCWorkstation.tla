---------------------------- MODULE MCWorkstation ----------------------------
EXTENDS Workstation

CONSTANTS KDOX, KTLX, KXXX

L(argv, xdg, home) == [argv |-> argv, xdg |-> xdg, home |-> home]

(* Two command lines that use the shared file, and one for each way a      *)
(* start ends early, has no file, or uses another one.                     *)
MCLaunches ==
    {L(<<>>, "absolute", "absolute"),
     L(<<KDOX, "--headless">>, "absolute", "absolute"),
     L(<<KDOX>>, "relative", "absolute"),
     L(<<KDOX>>, "unset", "relative"),
     L(<<KDOX, "--config", "given">>, "absolute", "absolute"),
     L(<<KTLX, KDOX>>, "absolute", "absolute"),
     L(<<KXXX>>, "absolute", "absolute"),
     L(<<"--config">>, "absolute", "absolute"),
     L(<<"--help", KXXX>>, "absolute", "absolute")}

(* A site, a comment, an unknown key, a broken line and a product.         *)
MCText == <<Pair("site", KDOX), Comment, Pair("newer.setting", 7), Text,
            Pair("view.product", 1), Pair("view..x", 0)>>

(* The same with the product given twice.                                  *)
MCTextTwice == Append(MCText, Pair("view.product", 2))

MCEdits ==
    [path : {"xdg"},
     file : {Unreadable(MCText), Present(<<Comment, Pair("site", KDOX), Pair("window.width", 900)>>),
             Present(MCTextTwice)}]

MCViewValues == ("window.width" :> {600, 1920}) @@ ("view.product" :> {0})
=============================================================================
