---------------------------- MODULE MCHttpsClient ----------------------------
(* Instances of HttpsClient: urls of each kind, responses good and bad.  *)
EXTENDS HttpsClient

MCUrls ==
    [scheme : {"http", "https"}, host : {"name"}, port : {"none", "8443"}, bracket : {FALSE}]
    \cup {[scheme |-> "http", host |-> "name", port |-> "8443", bracket |-> TRUE],
          [scheme |-> "https", host |-> "name", port |-> "0", bracket |-> FALSE],
          [scheme |-> "http", host |-> "none", port |-> "none", bracket |-> FALSE],
          [scheme |-> "ftp", host |-> "name", port |-> "none", bracket |-> FALSE]}

MCAnswers ==
    {<<"s200", "crlf", "field", "crlf", "crlf", "text", "crlf", "crlf", "text">>,
     <<"s404", "crlf", "crlf">>,
     <<"s200", "crlf", "field">>,
     <<"junk", "crlf", "crlf", "text">>}
=============================================================================
