---------------------------- MODULE MCBookStream ----------------------------
(* Instances of BookStream: documents without a section or a name, and one *)
(* for a client with the token "secret", another one and no feed.          *)
EXTENDS BookStream

NoUrl == "no host"

Usable == [grpc |-> [auth_token |-> "secret"],
           feeds |-> << [name |-> "a", url |-> "h1"] >>]

Shared == << [name |-> "a", url |-> "h1"], [name |-> "b", url |-> NoUrl],
             [name |-> "c", url |-> "h1"], [name |-> "d", url |-> "h2"] >>

MCDocument ==
    { [feeds |-> Usable.feeds],
      [grpc |-> Usable.grpc],
      [Usable EXCEPT !.feeds = Append(@, [url |-> "h3"])],
      Usable,
      [grpc |-> [port |-> 50052], feeds |-> <<>>],
      [grpc |-> [auth_token |-> "other"], symbol |-> "ETHUSDT", feeds |-> Shared] }

=============================================================================
