\* Two servers, two requests; servers may ask for Negotiate, the proxy for the others.
SPECIFICATION Spec
CONSTANTS
  Hosts = {h1, h2}
  Home = h1
  ServerMethods = {"Negotiate"}
  ProxyMethods = {"NTLM", "Digest", "Basic"}
  MaxRedirects = 2
  MaxRequests = 2
INVARIANT CookiesStayWithHost
INVARIANT InStep
INVARIANT RejectedNotRepeated
PROPERTY RequestEnds
CHECK_DEADLOCK FALSE
