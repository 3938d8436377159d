CONSTANTS
  broken = broken
  libssl = libssl
  libgnutls = libgnutls
  Order <- MCOrder
  LoaderOf <- MCLoaderOf
  Supported <- MCSupported
  Specs <- MCSpecs
SPECIFICATION Spec
INVARIANT SupportedAreAttached
